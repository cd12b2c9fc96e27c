-------------------------- MODULE LuaTable_proofs --------------------------
(***************************************************************************)
(* Theorems about LuaTable, for any keys and hashes, and programs of any   *)
(* length.                                                                 *)
(*                                                                         *)
(* The chains of the hash part are disjoint and end; each node is in the   *)
(* chain of the main position of its key, whose first node is at home.     *)
(* Every operation keeps that (Sound), so that luaH_get finds what is      *)
(* there, and a loop, which goes over the nodes, finds its place again.    *)
(***************************************************************************)
EXTENDS LuaTable, SequenceFacts, FiniteSetTheorems

-----------------------------------------------------------------------------
(* The least and the greatest element of a set of numbers.                 *)
LEMMA MinIsLeast ==
  ASSUME NEW S, NEW a, a \in S, S \subseteq Nat
  PROVE  Min(S) \in S /\ \A x \in S : Min(S) <= x
<1> DEFINE T == {n \in Nat : (\E x \in S : x <= n) => \E x \in S : \A y \in S : x <= y}
<1>1. 0 \in T
  OBVIOUS
<1>2. ASSUME NEW n \in Nat, n \in T PROVE n + 1 \in T
  <2>1. SUFFICES ASSUME NEW x \in S, x <= n + 1, ~\E y \in S : y <= n
                 PROVE  \A y \in S : x <= y
    BY <1>2
  <2> QED BY <2>1
<1> HIDE DEF T
<1>3. a \in T /\ a \in Nat
  BY <1>1, <1>2, NatSetInduction
<1>4. \E x \in S : \A y \in S : x <= y
  BY <1>3 DEF T
<1> QED BY <1>4 DEF Min

LEMMA MaxIsGreatest ==
  ASSUME NEW S, NEW b \in Nat, S # {}, S \subseteq 0 .. b
  PROVE  Max(S) \in S /\ \A x \in S : x <= Max(S)
<1> DEFINE T == {b - x : x \in S}
<1>1. T \subseteq Nat /\ T # {}
  <2>1. PICK x : x \in S
    OBVIOUS
  <2>2. b - x \in T
    BY <2>1
  <2>3. \A y \in S : b - y \in Nat
    OBVIOUS
  <2> QED BY <2>2, <2>3
<1>2. PICK a : a \in T
  BY <1>1
<1>3. Min(T) \in T /\ \A y \in T : Min(T) <= y
  <2> HIDE DEF T
  <2> QED BY <1>1, <1>2, MinIsLeast
<1>4. PICK x \in S : Min(T) = b - x
  BY <1>3
<1>5. \A y \in S : x >= y
  <2>1. ASSUME NEW y \in S PROVE x >= y
    <3>1. b - y \in T
      OBVIOUS
    <3>2. Min(T) <= b - y
      BY <1>3, <3>1
    <3> HIDE DEF T
    <3>3. x \in 0 .. b /\ y \in 0 .. b
      OBVIOUS
    <3>4. b - x <= b - y
      BY <1>4, <3>2
    <3> QED BY <3>3, <3>4
  <2> QED BY <2>1
<1>6. Max(S) \in S /\ \A y \in S : Max(S) >= y
  BY <1>5 DEF Max
<1> QED BY <1>6

-----------------------------------------------------------------------------
(* The nodes from one on: the least set with it that the links stay in.    *)
Closed(next, S) == \A x \in S : next[x] # NULL => next[x] \in S
Linked(D, next) == IsFiniteSet(D) /\ NULL \notin D /\ next \in [D -> D \cup {NULL}]

LEMMA FromClosed ==
  ASSUME NEW D, NEW next, Linked(D, next), NEW a \in D
  PROVE  /\ a \in From(next, a)
         /\ From(next, a) \subseteq D
         /\ Closed(next, From(next, a))
         /\ \A S : a \in S /\ Closed(next, S) => From(next, a) \subseteq S
<1> DEFINE E == D \cup {NULL}
           T == [E -> SUBSET D]
           c == [x \in E |-> IF x = NULL THEN {} ELSE {x}]
           more(g) == [x \in E |-> IF x = NULL THEN {} ELSE {x} \cup g[next[x]]]
           step == [g \in T |-> more(g)]
           nodes[m \in Nat] ==
              [x \in DOMAIN next \cup {NULL} |-> IF x = NULL THEN {} ELSE
                 {x} \cup IF m = 0 THEN {} ELSE nodes[m - 1][next[x]]]
<1>1. c \in T /\ \A g \in T : more(g) \in T
  <2>1. c \in T
    OBVIOUS
  <2>2. ASSUME NEW g \in T PROVE more(g) \in T
    <3>1. ASSUME NEW x \in D PROVE {x} \cup g[next[x]] \in SUBSET D
      <4>1. next[x] \in E
        BY DEF Linked
      <4>2. g[next[x]] \in SUBSET D
        BY <4>1
      <4> QED BY <4>2
    <3> QED BY <3>1
  <2> QED BY <2>1, <2>2
<1>2. PICK f \in [Nat -> T] : f[0] = c /\ \A m \in Nat : f[m + 1] = more(f[m])
  <2>1. step \in [T -> T] /\ \A g \in T : step[g] = more(g)
    BY <1>1
  <2> HIDE DEF T, step, more, nodes, c
  <2>2. PICK f \in [Nat -> T] : f[0] = c /\ \A m \in Nat : f[m + 1] = step[f[m]]
    BY SMTT(30), <1>1, <2>1, NatRecursion
  <2>3. \A m \in Nat : f[m + 1] = more(f[m])
    BY <2>1, <2>2
  <2> QED BY <2>2, <2>3
<1>3. f = [m \in Nat |-> [x \in DOMAIN next \cup {NULL} |-> IF x = NULL THEN {} ELSE
                            {x} \cup IF m = 0 THEN {} ELSE f[m - 1][next[x]]]]
  <2>1. DOMAIN next \cup {NULL} = E
    BY DEF Linked
  <2>2. f[0] = [x \in E |-> IF x = NULL THEN {} ELSE {x} \cup {}]
    BY <1>2
  <2>3. ASSUME NEW m \in Nat, m # 0
        PROVE  f[m] = [x \in E |-> IF x = NULL THEN {} ELSE {x} \cup f[m - 1][next[x]]]
    <3>1. m - 1 \in Nat /\ (m - 1) + 1 = m
      BY <2>3
    <3> QED BY <1>2, <3>1
  <2> HIDE DEF T, c, more, nodes, E
  <2>4. ASSUME NEW m \in Nat
        PROVE  f[m] = [x \in E |-> IF x = NULL THEN {} ELSE
                            {x} \cup IF m = 0 THEN {} ELSE f[m - 1][next[x]]]
    <3>1. CASE m = 0
      BY <2>2, <3>1
    <3>2. CASE m # 0
      BY <2>3, <3>2
    <3> QED BY <3>1, <3>2
  <2>5. f = [m \in Nat |-> f[m]]
    BY <1>2
  <2> QED BY <2>1, <2>4, <2>5
<1>4. nodes = [m \in Nat |-> [x \in DOMAIN next \cup {NULL} |-> IF x = NULL THEN {} ELSE
                            {x} \cup IF m = 0 THEN {} ELSE nodes[m - 1][next[x]]]]
  BY ZenonT(60), <1>3
<1>5. From(next, a) = nodes[Cardinality(DOMAIN next)][a]
  BY DEF From
<1>6. DOMAIN next = D
  BY DEF Linked
<1> HIDE DEF nodes
<1>7. nodes[0] = c
  BY <1>4, <1>6
<1>8. \A m \in Nat : nodes[m + 1] = more(nodes[m])
  <2>1. ASSUME NEW m \in Nat PROVE nodes[m + 1] = more(nodes[m])
    <3>1. m + 1 \in Nat /\ m + 1 # 0 /\ (m + 1) - 1 = m
      OBVIOUS
    <3>2. nodes[m + 1] = [x \in E |-> IF x = NULL THEN {} ELSE {x} \cup nodes[(m + 1) - 1][next[x]]]
      BY <1>4, <1>6, <3>1
    <3> QED BY <3>1, <3>2
  <2> QED BY <2>1
<1>9. \A m \in Nat : nodes[m] \in T
  <2> DEFINE Typed == {m \in Nat : nodes[m] \in T}
  <2>1. 0 \in Typed
    BY <1>1, <1>7
  <2> HIDE DEF c, more, T
  <2>2. \A m \in Nat : m \in Typed => m + 1 \in Typed
    BY <1>1, <1>8
  <2> HIDE DEF Typed
  <2>3. \A m \in Nat : m \in Typed
    BY <2>1, <2>2, NatSetInduction
  <2> QED BY <2>3 DEF Typed
<1>10. \A m \in Nat, x \in D : nodes[m + 1][x] = {x} \cup nodes[m][next[x]]
  <2>1. \A x \in D : x # NULL /\ x \in E
    BY DEF Linked
  <2> QED BY <1>8, <2>1
<1>11. ASSUME NEW m \in Nat PROVE nodes[m][NULL] = {}
  <2>1. CASE m = 0
    BY <1>7, <2>1
  <2>2. CASE m # 0
    <3>1. m - 1 \in Nat /\ (m - 1) + 1 = m
      BY <2>2
    <3>2. nodes[m] = more(nodes[m - 1])
      <4> HIDE DEF more
      <4> QED BY <1>8, <3>1
    <3> QED BY <3>2
  <2> QED BY <2>1, <2>2
<1>12. \A x \in D : next[x] \in E
  BY DEF Linked
<1>13. NULL \notin D /\ IsFiniteSet(D)
  BY DEF Linked
<1>14. \A x \in D : nodes[0][x] = {x}
  BY <1>7, <1>13
<1> DEFINE N == Cardinality(D)
           near(m, x) == nodes[m][x] \cup ({next[y] : y \in nodes[m][x]} \ {NULL})
<1>15. N \in Nat
  BY <1>13, FS_CardinalityType
<1>16. \A m \in Nat : \A x \in D : nodes[m + 1][x] = near(m, x)
  <2> DEFINE Near == {m \in Nat : \A x \in D : nodes[m + 1][x] = near(m, x)}
  <2>1. 0 \in Near
    <3>1. ASSUME NEW x \in D PROVE nodes[0 + 1][x] = near(0, x)
      <4>1. nodes[0 + 1][x] = {x} \cup nodes[0][next[x]]
        BY <1>10
      <4>2. nodes[0][x] = {x}
        BY <1>14
      <4>3. CASE next[x] = NULL
        BY <1>11, <4>1, <4>2, <4>3
      <4>4. CASE next[x] \in D
        <5>1. nodes[0][next[x]] = {next[x]} /\ next[x] # NULL
          BY <1>13, <1>14, <4>4
        <5> QED BY <4>1, <4>2, <5>1
      <4> QED BY <1>12, <4>3, <4>4
    <3> QED BY <3>1
  <2>2. ASSUME NEW m \in Nat, m \in Near PROVE m + 1 \in Near
    <3>1. ASSUME NEW x \in D PROVE nodes[(m + 1) + 1][x] = near(m + 1, x)
      <4>1. /\ nodes[(m + 1) + 1][x] = {x} \cup nodes[m + 1][next[x]]
            /\ nodes[m + 1][x] = {x} \cup nodes[m][next[x]]
        <5>1. m + 1 \in Nat
          OBVIOUS
        <5> QED BY <1>10, <5>1
      <4>2. CASE next[x] = NULL
        <5>1. nodes[m + 1][next[x]] = {} /\ nodes[m][next[x]] = {}
          BY <1>11, <4>2
        <5> QED BY <4>1, <4>2, <5>1
      <4>3. CASE next[x] \in D
        <5>1. nodes[m + 1][next[x]] = near(m, next[x])
          BY <2>2, <4>3
        <5>2. next[x] \in nodes[m][next[x]]
          <6>1. m = 0 \/ (m - 1 \in Nat /\ (m - 1) + 1 = m)
            OBVIOUS
          <6> QED BY <1>10, <1>14, <4>3, <6>1
        <5>3. near(m + 1, x) = {x} \cup nodes[m][next[x]]
                                 \cup ({next[y] : y \in {x} \cup nodes[m][next[x]]} \ {NULL})
          BY <4>1
        <5> QED BY <4>1, <5>1, <5>2, <5>3
      <4> QED BY <1>12, <4>2, <4>3
    <3>2. m + 1 \in Nat
      OBVIOUS
    <3> QED BY <3>1, <3>2
  <2> HIDE DEF Near
  <2>3. \A m \in Nat : m \in Near
    BY <2>1, <2>2, NatSetInduction
  <2> QED BY <2>3 DEF Near
<1>17. \A m \in Nat : nodes[m][a] \subseteq D /\ a \in nodes[m][a]
  <2>1. ASSUME NEW m \in Nat PROVE nodes[m][a] \subseteq D
    <3>1. nodes[m] \in T
      BY <1>9
    <3> QED BY <3>1
  <2>2. ASSUME NEW m \in Nat PROVE a \in nodes[m][a]
    <3>1. m = 0 \/ (m - 1 \in Nat /\ (m - 1) + 1 = m)
      OBVIOUS
    <3>2. m - 1 \in Nat => nodes[(m - 1) + 1][a] = {a} \cup nodes[m - 1][next[a]]
      BY <1>10
    <3> QED BY <1>14, <3>1, <3>2
  <2> QED BY <2>1, <2>2
<1>18. \A m \in Nat : Closed(next, nodes[m][a]) \/ Cardinality(nodes[m][a]) >= m + 1
  <2> DEFINE Grown == {m \in Nat : Closed(next, nodes[m][a]) \/ Cardinality(nodes[m][a]) >= m + 1}
  <2>1. 0 \in Grown
    <3>1. Cardinality({a}) = 1
      BY FS_Singleton
    <3>2. nodes[0][a] = {a}
      BY <1>14
    <3>3. Cardinality(nodes[0][a]) = 1
      BY <3>1, <3>2
    <3>4. Cardinality(nodes[0][a]) >= 0 + 1
      BY <3>3
    <3> QED BY <3>4
  <2>2. ASSUME NEW m \in Nat, m \in Grown PROVE m + 1 \in Grown
    <3>1. nodes[m + 1][a] = near(m, a)
      BY <1>16
    <3>2. CASE Closed(next, nodes[m][a])
      <4>1. nodes[m + 1][a] = nodes[m][a]
        BY <3>1, <3>2 DEF Closed
      <4> QED BY <3>2, <4>1
    <3>3. CASE ~Closed(next, nodes[m][a])
      <4>1. Cardinality(nodes[m][a]) >= m + 1
        BY <2>2, <3>3
      <4>2. nodes[m][a] \in SUBSET nodes[m + 1][a] /\ nodes[m][a] # nodes[m + 1][a]
        BY <3>1, <3>3 DEF Closed
      <4>3. IsFiniteSet(nodes[m + 1][a]) /\ IsFiniteSet(nodes[m][a])
        <5>1. nodes[m + 1][a] \in SUBSET D /\ nodes[m][a] \in SUBSET D
          BY <1>17
        <5> QED BY <1>13, <5>1, FS_Subset
      <4>4. /\ Cardinality(nodes[m + 1][a]) \in Nat /\ Cardinality(nodes[m][a]) \in Nat
            /\ Cardinality(nodes[m][a]) <= Cardinality(nodes[m + 1][a])
            /\ Cardinality(nodes[m][a]) # Cardinality(nodes[m + 1][a])
        BY <4>2, <4>3, FS_Subset, FS_CardinalityType
      <4>5. Cardinality(nodes[m + 1][a]) >= (m + 1) + 1
        BY <4>1, <4>4
      <4> QED BY <4>5
    <3> QED BY <3>2, <3>3
  <2> HIDE DEF Grown
  <2>3. \A m \in Nat : m \in Grown
    BY <2>1, <2>2, NatSetInduction
  <2> QED BY <2>3 DEF Grown
<1>19. Closed(next, nodes[N][a])
  <2>1. nodes[N][a] \in SUBSET D
    BY <1>15, <1>17
  <2>2. Cardinality(nodes[N][a]) <= N
    BY <1>13, <2>1, FS_Subset
  <2>3. Cardinality(nodes[N][a]) \in Nat
    BY <1>13, <2>1, FS_Subset, FS_CardinalityType
  <2> HIDE DEF N
  <2> QED BY <1>15, <1>18, <2>2, <2>3
<1>20. ASSUME NEW S, a \in S, Closed(next, S) PROVE nodes[N][a] \subseteq S
  <2> DEFINE Within == {m \in Nat : nodes[m][a] \subseteq S}
  <2>1. 0 \in Within
    BY <1>14, <1>20
  <2>2. ASSUME NEW m \in Nat, m \in Within PROVE m + 1 \in Within
    <3>1. nodes[m + 1][a] = near(m, a)
      BY <1>16
    <3> QED BY <1>20, <2>2, <3>1 DEF Closed
  <2> HIDE DEF Within
  <2>3. \A m \in Nat : m \in Within
    BY <2>1, <2>2, NatSetInduction
  <2> QED BY <1>15, <2>3 DEF Within
<1>21. From(next, a) = nodes[N][a]
  BY <1>5, <1>6
<1> HIDE DEF N
<1> QED BY <1>15, <1>17, <1>19, <1>20, <1>21

(* Chains lead on; the first node of one is followed by the chain of the   *)
(* next node; every other node has one before it.                          *)
LEMMA FromFrom ==
  ASSUME NEW D, NEW next, Linked(D, next), NEW a \in D, NEW x \in From(next, a)
  PROVE  x \in D /\ From(next, x) \subseteq From(next, a)
<1>1. /\ x \in D
      /\ Closed(next, From(next, a))
  BY FromClosed
<1>2. \A S : x \in S /\ Closed(next, S) => From(next, x) \subseteq S
  BY <1>1, FromClosed
<1> QED BY <1>1, <1>2

LEMMA FromNext ==
  ASSUME NEW D, NEW next, Linked(D, next), NEW a \in D
  PROVE  /\ next[a] = NULL => From(next, a) = {a}
         /\ next[a] # NULL => /\ next[a] \in D
                              /\ From(next, a) = {a} \cup From(next, next[a])
<1>1. /\ a \in From(next, a)
      /\ Closed(next, From(next, a))
      /\ \A S : a \in S /\ Closed(next, S) => From(next, a) \subseteq S
  BY FromClosed
<1>2. CASE next[a] = NULL
  <2>1. Closed(next, {a})
    BY <1>2 DEF Closed
  <2> QED BY <1>1, <1>2, <2>1
<1>3. CASE next[a] # NULL
  <2>1. next[a] \in D /\ next[a] \in From(next, a)
    BY <1>1, <1>3 DEF Linked, Closed
  <2>2. /\ next[a] \in From(next, next[a])
        /\ Closed(next, From(next, next[a]))
    BY <2>1, FromClosed
  <2>3. Closed(next, {a} \cup From(next, next[a]))
    BY <2>2 DEF Closed
  <2>4. From(next, a) \subseteq {a} \cup From(next, next[a])
    BY <1>1, <2>3
  <2>5. From(next, next[a]) \subseteq From(next, a)
    BY <2>1, FromFrom
  <2> QED BY <1>1, <1>3, <2>1, <2>4, <2>5
<1> QED BY <1>2, <1>3

LEMMA FromPrevious ==
  ASSUME NEW D, NEW next, Linked(D, next), NEW a \in D, NEW x \in From(next, a), x # a
  PROVE  \E y \in From(next, a) : next[y] = x
<1> SUFFICES ASSUME \A y \in From(next, a) : next[y] # x PROVE FALSE
  OBVIOUS
<1>1. /\ a \in From(next, a)
      /\ Closed(next, From(next, a))
      /\ \A S : a \in S /\ Closed(next, S) => From(next, a) \subseteq S
  BY FromClosed
<1>2. Closed(next, From(next, a) \ {x})
  BY <1>1 DEF Closed
<1> QED BY <1>1, <1>2

(* Chains that do not meet and have no cycle.                              *)
Straight(D, next) ==
  /\ Linked(D, next)
  /\ \A x, y \in D : next[x] = next[y] /\ next[x] # NULL => x = y
  /\ \A x \in D : next[x] # NULL => x \notin From(next, next[x])

LEMMA FromOneWay ==
  ASSUME NEW D, NEW next, Straight(D, next), NEW a \in D, NEW b \in D,
         a \in From(next, b), b \in From(next, a)
  PROVE  a = b
<1> SUFFICES ASSUME a # b PROVE FALSE
  OBVIOUS
<1>1. Linked(D, next)
  BY DEF Straight
<1>2. next[b] # NULL /\ next[b] \in D /\ a \in From(next, next[b])
  BY <1>1, FromNext
<1>3. From(next, a) \subseteq From(next, next[b])
  BY <1>1, <1>2, FromFrom
<1> QED BY <1>2, <1>3 DEF Straight

(* A node n of no chain is put after m.                                    *)
LEMMA PutAfter ==
  ASSUME NEW D, NEW next, Straight(D, next), NEW m \in D, NEW n \in D, n # m,
         next[n] = NULL, \A y \in D : next[y] # n,
         NEW new \in [D -> D \cup {NULL}], new[n] = next[m], new[m] = n,
         \A x \in D \ {m, n} : new[x] = next[x]
  PROVE  /\ Straight(D, new)
         /\ \A a \in D \ {n} : From(new, a) = From(next, a) \cup IF m \in From(next, a) THEN {n} ELSE {}
         /\ From(new, n) = From(new, m) \ {m}
<1>1. Linked(D, next) /\ NULL \notin D
  BY DEF Straight, Linked
<1>2. Linked(D, new)
  BY <1>1 DEF Linked
<1>3. ASSUME NEW a \in D \ {n} PROVE n \notin From(next, a)
  BY <1>1, FromPrevious, FromClosed
<1>4. ASSUME NEW a \in D \ {n}
      PROVE  From(new, a) = From(next, a) \cup IF m \in From(next, a) THEN {n} ELSE {}
  <2> DEFINE X == From(next, a) \cup IF m \in From(next, a) THEN {n} ELSE {}
  <2>1. /\ a \in From(next, a) /\ From(next, a) \subseteq D
        /\ Closed(next, From(next, a))
        /\ \A S : a \in S /\ Closed(next, S) => From(next, a) \subseteq S
    BY <1>1, FromClosed
  <2>2. /\ a \in From(new, a) /\ From(new, a) \subseteq D
        /\ Closed(new, From(new, a))
        /\ \A S : a \in S /\ Closed(new, S) => From(new, a) \subseteq S
    BY <1>2, FromClosed
  <2>3. Closed(new, X)
    <3>1. ASSUME NEW x \in X, new[x] # NULL PROVE new[x] \in X
      <4>1. CASE x = n
        BY <1>3, <2>1, <3>1, <4>1 DEF Closed
      <4>2. CASE x = m
        BY <1>3, <4>2
      <4>3. CASE x # n /\ x # m
        BY <2>1, <3>1, <4>3 DEF Closed
      <4> QED BY <4>1, <4>2, <4>3
    <3> HIDE DEF X
    <3> QED BY <3>1 DEF Closed
  <2>4. From(new, a) \subseteq X
    BY <2>1, <2>2, <2>3
  <2>5. Closed(next, From(new, a) \ {n})
    <3>1. ASSUME NEW x \in From(new, a) \ {n}, next[x] # NULL
          PROVE  next[x] \in From(new, a) \ {n}
      <4>1. x \in D /\ next[x] # n
        BY <2>2
      <4>2. CASE x = m
        <5>1. n \in From(new, a)
          BY <1>1, <2>2, <4>2 DEF Closed
        <5>2. new[n] \in From(new, a)
          BY <2>2, <3>1, <4>2, <5>1 DEF Closed
        <5> QED BY <4>1, <4>2, <5>2
      <4>3. CASE x # m
        BY <2>2, <3>1, <4>1, <4>3 DEF Closed
      <4> QED BY <4>2, <4>3
    <3> QED BY <3>1 DEF Closed
  <2>6. From(next, a) \subseteq From(new, a)
    BY <2>1, <2>2, <2>5
  <2>7. m \in From(next, a) => n \in From(new, a)
    BY <1>1, <2>2, <2>6 DEF Closed
  <2> QED BY <2>4, <2>6, <2>7
<1>5. From(new, m) = {m} \cup From(new, n)
  BY <1>1, <1>2, FromNext
<1>6. From(new, n) = {n} \cup IF next[m] = NULL THEN {} ELSE From(new, next[m])
  BY <1>2, FromNext
<1>7. next[m] # NULL => /\ next[m] \in D \ {n} /\ m \notin From(next, next[m])
                        /\ From(new, next[m]) = From(next, next[m])
  BY <1>1, <1>4 DEF Straight, Linked
<1>8. m \notin From(new, n)
  BY <1>6, <1>7
<1>9. ASSUME NEW x \in D, NEW y \in D, new[x] = new[y], new[x] # NULL PROVE x = y
  BY <1>9 DEF Straight
<1>10. ASSUME NEW x \in D, new[x] # NULL PROVE x \notin From(new, new[x])
  <2>1. CASE x = n
    <3>1. n \notin From(next, next[m])
      BY <1>3, <1>7, <1>10, <2>1
    <3> QED BY <1>7, <1>10, <2>1, <3>1
  <2>2. CASE x = m
    BY <1>8, <2>2
  <2>3. CASE x # n /\ x # m
    <3>1. new[x] = next[x] /\ next[x] \in D \ {n} /\ x \notin From(next, next[x])
      BY <1>10, <2>3 DEF Straight, Linked
    <3> QED BY <1>4, <2>3, <3>1
  <2> QED BY <2>1, <2>2, <2>3
<1> QED BY <1>2, <1>4, <1>5, <1>8, <1>9, <1>10 DEF Straight

(* A node n of no chain takes the place of m, which p is before.           *)
LEMMA PutInPlace ==
  ASSUME NEW D, NEW next, Straight(D, next),
         NEW m \in D, NEW n \in D, NEW p \in D, n # m, next[p] = m,
         next[n] = NULL, \A y \in D : next[y] # n,
         NEW new \in [D -> D \cup {NULL}], new[p] = n, new[n] = next[m], new[m] = NULL,
         \A x \in D \ {m, n, p} : new[x] = next[x]
  PROVE  /\ Straight(D, new)
         /\ \A a \in D \ {n, m} :
               From(new, a) = (From(next, a) \ {m}) \cup IF m \in From(next, a) THEN {n} ELSE {}
         /\ From(new, n) = {n} \cup (From(next, m) \ {m})
         /\ From(new, m) = {m}
<1>1. Linked(D, next) /\ NULL \notin D
  BY DEF Straight, Linked
<1>2. Linked(D, new)
  BY <1>1 DEF Linked
<1>3. p # n /\ p # m
  <2>1. next[m] # m
    BY <1>1, FromClosed DEF Straight
  <2> QED BY <1>1, <2>1
<1>4. ASSUME NEW a \in D \ {n} PROVE n \notin From(next, a)
  BY <1>1, FromPrevious, FromClosed
<1>5. ASSUME NEW y \in D, next[y] = m PROVE y = p
  BY <1>1, <1>5 DEF Straight
<1>6. ASSUME NEW a \in D \ {n, m}
      PROVE  From(new, a) = (From(next, a) \ {m}) \cup IF m \in From(next, a) THEN {n} ELSE {}
  <2> DEFINE X == (From(next, a) \ {m}) \cup IF m \in From(next, a) THEN {n} ELSE {}
             Y == (From(new, a) \ {n}) \cup IF n \in From(new, a) THEN {m} ELSE {}
  <2>1. /\ a \in From(next, a) /\ From(next, a) \subseteq D
        /\ Closed(next, From(next, a))
        /\ \A S : a \in S /\ Closed(next, S) => From(next, a) \subseteq S
    BY <1>1, FromClosed
  <2>2. /\ a \in From(new, a) /\ From(new, a) \subseteq D
        /\ Closed(new, From(new, a))
        /\ \A S : a \in S /\ Closed(new, S) => From(new, a) \subseteq S
    BY <1>2, FromClosed
  <2>3. m \notin From(new, a)
    <3>1. Closed(new, D \ {m})
      <4>1. ASSUME NEW x \in D \ {m}, new[x] # NULL PROVE new[x] \in D \ {m}
        <5>1. new[x] \in D
          BY <4>1
        <5>2. CASE x = p
          BY <5>1, <5>2
        <5>3. CASE x = n
          BY <1>1, <5>1, <5>3, FromClosed DEF Straight
        <5>4. CASE x # p /\ x # n
          BY <1>5, <4>1, <5>1, <5>4
        <5> QED BY <5>2, <5>3, <5>4
      <4> QED BY <4>1 DEF Closed
    <3> QED BY <2>2, <3>1
  <2>4. Closed(new, X)
    <3>1. ASSUME NEW x \in X, new[x] # NULL PROVE new[x] \in X
      <4>1. CASE x = n
        <5>1. m \in From(next, a) /\ next[m] # NULL
          BY <1>4, <3>1, <4>1
        <5>2. next[m] \in From(next, a) /\ next[m] # m
          BY <1>1, <2>1, <5>1, FromClosed DEF Closed, Straight
        <5> QED BY <4>1, <5>2
      <4>2. CASE x = p
        <5>1. p \in From(next, a)
          BY <1>3, <4>2
        <5>2. m \in From(next, a)
          BY <1>1, <2>1, <5>1 DEF Closed
        <5> QED BY <4>2, <5>2
      <4>3. CASE x # n /\ x # p
        <5>1. x \in From(next, a) /\ x # m /\ x \in D
          BY <2>1, <4>3
        <5>2. new[x] = next[x] /\ next[x] # m
          BY <1>5, <4>3, <5>1
        <5> QED BY <2>1, <3>1, <5>1, <5>2 DEF Closed
      <4> QED BY <4>1, <4>2, <4>3
    <3> HIDE DEF X
    <3> QED BY <3>1 DEF Closed
  <2>5. From(new, a) \subseteq X
    BY <2>1, <2>2, <2>4
  <2>6. Closed(next, Y)
    <3>1. ASSUME NEW x \in Y, next[x] # NULL PROVE next[x] \in Y
      <4>1. CASE x = m
        <5>1. n \in From(new, a)
          BY <2>3, <4>1
        <5>2. new[n] \in From(new, a)
          BY <2>2, <3>1, <4>1, <5>1 DEF Closed
        <5> QED BY <4>1, <5>2
      <4>2. CASE x = p
        <5>1. p \in From(new, a)
          BY <1>3, <4>2
        <5>2. n \in From(new, a)
          BY <1>1, <2>2, <5>1 DEF Closed
        <5> QED BY <4>2, <5>2
      <4>3. CASE x # m /\ x # p
        <5>1. x \in From(new, a) /\ x # n /\ x \in D
          BY <2>2, <4>3
        <5>2. new[x] = next[x] /\ next[x] # n
          BY <4>3, <5>1
        <5> QED BY <2>2, <3>1, <5>1, <5>2 DEF Closed
      <4> QED BY <4>1, <4>2, <4>3
    <3> HIDE DEF Y
    <3> QED BY <3>1 DEF Closed
  <2>7. From(next, a) \subseteq Y
    BY <2>1, <2>2, <2>6
  <2> QED BY <1>4, <2>3, <2>5, <2>7
<1>7. From(new, m) = {m}
  BY <1>2, FromNext
<1>8. /\ next[m] = NULL => From(next, m) = {m}
      /\ next[m] # NULL => /\ next[m] \in D \ {n, m} /\ m \notin From(next, next[m])
                           /\ From(next, m) = {m} \cup From(next, next[m])
                           /\ From(new, next[m]) = From(next, next[m])
  <2>1. next[m] # NULL => next[m] \in D \ {n, m} /\ m \notin From(next, next[m])
    BY <1>1, FromClosed DEF Straight, Linked
  <2>2. /\ next[m] = NULL => From(next, m) = {m}
        /\ next[m] # NULL => From(next, m) = {m} \cup From(next, next[m])
    BY <1>1, FromNext
  <2>3. ASSUME next[m] # NULL PROVE From(new, next[m]) = From(next, next[m])
    BY <1>6, <2>1, <2>3
  <2> QED BY <2>1, <2>2, <2>3
<1>9. From(new, n) = {n} \cup IF next[m] = NULL THEN {} ELSE From(new, next[m])
  BY <1>2, FromNext
<1>10. From(new, n) = {n} \cup (From(next, m) \ {m})
  BY <1>8, <1>9
<1>11. ASSUME NEW x \in D, NEW y \in D, new[x] = new[y], new[x] # NULL PROVE x = y
  <2>1. \A u, v \in D : next[u] = next[v] /\ next[u] # NULL => u = v
    BY DEF Straight
  <2> QED BY <1>3, <1>11, <2>1
<1>12. ASSUME NEW x \in D, new[x] # NULL PROVE x \notin From(new, new[x])
  <2>1. CASE x = n
    <3>1. n \notin From(next, next[m])
      BY <1>4, <1>8, <1>12, <2>1
    <3> QED BY <1>8, <1>12, <2>1, <3>1
  <2>2. CASE x = p
    <3>1. p \notin From(next, m)
      BY <1>1 DEF Straight
    <3> QED BY <1>3, <1>10, <2>2, <3>1
  <2>3. CASE x # n /\ x # p
    <3>1. x # m
      BY <1>12
    <3>2. new[x] = next[x] /\ next[x] \in D \ {n, m} /\ x \notin From(next, next[x])
      BY <1>5, <1>12, <2>3, <3>1 DEF Straight, Linked
    <3> QED BY <1>6, <2>3, <3>1, <3>2
  <2> QED BY <2>1, <2>2, <2>3
<1> QED BY <1>2, <1>6, <1>7, <1>10, <1>11, <1>12 DEF Straight

-----------------------------------------------------------------------------
(* What is true of a table after every operation.                          *)
Values == {nil} \cup {ValueOf(k) : k \in Keys}
IsTable(h) ==
  /\ h = [sizearray |-> h.sizearray, array |-> h.array, size |-> h.size, key |-> h.key,
          dead |-> h.dead, val |-> h.val, next |-> h.next, lastfree |-> h.lastfree]
  /\ h.sizearray \in Nat /\ h.size \in Nat /\ h.lastfree \in 0 .. h.size
  /\ h.array \in [1 .. h.sizearray -> Values]
  /\ h.key \in [Nodes(h) -> Keys \cup {nil}]
  /\ h.dead \in [Nodes(h) -> BOOLEAN]
  /\ h.val \in [Nodes(h) -> Values]
  /\ h.next \in [Nodes(h) -> Nodes(h) \cup {NULL}]
Home(h, x) == mainposition(h, h.key[x])

\* Nodes without a key are in no chain and have no value.
FreeApart(h) == \A x \in Nodes(h) : h.key[x] = nil =>
                   h.val[x] = nil /\ h.next[x] = NULL /\ \A y \in Nodes(h) : h.next[y] # x
\* The main position of each key there is has a node that is at home.
AtHome(h) == \A x \in Nodes(h) : h.key[x] # nil =>
                   h.key[Home(h, x)] # nil /\ Home(h, Home(h, x)) = Home(h, x)
\* A node is in the chain of its main position.
InChain(h) == \A x \in Nodes(h) : h.key[x] # nil => x \in From(h.next, Home(h, x))
\* A key that is not dead comes before the dead ones like it.
LiveFirst(h) == \A x, y \in Nodes(h) :
                   h.key[x] # nil /\ ~h.dead[x] /\ h.key[y] = h.key[x] => y \in From(h.next, x)
DeadEmpty(h) == \A x \in Nodes(h) : h.dead[x] => h.val[x] = nil
\* getfreepos need not look at what it has passed.
FullAbove(h) == \A x \in Nodes(h) : x >= h.lastfree => h.key[x] # nil
\* The two parts have different keys.
Apart(h) == \A x \in Nodes(h) : h.key[x] # nil => ~InArray(h, h.key[x])
ArrayOfInts(h) == \A i \in 1 .. h.sizearray : h.array[i] # nil => i \in Ints

Sound(h) == /\ IsTable(h) /\ Straight(Nodes(h), h.next)
            /\ FreeApart(h) /\ AtHome(h) /\ InChain(h) /\ LiveFirst(h) /\ DeadEmpty(h)
            /\ FullAbove(h) /\ Apart(h) /\ ArrayOfInts(h)

LEMMA MainPositionIsNode ==
  ASSUME NEW h, h.size \in Nat \ {0}, NEW k \in Keys
  PROVE  mainposition(h, k) \in Nodes(h)
<1>1. Hash[k] \in Nat
  BY TableAssumption
<1>2. 0 \in Nodes(h)
  BY DEF Nodes
<1>3. \A a \in Nat, b \in Nat \ {0} : a % b \in 0 .. b - 1
  OBVIOUS
<1>4. sizenode(h) = h.size
  BY DEF sizenode
<1>5. Hash[k] % h.size \in Nodes(h)
  BY <1>1, <1>3 DEF Nodes
<1>6. hashmod(h, Hash[k]) \in Nodes(h)
  <2>1. CASE h.size = 1
    BY <1>1, <1>3, <1>4, <2>1 DEF hashmod, Nodes
  <2>2. CASE h.size # 1
    <3>1. h.size - 1 \in Nat \ {0}
      BY <2>2
    <3>2. Hash[k] % (h.size - 1) \in 0 .. (h.size - 1) - 1
      BY <1>1, <1>3, <3>1
    <3> QED BY <1>4, <2>2, <3>2 DEF hashmod, Nodes
  <2> QED BY <2>1, <2>2
<1> QED BY <1>2, <1>4, <1>5, <1>6 DEF mainposition

LEMMA NodesFinite ==
  ASSUME NEW h, h.size \in Nat
  PROVE  IsFiniteSet(Nodes(h)) /\ NULL \notin Nodes(h) /\ Nodes(h) \subseteq Nat
         /\ (Nodes(h) # {} => h.size \in Nat \ {0})
<1>1. IsFiniteSet(0 .. h.size - 1)
  BY FS_Interval
<1>2. NULL \notin Nodes(h) /\ Nodes(h) \subseteq Nat /\ (Nodes(h) # {} => h.size \in Nat \ {0})
  BY DEF Nodes, NULL
<1> QED BY <1>1, <1>2 DEF Nodes

(* Seek finds the node of a key that is not dead, and only such nodes.     *)
LEMMA SeekFinds ==
  ASSUME NEW h, Sound(h), NEW k \in Keys
  PROVE  /\ NodeOf(h, k) = NULL => \A x \in Nodes(h) : h.key[x] = k => h.dead[x]
         /\ NodeOf(h, k) # NULL => /\ NodeOf(h, k) \in Nodes(h)
                                   /\ h.key[NodeOf(h, k)] = k /\ ~h.dead[NodeOf(h, k)]
         /\ \A x \in Nodes(h) : h.key[x] = k /\ ~h.dead[x] =>
               NodeOf(h, k) = x /\ Seek(h, k, TRUE) = x
<1> DEFINE Found(dead) == {x \in Nodes(h) : /\ h.key[x] = k /\ (dead \/ ~h.dead[x])
                                            /\ x \in From(h.next, mainposition(h, k))}
<1>1. /\ NodeOf(h, k) = First(h.next, Found(FALSE))
      /\ Seek(h, k, TRUE) = First(h.next, Found(TRUE))
  BY DEF NodeOf, Seek
<1>2. IsTable(h) /\ Straight(Nodes(h), h.next) /\ Linked(Nodes(h), h.next) /\ k # nil
  BY TableAssumption DEF Sound, Straight
<1>3. NULL \notin Nodes(h)
  BY <1>2, NodesFinite DEF IsTable
<1>4. \A x \in Nodes(h) : h.key[x] = k => x \in From(h.next, mainposition(h, k))
  BY <1>2 DEF Sound, InChain, Home
<1>5. \A x, y \in Nodes(h) : h.key[x] = k /\ ~h.dead[x] /\ h.key[y] = k => y \in From(h.next, x)
  BY <1>2 DEF Sound, LiveFirst
<1>6. ASSUME NEW x \in Nodes(h), h.key[x] = k, ~h.dead[x], NEW dead \in BOOLEAN
      PROVE  First(h.next, Found(dead)) = x
  <2>1. x \in Found(dead) /\ Found(dead) \subseteq Nodes(h)
    BY <1>4, <1>6
  <2>2. \A y \in Found(dead) : y \in From(h.next, x)
    BY <1>5, <1>6
  <2>3. ASSUME NEW y \in Found(dead), \A z \in Found(dead) \ {y} : z \in From(h.next, y) PROVE y = x
    BY <1>2, <2>1, <2>2, <2>3, FromOneWay
  <2> HIDE DEF Found
  <2> QED BY <2>1, <2>2, <2>3 DEF First
<1>7. (\A x \in Nodes(h) : h.key[x] = k => h.dead[x]) => NodeOf(h, k) = NULL
  <2>1. (\A x \in Nodes(h) : h.key[x] = k => h.dead[x]) => Found(FALSE) = {}
    OBVIOUS
  <2> HIDE DEF Found
  <2> QED BY <1>1, <2>1 DEF First
<1>8. \A x \in Nodes(h) : h.key[x] = k /\ ~h.dead[x] => NodeOf(h, k) = x /\ Seek(h, k, TRUE) = x
  <2> HIDE DEF Found
  <2> QED BY <1>1, <1>6
<1> HIDE DEF Found
<1> QED BY <1>3, <1>7, <1>8

(* luaH_get gives what a node with the key holds, nil when none does.      *)
LEMMA GetIs ==
  ASSUME NEW h, Sound(h), NEW k \in Keys
  PROVE  /\ InArray(h, k) => luaH_get(h, k) = h.array[k]
         /\ ~InArray(h, k) =>
               /\ \A x \in Nodes(h) : h.key[x] = k /\ h.val[x] # nil => luaH_get(h, k) = h.val[x]
               /\ (\A x \in Nodes(h) : h.key[x] = k => h.val[x] = nil) => luaH_get(h, k) = nil
<1>1. \A x \in Nodes(h) : h.val[x] # nil => ~h.dead[x]
  BY DEF Sound, DeadEmpty
<1>2. NULL \notin Nodes(h)
  BY NodesFinite DEF Sound, IsTable
<1>3. ASSUME ~InArray(h, k), NEW x \in Nodes(h), h.key[x] = k, h.val[x] # nil
      PROVE  luaH_get(h, k) = h.val[x]
  <2>1. NodeOf(h, k) = x /\ x # NULL
    BY <1>1, <1>2, <1>3, SeekFinds
  <2> QED BY <1>3, <2>1 DEF luaH_get
<1>4. ASSUME ~InArray(h, k), \A x \in Nodes(h) : h.key[x] = k => h.val[x] = nil
      PROVE  luaH_get(h, k) = nil
  <2>1. NodeOf(h, k) # NULL => h.val[NodeOf(h, k)] = nil
    BY <1>4, SeekFinds
  <2> QED BY <1>4, <2>1 DEF luaH_get
<1> QED BY <1>3, <1>4 DEF luaH_get

-----------------------------------------------------------------------------
(* Insertion.  What becomes of a table h when v is put at key k, g.        *)
OnlyLive(h, K) == \A x \in Nodes(h) : h.key[x] # nil => ~h.dead[x] /\ h.key[x] \in K
SameShape(h, g) == g.size = h.size /\ g.sizearray = h.sizearray
Stored(h, g, k, v) ==
  /\ Sound(g) /\ SameShape(h, g)
  /\ \A j \in Keys : luaH_get(g, j) = IF j = k THEN v ELSE luaH_get(h, j)
  /\ ~InArray(h, k) => NodeOf(g, k) # NULL
  /\ \A K : OnlyLive(h, K) /\ (InArray(h, k) \/ k \in K) => OnlyLive(g, K)

LEMMA ShapeIsAll ==
  ASSUME NEW h, NEW g, SameShape(h, g)
  PROVE  /\ Nodes(g) = Nodes(h)
         /\ \A j : mainposition(g, j) = mainposition(h, j)
         /\ \A j : InArray(g, j) <=> InArray(h, j)
BY DEF SameShape, Nodes, mainposition, hashmod, sizenode, InArray

(* The array part with other values.                                       *)
WithArray(h, g, a) ==
  /\ a \in [1 .. h.sizearray -> Values] /\ \A i \in 1 .. h.sizearray : a[i] # nil => i \in Ints
  /\ SameShape(h, g)
  /\ g.array = a /\ g.key = h.key /\ g.dead = h.dead
  /\ g.val = h.val /\ g.next = h.next /\ g.lastfree = h.lastfree
  /\ g = [sizearray |-> g.sizearray, array |-> g.array, size |-> g.size, key |-> g.key,
          dead |-> g.dead, val |-> g.val, next |-> g.next, lastfree |-> g.lastfree]
LEMMA IsWithArray ==
  ASSUME NEW h, Sound(h), NEW a, a \in [1 .. h.sizearray -> Values],
         \A i \in 1 .. h.sizearray : a[i] # nil => i \in Ints,
         NEW g, g = [h EXCEPT !.array = a]
  PROVE  WithArray(h, g, a)
<1>1. h = [sizearray |-> h.sizearray, array |-> h.array, size |-> h.size, key |-> h.key,
           dead |-> h.dead, val |-> h.val, next |-> h.next, lastfree |-> h.lastfree]
  BY DEF Sound, IsTable
<1> QED BY <1>1 DEF WithArray, SameShape
LEMMA NewArray ==
  ASSUME NEW h, Sound(h), NEW a, NEW g, WithArray(h, g, a)
  PROVE  /\ Sound(g) /\ SameShape(h, g) /\ g.key = h.key /\ g.next = h.next /\ g.array = a /\ g.val = h.val
         /\ \A j \in Keys : luaH_get(g, j) = IF InArray(h, j) THEN a[j] ELSE luaH_get(h, j)
         /\ \A j : NodeOf(g, j) = NodeOf(h, j)
         /\ \A K : OnlyLive(h, K) => OnlyLive(g, K)
<1>1. /\ SameShape(h, g)
      /\ g.array = a /\ g.key = h.key /\ g.dead = h.dead
      /\ g.val = h.val /\ g.next = h.next /\ g.lastfree = h.lastfree
      /\ g = [sizearray |-> g.sizearray, array |-> g.array, size |-> g.size, key |-> g.key,
              dead |-> g.dead, val |-> g.val, next |-> g.next, lastfree |-> g.lastfree]
  BY DEF WithArray
<1>3. /\ Nodes(g) = Nodes(h)
      /\ \A j : mainposition(g, j) = mainposition(h, j)
      /\ \A j : InArray(g, j) <=> InArray(h, j)
  BY <1>1, ShapeIsAll
<1>4. IsTable(g)
  BY <1>1, <1>3 DEF WithArray, Sound, IsTable, SameShape
<1>5. Sound(g)
  <2>1. ArrayOfInts(g)
    BY <1>1 DEF WithArray, ArrayOfInts, SameShape
  <2>2. FreeApart(g) /\ AtHome(g) /\ InChain(g) /\ LiveFirst(g) /\ DeadEmpty(g) /\ FullAbove(g) /\ Apart(g)
    BY <1>1, <1>3 DEF Sound, FreeApart, AtHome, InChain, LiveFirst, DeadEmpty, FullAbove, Apart, Home
  <2> QED BY <1>1, <1>3, <1>4, <2>1, <2>2 DEF Sound
<1>6. ASSUME NEW j PROVE NodeOf(g, j) = NodeOf(h, j)
  <2>1. mainposition(g, j) = mainposition(h, j)
    BY <1>3
  <2> QED BY <1>1, <1>3, <2>1 DEF NodeOf, Seek
<1>7. ASSUME NEW j \in Keys PROVE luaH_get(g, j) = IF InArray(h, j) THEN a[j] ELSE luaH_get(h, j)
  <2>1. CASE InArray(h, j)
    BY <1>1, <1>3, <2>1 DEF luaH_get
  <2>2. CASE ~InArray(h, j)
    BY <1>1, <1>3, <1>6, <2>2 DEF luaH_get
  <2> QED BY <2>1, <2>2
<1>8. \A K : OnlyLive(h, K) => OnlyLive(g, K)
  BY <1>1, <1>3 DEF OnlyLive
<1> QED BY <1>1, <1>5, <1>6, <1>7, <1>8

LEMMA StoreInArray ==
  ASSUME NEW h, Sound(h), NEW k \in Keys, InArray(h, k), NEW v \in Values
  PROVE  Stored(h, [h EXCEPT !.array[k] = v], k, v)
<1> DEFINE a == [h.array EXCEPT ![k] = v]
           g == [h EXCEPT !.array[k] = v]
<1>1. k \in 1 .. h.sizearray /\ k \in Ints /\ h.array \in [1 .. h.sizearray -> Values]
  BY TableAssumption DEF InArray, Sound, IsTable
<1>2. g = [h EXCEPT !.array = a]
  BY DEF Sound, IsTable
<1>3. a \in [1 .. h.sizearray -> Values]
  BY <1>1
<1>4. \A i \in 1 .. h.sizearray : a[i] = IF i = k THEN v ELSE h.array[i]
  BY <1>1
<1> HIDE DEF a, g
<1>5. \A i \in 1 .. h.sizearray : a[i] # nil => i \in Ints
  BY <1>1, <1>4 DEF Sound, ArrayOfInts
<1>6. /\ Sound(g) /\ SameShape(h, g)
      /\ \A j \in Keys : luaH_get(g, j) = IF InArray(h, j) THEN a[j] ELSE luaH_get(h, j)
      /\ \A K : OnlyLive(h, K) => OnlyLive(g, K)
  <2>1. WithArray(h, g, a)
    BY <1>2, <1>3, <1>5, IsWithArray
  <2> QED BY <2>1, NewArray
<1>7. ASSUME NEW j \in Keys PROVE luaH_get(g, j) = IF j = k THEN v ELSE luaH_get(h, j)
  <2>1. CASE InArray(h, j)
    <3>1. j \in 1 .. h.sizearray
      BY <2>1, TableAssumption DEF InArray, Sound, IsTable
    <3> QED BY <1>4, <1>6, <2>1, <3>1, GetIs
  <2>2. CASE ~InArray(h, j)
    BY <1>6, <2>2
  <2> QED BY <2>1, <2>2
<1>8. Stored(h, g, k, v)
  BY <1>6, <1>7 DEF Stored
<1> QED BY <1>8 DEF g

(* A node that is there.                                                   *)
LEMMA StoreInNode ==
  ASSUME NEW h, Sound(h), NEW k \in Keys, ~InArray(h, k), NodeOf(h, k) # NULL, NEW v \in Values
  PROVE  Stored(h, [h EXCEPT !.val[NodeOf(h, k)] = v], k, v)
<1> DEFINE n == NodeOf(h, k)
           g == [h EXCEPT !.val[n] = v]
<1>1. n \in Nodes(h) /\ h.key[n] = k /\ ~h.dead[n]
  BY SeekFinds
<1> HIDE DEF n
<1>2. /\ SameShape(h, g)
      /\ g.array = h.array /\ g.key = h.key /\ g.dead = h.dead
      /\ g.val = [h.val EXCEPT ![n] = v] /\ g.next = h.next /\ g.lastfree = h.lastfree
      /\ g = [sizearray |-> g.sizearray, array |-> g.array, size |-> g.size, key |-> g.key,
              dead |-> g.dead, val |-> g.val, next |-> g.next, lastfree |-> g.lastfree]
  BY DEF Sound, IsTable, SameShape
<1> HIDE DEF g
<1>3. /\ Nodes(g) = Nodes(h)
      /\ \A j : mainposition(g, j) = mainposition(h, j)
      /\ \A j : InArray(g, j) <=> InArray(h, j)
  BY <1>2, ShapeIsAll
<1>4. IsTable(g)
  BY <1>1, <1>2, <1>3 DEF Sound, IsTable, SameShape
<1>5. /\ g.val[n] = v
      /\ \A x \in Nodes(h) \ {n} : g.val[x] = h.val[x]
  BY <1>1, <1>2 DEF Sound, IsTable
<1>6. k # nil
  BY TableAssumption
<1>7. Sound(g)
  <2>1. ArrayOfInts(g) /\ AtHome(g) /\ InChain(g) /\ LiveFirst(g) /\ FullAbove(g) /\ Apart(g)
    BY <1>2, <1>3 DEF Sound, ArrayOfInts, AtHome, InChain, LiveFirst, FullAbove, Apart, Home, SameShape
  <2>2. FreeApart(g) /\ DeadEmpty(g)
    BY <1>1, <1>2, <1>3, <1>5, <1>6 DEF Sound, FreeApart, DeadEmpty
  <2> QED BY <1>2, <1>3, <1>4, <2>1, <2>2 DEF Sound
<1>8. \A j : NodeOf(g, j) = NodeOf(h, j)
  BY <1>2, <1>3 DEF NodeOf, Seek
<1>9. ASSUME NEW j \in Keys PROVE luaH_get(g, j) = IF j = k THEN v ELSE luaH_get(h, j)
  <2>1. CASE InArray(h, j)
    BY <1>2, <1>3, <2>1 DEF luaH_get
  <2>2. CASE ~InArray(h, j) /\ j = k
    BY <1>3, <1>5, <1>8, <2>2 DEF luaH_get, n
  <2>3. CASE ~InArray(h, j) /\ j # k
    <3>1. NodeOf(h, j) = NULL \/ NodeOf(h, j) \in Nodes(h) \ {n}
      BY <1>1, <2>3, SeekFinds
    <3> QED BY <1>3, <1>5, <1>8, <2>3, <3>1 DEF luaH_get
  <2> QED BY <2>1, <2>2, <2>3
<1>10. \A K : OnlyLive(h, K) => OnlyLive(g, K)
  BY <1>2, <1>3 DEF OnlyLive
<1>11. Stored(h, g, k, v)
  BY <1>2, <1>7, <1>8, <1>9, <1>10 DEF Stored
<1> QED BY <1>11 DEF g, n

LEMMA SameEntries ==
  ASSUME NEW h, NEW g, Sound(h), Sound(g), SameShape(h, g), NEW j \in Keys, ~InArray(h, j),
         \A x \in Nodes(h) : h.key[x] = j /\ h.val[x] # nil =>
            \E y \in Nodes(h) : g.key[y] = j /\ g.val[y] = h.val[x],
         \A y \in Nodes(h) : g.key[y] = j /\ g.val[y] # nil =>
            \E x \in Nodes(h) : h.key[x] = j /\ h.val[x] # nil
  PROVE  luaH_get(g, j) = luaH_get(h, j)
<1>1. Nodes(g) = Nodes(h) /\ ~InArray(g, j)
  BY ShapeIsAll
<1>2. CASE \E x \in Nodes(h) : h.key[x] = j /\ h.val[x] # nil
  <2>1. PICK x \in Nodes(h) : h.key[x] = j /\ h.val[x] # nil
    BY <1>2
  <2>2. PICK y \in Nodes(h) : g.key[y] = j /\ g.val[y] = h.val[x]
    BY <2>1
  <2>3. luaH_get(h, j) = h.val[x]
    BY <2>1, GetIs
  <2>4. luaH_get(g, j) = g.val[y]
    BY <1>1, <2>1, <2>2, GetIs
  <2> QED BY <2>2, <2>3, <2>4
<1>3. CASE ~\E x \in Nodes(h) : h.key[x] = j /\ h.val[x] # nil
  <2>1. luaH_get(h, j) = nil
    BY <1>3, GetIs
  <2>2. \A y \in Nodes(g) : g.key[y] = j => g.val[y] = nil
    BY <1>1, <1>3
  <2>3. luaH_get(g, j) = nil
    BY <1>1, <2>2, GetIs
  <2> QED BY <2>1, <2>3
<1> QED BY <1>2, <1>3

(* What is left to show when k is new: the entry of k, and the others.     *)
(* Every value of h is in g at a node other than n, and those nodes have   *)
(* nothing that was not in h.                                              *)
Carried(h, g, n) ==
  /\ \A x \in Nodes(h) : h.val[x] # nil =>
        \E y \in Nodes(h) \ {n} : g.key[y] = h.key[x] /\ g.val[y] = h.val[x]
  /\ \A y \in Nodes(h) \ {n} : g.val[y] # nil =>
        \E x \in Nodes(h) : h.key[x] = g.key[y] /\ h.val[x] # nil
  /\ \A y \in Nodes(h) \ {n} : g.key[y] # nil =>
        \E x \in Nodes(h) : h.key[x] = g.key[y] /\ h.dead[x] = g.dead[y]

LEMMA StoredNew ==
  ASSUME NEW h, NEW g, Sound(h), Sound(g), SameShape(h, g), g.array = h.array,
         NEW k \in Keys, ~InArray(h, k), NEW v \in Values,
         NEW n \in Nodes(h), g.key[n] = k, ~g.dead[n], g.val[n] = v, Carried(h, g, n)
  PROVE  Stored(h, g, k, v)
<1>1. /\ Nodes(g) = Nodes(h)
      /\ \A j : InArray(g, j) <=> InArray(h, j)
  BY ShapeIsAll
<1>2. NodeOf(g, k) = n
  <2>1. \A x \in Nodes(g) : g.key[x] = k /\ ~g.dead[x] => NodeOf(g, k) = x
    BY SeekFinds
  <2>2. n \in Nodes(g)
    BY <1>1
  <2> QED BY <2>1, <2>2
<1>3. n # NULL
  BY NodesFinite DEF Sound, IsTable
<1>4. ASSUME NEW j \in Keys PROVE luaH_get(g, j) = IF j = k THEN v ELSE luaH_get(h, j)
  <2>1. CASE InArray(h, j)
    BY <1>1, <2>1 DEF luaH_get
  <2>2. CASE ~InArray(h, j) /\ j = k
    BY <1>1, <1>2, <1>3, <2>2 DEF luaH_get
  <2>3. CASE ~InArray(h, j) /\ j # k
    <3>1. \A x \in Nodes(h) : h.key[x] = j /\ h.val[x] # nil =>
            \E y \in Nodes(h) : g.key[y] = j /\ g.val[y] = h.val[x]
      BY DEF Carried
    <3>2. \A y \in Nodes(h) : g.key[y] = j /\ g.val[y] # nil =>
            \E x \in Nodes(h) : h.key[x] = j /\ h.val[x] # nil
      BY <2>3 DEF Carried
    <3>3. luaH_get(g, j) = luaH_get(h, j)
      BY <2>3, <3>1, <3>2, SameEntries
    <3> QED BY <2>3, <3>3
  <2> QED BY <2>1, <2>2, <2>3
<1>5. ASSUME NEW K, OnlyLive(h, K), k \in K PROVE OnlyLive(g, K)
  <2>1. ASSUME NEW y \in Nodes(h), g.key[y] # nil PROVE ~g.dead[y] /\ g.key[y] \in K
    <3>1. CASE y = n
      BY <1>5, <3>1
    <3>2. CASE y # n
      <4>1. PICK x \in Nodes(h) : h.key[x] = g.key[y] /\ h.dead[x] = g.dead[y]
        BY <2>1, <3>2 DEF Carried
      <4> QED BY <1>5, <2>1, <4>1 DEF OnlyLive
    <3> QED BY <3>1, <3>2
  <2> QED BY <1>1, <2>1 DEF OnlyLive
<1> QED BY <1>2, <1>3, <1>4, <1>5 DEF Stored

(* The main position has no value.                                         *)
LEMMA StoreAtHome ==
  ASSUME NEW h, Sound(h), NEW k \in Keys, ~InArray(h, k), NodeOf(h, k) = NULL,
         NEW v \in Values, NEW n, n = mainposition(h, k), h.size # 0, h.val[n] = nil,
         NEW g, IsTable(g), SameShape(h, g), g.array = h.array, g.next = h.next,
         g.lastfree = h.lastfree, g.key = [h.key EXCEPT ![n] = k],
         g.dead = [h.dead EXCEPT ![n] = FALSE], g.val = [h.val EXCEPT ![n] = v]
  PROVE  Stored(h, g, k, v)
<1>1. /\ Nodes(g) = Nodes(h)
      /\ \A j : mainposition(g, j) = mainposition(h, j)
      /\ \A j : InArray(g, j) <=> InArray(h, j)
  BY ShapeIsAll
<1>2. n \in Nodes(h) /\ k # nil
  BY MainPositionIsNode, TableAssumption DEF Sound, IsTable
<1>3. /\ g.key[n] = k /\ g.dead[n] = FALSE /\ g.val[n] = v
      /\ \A x \in Nodes(h) \ {n} : g.key[x] = h.key[x] /\ g.dead[x] = h.dead[x] /\ g.val[x] = h.val[x]
  BY <1>2 DEF Sound, IsTable
<1>4. Linked(Nodes(h), h.next)
  BY DEF Sound, Straight
<1>5. \A x \in Nodes(h) : h.key[x] = k => h.dead[x]
  BY SeekFinds
<1>6. FreeApart(g) /\ DeadEmpty(g) /\ FullAbove(g)
  <2>1. FreeApart(g)
    BY <1>1, <1>2, <1>3 DEF Sound, FreeApart
  <2>2. DeadEmpty(g)
    BY <1>1, <1>2, <1>3 DEF Sound, DeadEmpty
  <2>3. FullAbove(g)
    BY <1>1, <1>2, <1>3 DEF Sound, FullAbove
  <2> QED BY <2>1, <2>2, <2>3
<1>7. AtHome(g)
  <2>1. \A x \in Nodes(h) : Home(g, x) = mainposition(h, g.key[x])
    BY <1>1 DEF Home
  <2>2. ASSUME NEW x \in Nodes(h), g.key[x] # nil
        PROVE  g.key[Home(g, x)] # nil /\ Home(g, Home(g, x)) = Home(g, x)
    <3>1. CASE Home(g, x) = n
      BY <1>2, <1>3, <2>1, <3>1
    <3>2. CASE Home(g, x) # n
      <4>1. x # n /\ h.key[x] # nil
        BY <1>2, <1>3, <2>1, <2>2, <3>2
      <4>2. Home(g, x) = Home(h, x)
        BY <1>3, <2>1, <4>1 DEF Home
      <4>3. h.key[Home(h, x)] # nil /\ Home(h, Home(h, x)) = Home(h, x)
        BY <4>1 DEF Sound, AtHome
      <4>4. h.key[x] \in Keys /\ h.size \in Nat \ {0}
        BY <4>1, <1>2, NodesFinite DEF Sound, IsTable
      <4>5. Home(h, x) \in Nodes(h) \ {n}
        BY <3>2, <4>2, <4>4, MainPositionIsNode DEF Home
      <4> QED BY <1>3, <2>1, <4>2, <4>3, <4>5 DEF Home
    <3> QED BY <3>1, <3>2
  <2> QED BY <1>1, <2>2 DEF AtHome
<1>8. InChain(g)
  <2>1. ASSUME NEW x \in Nodes(h), g.key[x] # nil PROVE x \in From(h.next, mainposition(h, g.key[x]))
    <3>1. CASE x = n
      BY <1>2, <1>3, <1>4, <3>1, FromClosed
    <3>2. CASE x # n
      BY <1>3, <2>1, <3>2 DEF Sound, InChain, Home
    <3> QED BY <3>1, <3>2
  <2> QED BY <1>1, <2>1 DEF InChain, Home
<1>9. LiveFirst(g)
  <2>1. ASSUME NEW x \in Nodes(h), NEW y \in Nodes(h), g.key[x] # nil, ~g.dead[x], g.key[y] = g.key[x]
        PROVE  y \in From(h.next, x)
    <3>1. CASE y = x
      BY <1>4, <3>1, FromClosed
    <3>2. CASE x = n /\ y # x
      BY <1>2, <1>3, <2>1, <3>2 DEF Sound, InChain, Home
    <3>3. CASE y = n /\ y # x
      BY <1>3, <1>5, <2>1, <3>3
    <3>4. CASE x # n /\ y # n
      BY <1>3, <2>1, <3>4 DEF Sound, LiveFirst
    <3> QED BY <3>1, <3>2, <3>3, <3>4
  <2> QED BY <1>1, <2>1 DEF LiveFirst
<1>10. Apart(g) /\ ArrayOfInts(g)
  BY <1>1, <1>2, <1>3 DEF Sound, Apart, ArrayOfInts, SameShape
<1>11. Sound(g)
  BY <1>1, <1>6, <1>7, <1>8, <1>9, <1>10 DEF Sound
<1>12. Carried(h, g, n)
  BY <1>3 DEF Carried
<1> QED BY <1>2, <1>3, <1>11, <1>12, StoredNew

(* The main position m is taken by a node that is at home: k goes to the   *)
(* free place n, and comes after m in the chain.                           *)
LEMMA StoreAfter ==
  ASSUME NEW h, Sound(h), NEW k \in Keys, ~InArray(h, k), NodeOf(h, k) = NULL,
         NEW v \in Values, NEW m, m = mainposition(h, k), h.size # 0, h.val[m] # nil,
         mainposition(h, h.key[m]) = m,
         NEW n \in Nodes(h), h.key[n] = nil, \A x \in Nodes(h) : x > n => h.key[x] # nil,
         NEW g, IsTable(g), SameShape(h, g), g.array = h.array, g.lastfree = n,
         g.key = [h.key EXCEPT ![n] = k], g.dead = [h.dead EXCEPT ![n] = FALSE],
         g.val = [h.val EXCEPT ![n] = v], g.next = [h.next EXCEPT ![n] = h.next[m], ![m] = n]
  PROVE  Stored(h, g, k, v)
<1>1. /\ Nodes(g) = Nodes(h)
      /\ \A j : mainposition(g, j) = mainposition(h, j)
      /\ \A j : InArray(g, j) <=> InArray(h, j)
  BY ShapeIsAll
<1>2. /\ m \in Nodes(h) /\ k # nil /\ Straight(Nodes(h), h.next) /\ Linked(Nodes(h), h.next)
      /\ h.next \in [Nodes(h) -> Nodes(h) \cup {NULL}]
  BY MainPositionIsNode, TableAssumption DEF Sound, IsTable, Straight
<1>3. /\ h.key[m] # nil /\ ~h.dead[m] /\ n # m /\ h.val[n] = nil /\ h.next[n] = NULL
      /\ \A y \in Nodes(h) : h.next[y] # n
  BY <1>2 DEF Sound, FreeApart, DeadEmpty
<1>4. /\ g.key[n] = k /\ g.dead[n] = FALSE /\ g.val[n] = v
      /\ \A x \in Nodes(h) \ {n} : g.key[x] = h.key[x] /\ g.dead[x] = h.dead[x] /\ g.val[x] = h.val[x]
  BY DEF Sound, IsTable
<1>5. /\ g.next \in [Nodes(h) -> Nodes(h) \cup {NULL}]
      /\ g.next[n] = h.next[m] /\ g.next[m] = n
      /\ \A x \in Nodes(h) \ {m, n} : g.next[x] = h.next[x]
  BY <1>1, <1>2, <1>3 DEF IsTable
<1>6. /\ Straight(Nodes(h), g.next)
      /\ \A a \in Nodes(h) \ {n} : From(g.next, a) =
            From(h.next, a) \cup IF m \in From(h.next, a) THEN {n} ELSE {}
      /\ From(g.next, n) = From(g.next, m) \ {m}
  <2> DEFINE D == Nodes(h)
             old == h.next
             new == g.next
  <2>1. /\ Straight(D, old) /\ m \in D /\ n \in D /\ n # m /\ old[n] = NULL
        /\ new \in [D -> D \cup {NULL}] /\ new[n] = old[m] /\ new[m] = n
    BY <1>2, <1>3, <1>5
  <2>2. (\A y \in D : old[y] # n) /\ \A x \in D \ {m, n} : new[x] = old[x]
    BY <1>3, <1>5
  <2> HIDE DEF D, old, new
  <2>3. /\ Straight(D, new)
        /\ \A a \in D \ {n} : From(new, a) = From(old, a) \cup IF m \in From(old, a) THEN {n} ELSE {}
        /\ From(new, n) = From(new, m) \ {m}
    BY <2>1, <2>2, PutAfter
  <2> QED BY <2>3 DEF D, old, new
<1>7. \A x \in Nodes(h) : h.key[x] = k => h.dead[x] /\ x # m /\ x # n
  <2>1. \A x \in Nodes(h) : h.key[x] = k => h.dead[x]
    BY SeekFinds
  <2> QED BY <1>2, <1>3, <2>1
<1>8. FreeApart(g) /\ DeadEmpty(g) /\ FullAbove(g)
  <2>1. FreeApart(g)
    <3>1. ASSUME NEW x \in Nodes(h), g.key[x] = nil
          PROVE  g.val[x] = nil /\ g.next[x] = NULL /\ \A y \in Nodes(h) : g.next[y] # x
      <4>1. x # n /\ x # m /\ h.key[x] = nil
        BY <1>2, <1>3, <1>4, <3>1
      <4>2. h.val[x] = nil /\ h.next[x] = NULL /\ \A y \in Nodes(h) : h.next[y] # x
        BY <4>1 DEF Sound, FreeApart
      <4>3. ASSUME NEW y \in Nodes(h) PROVE g.next[y] # x
        <5>1. CASE y = n
          BY <1>2, <1>5, <4>2, <5>1
        <5>2. CASE y = m
          BY <1>5, <4>1, <5>2
        <5>3. CASE y # n /\ y # m
          BY <1>5, <4>2, <5>3
        <5> QED BY <5>1, <5>2, <5>3
      <4> QED BY <1>4, <1>5, <4>1, <4>2, <4>3
    <3> QED BY <1>1, <3>1 DEF FreeApart
  <2>2. DeadEmpty(g)
    BY <1>1, <1>4 DEF Sound, DeadEmpty
  <2>3. FullAbove(g)
    <3>1. ASSUME NEW x \in Nodes(h), x >= n PROVE g.key[x] # nil
      <4>1. n \in Int /\ x \in Int
        BY NodesFinite DEF Sound, IsTable
      <4>2. x = n \/ x > n
        BY <3>1, <4>1
      <4> QED BY <1>2, <1>4, <4>2
    <3> QED BY <1>1, <3>1 DEF FullAbove
  <2> QED BY <2>1, <2>2, <2>3
<1>9. AtHome(g)
  <2>1. ASSUME NEW x \in Nodes(h), h.key[x] # nil
        PROVE  /\ Home(h, x) \in Nodes(h) \ {n}
               /\ h.key[Home(h, x)] # nil /\ Home(h, Home(h, x)) = Home(h, x)
    <3>1. h.key[Home(h, x)] # nil /\ Home(h, Home(h, x)) = Home(h, x)
      BY <2>1 DEF Sound, AtHome
    <3>2. h.key[x] \in Keys /\ h.size \in Nat \ {0}
      BY <2>1, NodesFinite DEF Sound, IsTable
    <3> QED BY <3>1, <3>2, MainPositionIsNode DEF Home
  <2>2. \A x \in Nodes(h) \ {n} : Home(g, x) = Home(h, x)
    BY <1>1, <1>4 DEF Home
  <2>3. Home(g, n) = m /\ Home(h, m) = m
    BY <1>1, <1>4 DEF Home
  <2>4. ASSUME NEW x \in Nodes(h), g.key[x] # nil
        PROVE  g.key[Home(g, x)] # nil /\ Home(g, Home(g, x)) = Home(g, x)
    <3>1. CASE x = n
      <4>1. Home(g, m) = m
        BY <1>2, <1>3, <2>2, <2>3
      <4> QED BY <1>2, <1>3, <1>4, <2>3, <3>1, <4>1
    <3>2. CASE x # n
      BY <1>4, <2>1, <2>2, <2>4, <3>2
    <3> QED BY <3>1, <3>2
  <2> QED BY <1>1, <2>4 DEF AtHome
<1>10. InChain(g)
  <2>1. ASSUME NEW x \in Nodes(h), g.key[x] # nil
        PROVE  x \in From(g.next, mainposition(h, g.key[x]))
    <3>1. CASE x = n
      <4>1. m \in From(h.next, m)
        BY <1>2, FromClosed
      <4> QED BY <1>2, <1>3, <1>4, <1>6, <3>1, <4>1
    <3>2. CASE x # n
      <4>1. g.key[x] = h.key[x] /\ h.key[x] \in Keys /\ h.size \in Nat \ {0}
        BY <1>4, <2>1, <3>2, NodesFinite DEF Sound, IsTable
      <4>2. x \in From(h.next, mainposition(h, h.key[x]))
        BY <2>1, <4>1 DEF Sound, InChain, Home
      <4>3. mainposition(h, h.key[x]) \in Nodes(h) \ {n}
        <5>1. h.key[mainposition(h, h.key[x])] # nil
          BY <2>1, <4>1 DEF Sound, AtHome, Home
        <5> QED BY <4>1, <5>1, MainPositionIsNode
      <4> QED BY <1>6, <4>1, <4>2, <4>3
    <3> QED BY <3>1, <3>2
  <2> QED BY <1>1, <2>1 DEF InChain, Home
<1>11. LiveFirst(g)
  <2>1. ASSUME NEW x \in Nodes(h), NEW y \in Nodes(h), g.key[x] # nil, ~g.dead[x], g.key[y] = g.key[x]
        PROVE  y \in From(g.next, x)
    <3>1. CASE y = x
      BY <1>6, <3>1, FromClosed DEF Straight
    <3>2. CASE x = n /\ y # x
      <4>1. h.key[y] = k /\ y # m
        BY <1>4, <1>7, <2>1, <3>2
      <4>2. y \in From(h.next, m)
        BY <1>2, <4>1 DEF Sound, InChain, Home
      <4> QED BY <1>2, <1>3, <1>6, <3>2, <4>1, <4>2
    <3>3. CASE y = n /\ y # x
      BY <1>4, <1>7, <2>1, <3>3
    <3>4. CASE x # n /\ y # n
      <4>1. y \in From(h.next, x)
        BY <1>4, <2>1, <3>4 DEF Sound, LiveFirst
      <4> QED BY <1>6, <3>4, <4>1
    <3> QED BY <3>1, <3>2, <3>3, <3>4
  <2> QED BY <1>1, <2>1 DEF LiveFirst
<1>12. Apart(g) /\ ArrayOfInts(g)
  BY <1>1, <1>2, <1>4 DEF Sound, Apart, ArrayOfInts, SameShape
<1>13. Sound(g)
  BY <1>1, <1>6, <1>8, <1>9, <1>10, <1>11, <1>12 DEF Sound
<1>14. Carried(h, g, n)
  BY <1>3, <1>4 DEF Carried
<1> QED BY <1>4, <1>13, <1>14, StoredNew

(* The main position m is taken by a node of another chain: that node      *)
(* moves to the free place n, and k gets its own.                          *)
Moved(h, k, v, m, n, p, g) ==
  /\ SameShape(h, g) /\ g.array = h.array /\ g.lastfree = n
  /\ g.next = [h.next EXCEPT ![p] = n, ![n] = h.next[m], ![m] = NULL]
  /\ g.key = [h.key EXCEPT ![n] = h.key[m], ![m] = k]
  /\ g.dead = [h.dead EXCEPT ![n] = h.dead[m], ![m] = FALSE]
  /\ g.val = [h.val EXCEPT ![n] = h.val[m], ![m] = v]

LEMMA StoreMoving ==
  ASSUME NEW h, Sound(h), NEW k \in Keys, ~InArray(h, k), NodeOf(h, k) = NULL,
         NEW v \in Values, NEW m, m = mainposition(h, k), h.size # 0, h.val[m] # nil,
         mainposition(h, h.key[m]) # m,
         NEW n \in Nodes(h), h.key[n] = nil, \A x \in Nodes(h) : x > n => h.key[x] # nil,
         NEW p \in Nodes(h), h.next[p] = m,
         NEW g, IsTable(g), Moved(h, k, v, m, n, p, g)
  PROVE  Stored(h, g, k, v)
<1>0. /\ SameShape(h, g) /\ g.array = h.array
      /\ g.next = [h.next EXCEPT ![p] = n, ![n] = h.next[m], ![m] = NULL]
  BY DEF Moved
<1>1. /\ Nodes(g) = Nodes(h)
      /\ \A j : mainposition(g, j) = mainposition(h, j)
      /\ \A j : InArray(g, j) <=> InArray(h, j)
  BY <1>0, ShapeIsAll
<1>2. /\ m \in Nodes(h) /\ k # nil /\ Straight(Nodes(h), h.next) /\ Linked(Nodes(h), h.next)
      /\ h.next \in [Nodes(h) -> Nodes(h) \cup {NULL}] /\ NULL \notin Nodes(h)
  BY MainPositionIsNode, TableAssumption, NodesFinite DEF Sound, IsTable, Straight
<1>3. /\ h.key[m] # nil /\ ~h.dead[m] /\ n # m /\ h.val[n] = nil /\ h.next[n] = NULL
      /\ \A y \in Nodes(h) : h.next[y] # n
  BY <1>2 DEF Sound, FreeApart, DeadEmpty
<1>4. p # n /\ p # m
  <2>1. h.next[m] # m
    BY <1>2, FromClosed DEF Straight
  <2> QED BY <1>2, <1>3, <2>1
<1>5. /\ g.key[n] = h.key[m] /\ g.dead[n] = h.dead[m] /\ g.val[n] = h.val[m]
      /\ g.key[m] = k /\ g.dead[m] = FALSE /\ g.val[m] = v
      /\ \A x \in Nodes(h) \ {m, n} :
            g.key[x] = h.key[x] /\ g.dead[x] = h.dead[x] /\ g.val[x] = h.val[x]
  <2>1. DOMAIN h.key = Nodes(h) /\ DOMAIN h.dead = Nodes(h) /\ DOMAIN h.val = Nodes(h)
    BY DEF Sound, IsTable
  <2>2. /\ g.key[n] = h.key[m] /\ g.key[m] = k
        /\ \A x \in Nodes(h) \ {m, n} : g.key[x] = h.key[x]
    BY <1>2, <1>3, <2>1 DEF Moved
  <2>3. /\ g.dead[n] = h.dead[m] /\ g.dead[m] = FALSE
        /\ \A x \in Nodes(h) \ {m, n} : g.dead[x] = h.dead[x]
    BY <1>2, <1>3, <2>1 DEF Moved
  <2>4. /\ g.val[n] = h.val[m] /\ g.val[m] = v
        /\ \A x \in Nodes(h) \ {m, n} : g.val[x] = h.val[x]
    BY <1>2, <1>3, <2>1 DEF Moved
  <2> QED BY <2>2, <2>3, <2>4
<1>6. /\ g.next \in [Nodes(h) -> Nodes(h) \cup {NULL}]
      /\ g.next[p] = n /\ g.next[n] = h.next[m] /\ g.next[m] = NULL
      /\ \A x \in Nodes(h) \ {m, n, p} : g.next[x] = h.next[x]
  BY <1>0, <1>1, <1>2, <1>3, <1>4 DEF IsTable
<1>7. /\ Straight(Nodes(h), g.next)
      /\ \A a \in Nodes(h) \ {n, m} : From(g.next, a) =
            (From(h.next, a) \ {m}) \cup IF m \in From(h.next, a) THEN {n} ELSE {}
      /\ From(g.next, n) = {n} \cup (From(h.next, m) \ {m})
      /\ From(g.next, m) = {m}
  <2> DEFINE D == Nodes(h)
             old == h.next
             new == g.next
  <2>1. /\ Straight(D, old) /\ m \in D /\ n \in D /\ p \in D /\ n # m
        /\ old[p] = m /\ old[n] = NULL /\ new \in [D -> D \cup {NULL}]
        /\ new[p] = n /\ new[n] = old[m] /\ new[m] = NULL
    BY <1>2, <1>3, <1>6
  <2>2. (\A y \in D : old[y] # n) /\ \A x \in D \ {m, n, p} : new[x] = old[x]
    BY <1>3, <1>6
  <2> HIDE DEF D, old, new
  <2>3. /\ Straight(D, new)
        /\ \A a \in D \ {n, m} : From(new, a) =
              (From(old, a) \ {m}) \cup IF m \in From(old, a) THEN {n} ELSE {}
        /\ From(new, n) = {n} \cup (From(old, m) \ {m})
        /\ From(new, m) = {m}
    BY <2>1, <2>2, PutInPlace
  <2> QED BY <2>3 DEF D, old, new
\* Nobody's main position was m.
<1>8. ASSUME NEW x \in Nodes(h), h.key[x] # nil
      PROVE  /\ mainposition(h, h.key[x]) \in Nodes(h) \ {m, n}
             /\ h.key[mainposition(h, h.key[x])] # nil
             /\ Home(h, mainposition(h, h.key[x])) = mainposition(h, h.key[x])
  <2>1. h.key[Home(h, x)] # nil /\ Home(h, Home(h, x)) = Home(h, x)
    BY <1>8 DEF Sound, AtHome
  <2>2. h.key[x] \in Keys /\ h.size \in Nat \ {0}
    BY <1>8, NodesFinite DEF Sound, IsTable
  <2>3. mainposition(h, h.key[x]) \in Nodes(h)
    BY <2>2, MainPositionIsNode
  <2> QED BY <2>1, <2>3 DEF Home
<1>9. \A x \in Nodes(h) : h.key[x] # k
  BY <1>2, <1>8
<1>10. FreeApart(g) /\ DeadEmpty(g) /\ FullAbove(g)
  <2>1. FreeApart(g)
    <3>1. ASSUME NEW x \in Nodes(h), g.key[x] = nil
          PROVE  g.val[x] = nil /\ g.next[x] = NULL /\ \A y \in Nodes(h) : g.next[y] # x
      <4>1. x # n /\ x # m /\ h.key[x] = nil
        <5>1. x # n /\ x # m
          BY <1>2, <1>3, <1>5, <3>1
        <5> QED BY <1>5, <3>1, <5>1
      <4>2. h.val[x] = nil /\ h.next[x] = NULL /\ \A y \in Nodes(h) : h.next[y] # x
        BY <4>1 DEF Sound, FreeApart
      <4>3. x # p
        BY <1>2, <4>2
      <4>4. ASSUME NEW y \in Nodes(h) PROVE g.next[y] # x
        <5>1. CASE y = n
          BY <1>2, <1>6, <4>2, <5>1
        <5>2. CASE y = m
          BY <1>2, <1>6, <5>2
        <5>3. CASE y = p
          BY <1>6, <4>1, <5>3
        <5>4. CASE y # n /\ y # m /\ y # p
          BY <1>6, <4>2, <5>4
        <5> QED BY <5>1, <5>2, <5>3, <5>4
      <4> QED BY <1>5, <1>6, <4>1, <4>2, <4>3, <4>4
    <3> QED BY <1>1, <3>1 DEF FreeApart
  <2>2. DeadEmpty(g)
    <3>1. ASSUME NEW x \in Nodes(h), g.dead[x] PROVE g.val[x] = nil
      <4>1. x # m /\ x # n
        BY <1>3, <1>5, <3>1
      <4>2. h.dead[x] /\ g.val[x] = h.val[x]
        BY <1>5, <3>1, <4>1
      <4> QED BY <4>2 DEF Sound, DeadEmpty
    <3> QED BY <1>1, <3>1 DEF DeadEmpty
  <2>3. FullAbove(g)
    <3>1. ASSUME NEW x \in Nodes(h), x >= n PROVE g.key[x] # nil
      <4>1. n \in Int /\ x \in Int
        BY NodesFinite DEF Sound, IsTable
      <4>2. x = n \/ x > n
        BY <3>1, <4>1
      <4>3. CASE x = n \/ x = m
        BY <1>2, <1>3, <1>5, <4>3
      <4>4. CASE x # n /\ x # m
        <5>1. h.key[x] # nil
          BY <4>2, <4>4
        <5> QED BY <1>5, <4>4, <5>1
      <4> QED BY <4>3, <4>4
    <3> QED BY <1>0, <1>1, <3>1 DEF FullAbove, Moved
  <2> QED BY <2>1, <2>2, <2>3
<1>11. ASSUME NEW x \in Nodes(h), g.key[x] # nil, x # m
       PROVE  \E y \in Nodes(h) : /\ h.key[y] = g.key[x] /\ h.dead[y] = g.dead[x]
                                  /\ x = (IF y = m THEN n ELSE y) /\ y # n
  <2>1. CASE x = n
    BY <1>2, <1>3, <1>5, <2>1
  <2>2. CASE x # n
    BY <1>5, <1>11, <2>2
  <2> QED BY <2>1, <2>2
<1>12. AtHome(g)
  <2>1. ASSUME NEW x \in Nodes(h), g.key[x] # nil
        PROVE  /\ g.key[mainposition(h, g.key[x])] # nil
               /\ mainposition(h, g.key[mainposition(h, g.key[x])]) = mainposition(h, g.key[x])
    <3>1. CASE x = m
      BY <1>2, <1>5, <3>1
    <3>2. CASE x # m
      <4>1. PICK y \in Nodes(h) : h.key[y] = g.key[x]
        BY <1>11, <2>1, <3>2
      <4>2. /\ mainposition(h, g.key[x]) \in Nodes(h) \ {m, n}
            /\ h.key[mainposition(h, g.key[x])] # nil
            /\ Home(h, mainposition(h, g.key[x])) = mainposition(h, g.key[x])
        BY <1>8, <2>1, <4>1
      <4> QED BY <1>5, <4>2 DEF Home
    <3> QED BY <3>1, <3>2
  <2> QED BY <1>1, <2>1 DEF AtHome, Home
<1>13. InChain(g)
  <2>1. ASSUME NEW x \in Nodes(h), g.key[x] # nil
        PROVE  x \in From(g.next, mainposition(h, g.key[x]))
    <3>1. CASE x = m
      BY <1>5, <1>7, <3>1
    <3>2. CASE x # m
      <4>1. PICK y \in Nodes(h) : h.key[y] = g.key[x] /\ x = (IF y = m THEN n ELSE y) /\ y # n
        BY <1>11, <2>1, <3>2
      <4>2. mainposition(h, g.key[x]) \in Nodes(h) \ {m, n}
        BY <1>8, <2>1, <4>1
      <4>3. y \in From(h.next, mainposition(h, g.key[x]))
        BY <2>1, <4>1 DEF Sound, InChain, Home
      <4> QED BY <1>7, <4>1, <4>2, <4>3
    <3> QED BY <3>1, <3>2
  <2> QED BY <1>1, <2>1 DEF InChain, Home
<1>14. LiveFirst(g)
  <2>1. ASSUME NEW x \in Nodes(h), NEW y \in Nodes(h), g.key[x] # nil, ~g.dead[x], g.key[y] = g.key[x]
        PROVE  y \in From(g.next, x)
    <3>1. CASE y = x
      BY <1>7, <3>1, FromClosed DEF Straight
    <3>2. CASE (x = m \/ y = m) /\ y # x
      BY <1>5, <1>9, <1>11, <2>1, <3>2
    <3>3. CASE x # m /\ y # m /\ y # x
      <4>1. PICK u \in Nodes(h) : /\ h.key[u] = g.key[x] /\ h.dead[u] = g.dead[x]
                                  /\ x = (IF u = m THEN n ELSE u) /\ u # n
        BY <1>11, <2>1, <3>3
      <4>2. PICK w \in Nodes(h) : h.key[w] = g.key[x] /\ y = (IF w = m THEN n ELSE w) /\ w # n
        BY <1>11, <2>1, <3>3
      <4>3. w \in From(h.next, u)
        BY <2>1, <4>1, <4>2 DEF Sound, LiveFirst
      <4>4. CASE u = m
        BY <1>7, <3>3, <4>1, <4>2, <4>3, <4>4
      <4>5. CASE u # m
        BY <1>7, <3>3, <4>1, <4>2, <4>3, <4>5
      <4> QED BY <4>4, <4>5
    <3> QED BY <3>1, <3>2, <3>3
  <2> QED BY <1>1, <2>1 DEF LiveFirst
<1>15. Apart(g) /\ ArrayOfInts(g)
  <2>1. ASSUME NEW x \in Nodes(h), g.key[x] # nil PROVE ~InArray(h, g.key[x])
    BY <1>5, <1>11, <2>1 DEF Sound, Apart
  <2> QED BY <1>0, <1>1, <2>1 DEF Sound, Apart, ArrayOfInts, SameShape
<1>16. Sound(g)
  BY <1>1, <1>7, <1>10, <1>12, <1>13, <1>14, <1>15 DEF Sound
<1>17. ASSUME NEW x \in Nodes(h), h.val[x] # nil
       PROVE  \E y \in Nodes(h) \ {m} : g.key[y] = h.key[x] /\ g.val[y] = h.val[x]
  <2>1. x # n
    BY <1>3, <1>17
  <2>2. CASE x = m
    BY <1>3, <1>5, <2>2
  <2>3. CASE x # m
    BY <1>5, <2>1, <2>3
  <2> QED BY <2>2, <2>3
<1>18. ASSUME NEW y \in Nodes(h) \ {m}
       PROVE  /\ g.val[y] # nil => \E x \in Nodes(h) : h.key[x] = g.key[y] /\ h.val[x] # nil
              /\ g.key[y] # nil => \E x \in Nodes(h) : h.key[x] = g.key[y] /\ h.dead[x] = g.dead[y]
  <2>1. CASE y = n
    BY <1>2, <1>5, <2>1
  <2>2. CASE y # n
    <3>1. g.key[y] = h.key[y] /\ g.dead[y] = h.dead[y] /\ g.val[y] = h.val[y]
      BY <1>5, <2>2
    <3> QED BY <3>1
  <2> QED BY <2>1, <2>2
<1>19. ~g.dead[m]
  BY <1>5
<1>20. Carried(h, g, m)
  BY <1>17, <1>18 DEF Carried
<1>21. m \in Nodes(h) /\ g.key[m] = k /\ g.val[m] = v
  BY <1>2, <1>5
<1> QED BY <1>0, <1>16, <1>19, <1>20, <1>21, StoredNew

(* The free place that getfreepos finds.                                   *)
LEMMA FreePlace ==
  ASSUME NEW h, Sound(h), Frees(h) # {}
  PROVE  /\ Max(Frees(h)) \in Nodes(h) /\ h.key[Max(Frees(h))] = nil
         /\ Max(Frees(h)) \in 0 .. h.size
         /\ \A x \in Nodes(h) : x > Max(Frees(h)) => h.key[x] # nil
<1>1. h.lastfree \in 0 .. h.size /\ h.size \in Nat /\ h.lastfree \in Nat
  BY DEF Sound, IsTable
<1>2. Frees(h) \subseteq 0 .. h.lastfree /\ Frees(h) \subseteq Nodes(h)
  BY <1>1 DEF Frees, Nodes
<1>3. Max(Frees(h)) \in Frees(h) /\ \A x \in Frees(h) : x <= Max(Frees(h))
  BY <1>1, <1>2, MaxIsGreatest
<1>4. Max(Frees(h)) \in 0 .. h.lastfree - 1 /\ h.key[Max(Frees(h))] = nil
  BY <1>3 DEF Frees
<1>5. ASSUME NEW x \in Nodes(h), x > Max(Frees(h)) PROVE h.key[x] # nil
  <2>1. x \in Nat
    BY <1>1, NodesFinite
  <2>2. CASE x >= h.lastfree
    BY <2>2 DEF Sound, FullAbove
  <2>3. CASE ~(x >= h.lastfree)
    <3>1. h.key[x] = nil => x \in Frees(h)
      BY <1>1, <2>1, <2>3 DEF Frees
    <3>2. ~(x <= Max(Frees(h)))
      BY <1>4, <1>5, <2>1
    <3> QED BY <1>3, <3>1, <3>2
  <2> QED BY <2>2, <2>3
<1> QED BY <1>1, <1>2, <1>3, <1>4, <1>5

(* newkey puts a key that is not there.                                    *)
LEMMA NewkeyStores ==
  ASSUME NEW h, Sound(h), NEW k \in Keys, ~InArray(h, k), NodeOf(h, k) = NULL,
         NEW v \in Values, Fits(h, k)
  PROVE  Stored(h, newkey(h, k, v), k, v)
<1> DEFINE m == mainposition(h, k)
           n == Max(Frees(h))
           g == newkey(h, k, v)
<1>1. /\ h = [sizearray |-> h.sizearray, array |-> h.array, size |-> h.size, key |-> h.key,
              dead |-> h.dead, val |-> h.val, next |-> h.next, lastfree |-> h.lastfree]
      /\ h.size \in Nat
      /\ h.key \in [Nodes(h) -> Keys \cup {nil}] /\ h.dead \in [Nodes(h) -> BOOLEAN]
      /\ h.val \in [Nodes(h) -> Values] /\ h.next \in [Nodes(h) -> Nodes(h) \cup {NULL}]
  BY DEF Sound, IsTable
<1>2. h.size # 0
  <2>1. Frees(h) # {} => Nodes(h) # {}
    BY FreePlace
  <2> QED BY <1>1, <2>1, NodesFinite DEF Fits
<1>3. m \in Nodes(h)
  BY <1>1, <1>2, MainPositionIsNode
<1>4. CASE h.val[m] = nil
  <2>1. g = [h EXCEPT !.key[m] = k, !.dead[m] = FALSE, !.val[m] = v]
    BY <1>4 DEF newkey
  <2> HIDE DEF g, m
  <2>2. /\ SameShape(h, g) /\ g.array = h.array /\ g.next = h.next /\ g.lastfree = h.lastfree
        /\ g.key = [h.key EXCEPT ![m] = k] /\ g.dead = [h.dead EXCEPT ![m] = FALSE]
        /\ g.val = [h.val EXCEPT ![m] = v]
        /\ g = [sizearray |-> g.sizearray, array |-> g.array, size |-> g.size, key |-> g.key,
                dead |-> g.dead, val |-> g.val, next |-> g.next, lastfree |-> g.lastfree]
    BY <1>1, <2>1 DEF SameShape
  <2>3. IsTable(g)
    <3>1. Nodes(g) = Nodes(h)
      BY <2>2, ShapeIsAll
    <3> QED BY <1>3, <2>2, <3>1 DEF Sound, IsTable, SameShape
  <2> QED BY <1>2, <1>4, <2>2, <2>3, StoreAtHome DEF m, g
<1>5. CASE h.val[m] # nil
  <2>1. /\ n \in Nodes(h) /\ h.key[n] = nil /\ n \in 0 .. h.size
        /\ \A x \in Nodes(h) : x > n => h.key[x] # nil
    BY <1>5, FreePlace DEF Fits
  <2>2. n # m /\ h.next \in [Nodes(h) -> Nodes(h) \cup {NULL}] /\ h.key[m] \in Keys
    BY <1>1, <1>3, <1>5, <2>1 DEF Sound, FreeApart
  <2>3. CASE mainposition(h, h.key[m]) = m
    <3>1. g = [[h EXCEPT !.lastfree = n, !.next[n] = h.next[m], !.next[m] = n]
                 EXCEPT !.key[n] = k, !.dead[n] = FALSE, !.val[n] = v]
      BY <1>5, <2>3 DEF newkey, Displaced
    <3> HIDE DEF g, m, n
    <3>2. /\ SameShape(h, g) /\ g.array = h.array /\ g.lastfree = n
          /\ g.next = [h.next EXCEPT ![n] = h.next[m], ![m] = n]
          /\ g.key = [h.key EXCEPT ![n] = k] /\ g.dead = [h.dead EXCEPT ![n] = FALSE]
          /\ g.val = [h.val EXCEPT ![n] = v]
          /\ g = [sizearray |-> g.sizearray, array |-> g.array, size |-> g.size, key |-> g.key,
                  dead |-> g.dead, val |-> g.val, next |-> g.next, lastfree |-> g.lastfree]
      BY <1>1, <3>1 DEF SameShape
    <3>3. IsTable(g)
      <4>1. Nodes(g) = Nodes(h)
        BY <3>2, ShapeIsAll
      <4> QED BY <1>3, <2>1, <3>2, <4>1 DEF Sound, IsTable, SameShape
    <3>4. m = mainposition(h, k)
      BY DEF m
    <3>5. /\ SameShape(h, g) /\ g.array = h.array /\ g.lastfree = n
          /\ g.next = [h.next EXCEPT ![n] = h.next[m], ![m] = n]
          /\ g.key = [h.key EXCEPT ![n] = k] /\ g.dead = [h.dead EXCEPT ![n] = FALSE]
          /\ g.val = [h.val EXCEPT ![n] = v]
      BY <3>2
    <3>6. n \in Nodes(h) /\ h.key[n] = nil /\ \A x \in Nodes(h) : x > n => h.key[x] # nil
      BY <2>1
    <3>7. Stored(h, g, k, v)
      BY SMTT(30), <1>2, <1>5, <2>3, <3>3, <3>4, <3>5, <3>6, StoreAfter
    <3> QED BY <3>7 DEF g
  <2>4. CASE mainposition(h, h.key[m]) # m
    <3> DEFINE othern == mainposition(h, h.key[m])
               p == CHOOSE x \in From(h.next, othern) : h.next[x] = m
    <3>1. othern \in Nodes(h) /\ m \in From(h.next, othern) /\ Linked(Nodes(h), h.next)
      <4>1. h.key[m] # nil
        BY <2>2, TableAssumption
      <4> QED BY <1>1, <1>2, <1>3, <2>2, <4>1, MainPositionIsNode DEF Sound, InChain, Home, Straight
    <3>2. p \in From(h.next, othern) /\ h.next[p] = m
      <4>1. \E x \in From(h.next, othern) : h.next[x] = m
        <5> HIDE DEF m
        <5> QED BY <2>4, <3>1, FromPrevious
      <4> QED BY <4>1
    <3>3. p \in Nodes(h)
      BY <3>1, <3>2, FromClosed
    <3>4. g = [[h EXCEPT !.lastfree = n,
                   !.key[n] = h.key[m], !.dead[n] = h.dead[m], !.val[n] = h.val[m], !.val[m] = nil,
                   !.next[p] = n, !.next[n] = h.next[m], !.next[m] = NULL]
                 EXCEPT !.key[m] = k, !.dead[m] = FALSE, !.val[m] = v]
      BY <1>5, <2>4 DEF newkey, Displaced
    <3> HIDE DEF g, m, n, p
    <3>5. /\ SameShape(h, g) /\ g.array = h.array /\ g.lastfree = n
          /\ g.next = [h.next EXCEPT ![p] = n, ![n] = h.next[m], ![m] = NULL]
          /\ g.key = [h.key EXCEPT ![n] = h.key[m], ![m] = k]
          /\ g.dead = [h.dead EXCEPT ![n] = h.dead[m], ![m] = FALSE]
          /\ g.val = [h.val EXCEPT ![n] = h.val[m], ![m] = v]
          /\ g = [sizearray |-> g.sizearray, array |-> g.array, size |-> g.size, key |-> g.key,
                  dead |-> g.dead, val |-> g.val, next |-> g.next, lastfree |-> g.lastfree]
      BY ZenonT(60), <1>1, <1>3, <3>4 DEF SameShape
    <3>6. IsTable(g)
      <4>1. Nodes(g) = Nodes(h)
        BY <3>5, ShapeIsAll
      <4>2. h.next[m] \in Nodes(h) \cup {NULL} /\ h.dead[m] \in BOOLEAN /\ h.val[m] \in Values
        BY <1>1, <1>3
      <4>3. g.key \in [Nodes(h) -> Keys \cup {nil}]
        BY <1>1, <1>3, <2>1, <2>2, <3>5
      <4>4. g.dead \in [Nodes(h) -> BOOLEAN]
        BY <1>1, <1>3, <2>1, <3>5, <4>2
      <4>5. g.val \in [Nodes(h) -> Values]
        BY <1>1, <1>3, <2>1, <3>5, <4>2
      <4>6. g.next \in [Nodes(h) -> Nodes(h) \cup {NULL}]
        BY <1>1, <1>3, <2>1, <3>3, <3>5, <4>2
      <4>7. /\ g.size = h.size /\ g.sizearray = h.sizearray /\ g.array = h.array
            /\ g.lastfree \in 0 .. h.size
        BY <2>1, <3>5 DEF SameShape
      <4>8. h.sizearray \in Nat /\ h.array \in [1 .. h.sizearray -> Values]
        BY DEF Sound, IsTable
      <4> QED BY <1>1, <3>5, <4>1, <4>3, <4>4, <4>5, <4>6, <4>7, <4>8 DEF IsTable
    <3>7. m = mainposition(h, k) /\ h.next[p] = m
      BY <3>2 DEF m
    <3>8. Moved(h, k, v, m, n, p, g)
      BY <3>5 DEF Moved
    <3>9. n \in Nodes(h) /\ h.key[n] = nil /\ \A x \in Nodes(h) : x > n => h.key[x] # nil
      BY <2>1
    <3>10. Stored(h, g, k, v)
      BY <1>2, <1>5, <2>4, <3>3, <3>6, <3>7, <3>8, <3>9, StoreMoving
    <3> QED BY <3>10 DEF g
  <2> QED BY <2>3, <2>4
<1> QED BY <1>4, <1>5

LEMMA PutStores ==
  ASSUME NEW h, Sound(h), NEW k \in Keys, NEW v \in Values, Fits(h, k)
  PROVE  Stored(h, Put(h, k, v), k, v)
<1>1. CASE InArray(h, k)
  BY <1>1, StoreInArray DEF Put
<1>2. CASE ~InArray(h, k) /\ NodeOf(h, k) # NULL
  BY <1>2, StoreInNode DEF Put
<1>3. CASE ~InArray(h, k) /\ NodeOf(h, k) = NULL
  BY <1>3, NewkeyStores DEF Put
<1> QED BY <1>1, <1>2, <1>3

-----------------------------------------------------------------------------
(* Sizes.                                                                  *)
LEMMA TwoTo == /\ twoto[0] = 1
               /\ \A x \in Nat : twoto[x] \in Nat \ {0} /\ twoto[x + 1] = 2 * twoto[x] /\ x < twoto[x]
<1> DEFINE S == Nat \ {0}
           step == [y \in S |-> 2 * y]
<1>1. PICK f \in [Nat -> S] : f[0] = 1 /\ \A k \in Nat : f[k + 1] = 2 * f[k]
  <2>1. step \in [S -> S]
    OBVIOUS
  <2>2. 1 \in S /\ \A x \in S : step[x] = 2 * x
    OBVIOUS
  <2> HIDE DEF step, S
  <2>3. \A c \in S : \E f \in [Nat -> S] : f[0] = c /\ \A k \in Nat : f[k + 1] = step[f[k]]
    BY <2>1, NatRecursion
  <2>4. \E f \in [Nat -> S] : f[0] = 1 /\ \A k \in Nat : f[k + 1] = step[f[k]]
    BY <2>2, <2>3
  <2> QED BY <2>2, <2>4
<1>2. f = [x \in Nat |-> IF x = 0 THEN 1 ELSE 2 * f[x - 1]]
  <2>1. ASSUME NEW x \in Nat, x # 0 PROVE f[x] = 2 * f[x - 1]
    <3>1. x - 1 \in Nat /\ (x - 1) + 1 = x
      BY <2>1
    <3> QED BY <1>1, <3>1
  <2> QED BY <1>1, <2>1
<1>3. twoto = [x \in Nat |-> IF x = 0 THEN 1 ELSE 2 * twoto[x - 1]]
  BY <1>2 DEF twoto
<1>4. \A x \in Nat : twoto[x + 1] = 2 * twoto[x]
  BY <1>3
<1> DEFINE D == {x \in Nat : twoto[x] \in S /\ x < twoto[x]}
<1>5. 0 \in D
  BY <1>3
<1>6. ASSUME NEW x \in Nat, x \in D PROVE x + 1 \in D
  BY <1>4, <1>6
<1> HIDE DEF D
<1>7. \A x \in Nat : x \in D
  BY <1>5, <1>6, NatSetInduction
<1> QED BY <1>3, <1>4, <1>7 DEF D

LEMMA CeilLog ==
  ASSUME NEW x \in Nat
  PROVE  ceillog2(x) \in Nat /\ x <= twoto[ceillog2(x)]
<1> DEFINE S == {i \in 0 .. x : x <= twoto[i]}
<1>1. x \in S /\ S \subseteq Nat
  BY TwoTo
<1>2. Min(S) \in S
  <2> HIDE DEF S
  <2> QED BY <1>1, MinIsLeast
<1> QED BY <1>1, <1>2 DEF ceillog2

(* A table of new sizes, before anything is put into its hash part.        *)
Emptied(h, nasize, nhsize) == setarrayvector(setnodevector(h, nhsize), nasize)
LEMMA EmptiedIsSound ==
  ASSUME NEW h, h = [sizearray |-> h.sizearray, array |-> h.array, size |-> h.size, key |-> h.key,
                     dead |-> h.dead, val |-> h.val, next |-> h.next, lastfree |-> h.lastfree],
         h.sizearray \in Nat, ArrayOfInts(h), \A i \in 1 .. h.sizearray : h.array[i] \in Values,
         NEW nasize \in Nat, NEW nhsize \in Nat, NEW g, g = Emptied(h, nasize, nhsize)
  PROVE  /\ Sound(g) /\ g.sizearray = nasize /\ g.size >= nhsize /\ g.size \in Nat
         /\ g.array = [i \in 1 .. nasize |-> IF i <= h.sizearray THEN h.array[i] ELSE nil]
         /\ \A x \in Nodes(g) : g.key[x] = nil /\ g.val[x] = nil
<1> DEFINE sz == IF nhsize = 0 THEN 0 ELSE twoto[ceillog2(nhsize)]
           All(x) == [i \in 0 .. sz - 1 |-> x]
<1>1. sz \in Nat /\ sz >= nhsize
  BY CeilLog, TwoTo
<1>2. setnodevector(h, nhsize) = [h EXCEPT !.size = sz, !.key = All(nil), !.dead = All(FALSE),
                                           !.val = All(nil), !.next = All(NULL), !.lastfree = sz]
  BY DEF setnodevector
<1> HIDE DEF sz
<1>3. setnodevector(h, nhsize) =
         [sizearray |-> h.sizearray, array |-> h.array, size |-> sz, key |-> All(nil), dead |-> All(FALSE),
          val |-> All(nil), next |-> All(NULL), lastfree |-> sz]
  BY <1>2
<1>4. g = [sizearray |-> nasize, array |-> [i \in 1 .. nasize |-> IF i <= h.sizearray THEN h.array[i] ELSE nil],
           size |-> sz, key |-> All(nil), dead |-> All(FALSE),
           val |-> All(nil), next |-> All(NULL), lastfree |-> sz]
  <2> DEFINE s == setnodevector(h, nhsize)
  <2>1. g = [s EXCEPT !.array = [i \in 1 .. nasize |-> IF i <= s.sizearray THEN s.array[i] ELSE nil],
                      !.sizearray = nasize]
    BY DEF Emptied, setarrayvector
  <2>2. s = [sizearray |-> h.sizearray, array |-> h.array, size |-> sz, key |-> All(nil), dead |-> All(FALSE),
             val |-> All(nil), next |-> All(NULL), lastfree |-> sz]
    BY <1>3
  <2> HIDE DEF s, All
  <2>3. s.sizearray = h.sizearray /\ s.array = h.array
    BY <2>2
  <2>4. g = [s EXCEPT !.array = [i \in 1 .. nasize |-> IF i <= h.sizearray THEN h.array[i] ELSE nil],
                      !.sizearray = nasize]
    BY <2>1, <2>3
  <2> QED BY <2>2, <2>4
<1>5. /\ g = [sizearray |-> g.sizearray, array |-> g.array, size |-> g.size, key |-> g.key,
              dead |-> g.dead, val |-> g.val, next |-> g.next, lastfree |-> g.lastfree]
      /\ g.sizearray = nasize /\ g.size = sz /\ g.key = All(nil) /\ g.dead = All(FALSE)
      /\ g.val = All(nil) /\ g.next = All(NULL) /\ g.lastfree = sz
      /\ g.array = [i \in 1 .. nasize |-> IF i <= h.sizearray THEN h.array[i] ELSE nil]
  BY <1>4
<1>6. Nodes(g) = 0 .. sz - 1
  BY <1>5 DEF Nodes
<1> HIDE DEF All
<1>7. /\ All(nil) \in [Nodes(g) -> {nil}] /\ All(FALSE) \in [Nodes(g) -> {FALSE}]
      /\ All(NULL) \in [Nodes(g) -> {NULL}]
  BY <1>6 DEF All
<1>8. IsTable(g)
  <2>1. g.array \in [1 .. nasize -> Values]
    BY <1>5 DEF Values
  <2>2. g.lastfree \in 0 .. g.size /\ g.size \in Nat
    BY <1>1, <1>5
  <2> QED BY <1>5, <1>7, <2>1, <2>2 DEF IsTable, Values
<1>9. IsFiniteSet(Nodes(g)) /\ NULL \notin Nodes(g)
  BY <1>8, NodesFinite DEF IsTable
<1>10. Straight(Nodes(g), g.next)
  BY <1>5, <1>7, <1>9 DEF Straight, Linked
<1>11. ArrayOfInts(g)
  <2>1. ASSUME NEW i \in 1 .. nasize, g.array[i] # nil PROVE i \in Ints
    BY <1>5, <2>1 DEF ArrayOfInts
  <2> QED BY <1>5, <2>1 DEF ArrayOfInts
<1>12. FreeApart(g) /\ AtHome(g) /\ InChain(g) /\ LiveFirst(g) /\ DeadEmpty(g) /\ Apart(g)
  <2>1. \A x \in Nodes(g) : g.key[x] = nil /\ g.val[x] = nil /\ g.next[x] = NULL /\ g.dead[x] = FALSE
    BY ZenonT(30), <1>5, <1>7
  <2> QED BY <1>9, <2>1 DEF FreeApart, AtHome, InChain, LiveFirst, DeadEmpty, Apart
<1>13. FullAbove(g)
  BY <1>1, <1>5, <1>6 DEF FullAbove
<1> QED BY <1>1, <1>5, <1>7, <1>8, <1>10, <1>11, <1>12, <1>13 DEF Sound

(* A hash part of at least as many nodes as there are keys to put has room *)
(* for each of them: newkey does not come to another rehash in a resize.   *)
LEMMA RoomForAll ==
  ASSUME NEW g, Sound(g), NEW K \in SUBSET Keys, OnlyLive(g, K), Cardinality(K) <= g.size,
         NEW k \in Keys, InArray(g, k) \/ k \in K
  PROVE  Fits(g, k)
<1> SUFFICES ASSUME ~Fits(g, k) PROVE FALSE
  OBVIOUS
<1>1. k \in K /\ NodeOf(g, k) = NULL /\ Frees(g) = {}
  BY DEF Fits
<1>2. g.size \in Nat /\ g.lastfree \in 0 .. g.size /\ g.key \in [Nodes(g) -> Keys \cup {nil}]
  BY DEF Sound, IsTable
<1>3. ASSUME NEW x \in Nodes(g) PROVE g.key[x] \in K \ {k} /\ ~g.dead[x]
  <2>1. g.key[x] # nil
    <3>1. x \in Nat
      BY <1>2, NodesFinite
    <3>2. CASE x >= g.lastfree
      BY <3>2 DEF Sound, FullAbove
    <3>3. CASE ~(x >= g.lastfree)
      BY <1>1, <1>2, <3>1, <3>3 DEF Frees
    <3> QED BY <3>2, <3>3
  <2>2. ~g.dead[x] /\ g.key[x] \in K
    BY <2>1 DEF OnlyLive
  <2>3. \A y \in Nodes(g) : g.key[y] = k => g.dead[y]
    BY <1>1, SeekFinds
  <2> QED BY <2>2, <2>3
<1>4. ASSUME NEW x \in Nodes(g), NEW y \in Nodes(g), g.key[x] = g.key[y] PROVE x = y
  <2>1. g.key[x] # nil
    BY <1>3, TableAssumption
  <2>2. y \in From(g.next, x) /\ x \in From(g.next, y)
    BY <1>3, <1>4, <2>1 DEF Sound, LiveFirst
  <2> QED BY <2>2, FromOneWay DEF Sound
<1> DEFINE f == [x \in Nodes(g) |-> g.key[x]]
<1>5. f \in Injection(Nodes(g), K \ {k})
  <2>1. f \in [Nodes(g) -> K \ {k}]
    BY <1>3
  <2>2. IsInjective(f)
    BY <1>4 DEF IsInjective
  <2> QED BY <2>1, <2>2 DEF Injection
<1>6. IsFiniteSet(K)
  BY TableAssumption, FS_Subset
<1>7. IsFiniteSet(K \ {k}) /\ Cardinality(K \ {k}) = Cardinality(K) - 1
  BY <1>1, <1>6, FS_RemoveElement
<1>8. Cardinality(Nodes(g)) <= Cardinality(K \ {k})
  <2> HIDE DEF f
  <2> QED BY <1>5, <1>7, FS_Injection
<1>9. Cardinality(Nodes(g)) = g.size
  <2>1. Cardinality(0 .. g.size - 1) = IF 0 > g.size - 1 THEN 0 ELSE (g.size - 1) - 0 + 1
    <3>1. 0 \in Int /\ g.size - 1 \in Int
      BY <1>2
    <3> QED BY <3>1, FS_Interval
  <2> QED BY <1>2, <2>1 DEF Nodes
<1>10. Cardinality(K) \in Nat
  BY <1>6, FS_CardinalityType
<1> QED BY <1>2, <1>7, <1>8, <1>9, <1>10

(* What resize moves is all there is.                                      *)
LEMMA OldEntries ==
  ASSUME NEW h, Sound(h)
  PROVE  /\ h.sizearray + h.size \in Nat
         /\ \A m \in 1 .. h.sizearray : Old(h, m) = [key |-> m, val |-> h.array[m]]
         /\ \A m \in 1 .. h.sizearray + h.size : Old(h, m).val # nil =>
               /\ Old(h, m).key \in Keys /\ Old(h, m).val \in Values
               /\ luaH_get(h, Old(h, m).key) = Old(h, m).val
         /\ \A j \in Keys : luaH_get(h, j) # nil =>
               \E m \in 1 .. h.sizearray + h.size : Old(h, m).key = j /\ Old(h, m).val # nil
<1>1. /\ h.sizearray \in Nat /\ h.size \in Nat
      /\ h.array \in [1 .. h.sizearray -> Values]
      /\ h.key \in [Nodes(h) -> Keys \cup {nil}] /\ h.val \in [Nodes(h) -> Values]
  BY DEF Sound, IsTable
<1>2. \A m \in 1 .. h.sizearray : Old(h, m) = [key |-> m, val |-> h.array[m]]
  BY <1>1 DEF Old
<1>3. ASSUME NEW m \in 1 .. h.sizearray + h.size, m > h.sizearray
      PROVE  /\ h.sizearray + h.size - m \in Nodes(h)
             /\ Old(h, m) = [key |-> h.key[h.sizearray + h.size - m], val |-> h.val[h.sizearray + h.size - m]]
  <2>1. h.sizearray + h.size - m \in Nodes(h)
    BY <1>1, <1>3 DEF Nodes
  <2>2. ~(m <= h.sizearray)
    BY <1>1, <1>3
  <2> QED BY <2>1, <2>2 DEF Old
<1>4. ASSUME NEW m \in 1 .. h.sizearray + h.size, Old(h, m).val # nil
      PROVE  /\ Old(h, m).key \in Keys /\ Old(h, m).val \in Values
             /\ luaH_get(h, Old(h, m).key) = Old(h, m).val
  <2>1. CASE m <= h.sizearray
    <3>1. m \in 1 .. h.sizearray
      BY <1>1, <2>1
    <3>2. Old(h, m).key = m /\ Old(h, m).val = h.array[m]
      BY <1>2, <3>1
    <3>3. m \in Ints
      BY <1>4, <3>1, <3>2 DEF Sound, ArrayOfInts
    <3>4. InArray(h, m) /\ m \in Keys
      BY <1>1, <3>1, <3>3 DEF InArray, Keys
    <3>5. h.array[m] \in Values
      BY <1>1, <3>1
    <3>6. luaH_get(h, m) = h.array[m]
      BY <3>4, GetIs
    <3> QED BY <3>2, <3>4, <3>5, <3>6
  <2>2. CASE ~(m <= h.sizearray)
    <3> DEFINE n == h.sizearray + h.size - m
    <3>1. n \in Nodes(h) /\ Old(h, m).key = h.key[n] /\ Old(h, m).val = h.val[n]
      BY <1>1, <1>3, <2>2
    <3> HIDE DEF n
    <3>2. h.key[n] # nil /\ h.key[n] \in Keys /\ h.val[n] \in Values
      BY <1>1, <1>4, <3>1 DEF Sound, FreeApart
    <3>3. ~InArray(h, h.key[n])
      BY <3>1, <3>2 DEF Sound, Apart
    <3>4. luaH_get(h, h.key[n]) = h.val[n]
      BY <1>4, <3>1, <3>2, <3>3, GetIs
    <3> QED BY <3>1, <3>2, <3>4
  <2> QED BY <2>1, <2>2
<1>5. ASSUME NEW j \in Keys, luaH_get(h, j) # nil
      PROVE  \E m \in 1 .. h.sizearray + h.size : Old(h, m).key = j /\ Old(h, m).val # nil
  <2>1. CASE InArray(h, j)
    <3>1. j \in 1 .. h.sizearray
      BY <1>1, <2>1, TableAssumption DEF InArray
    <3>2. h.array[j] # nil
      BY <1>5, <2>1, GetIs
    <3>3. Old(h, j).key = j /\ Old(h, j).val # nil
      BY <1>2, <3>1, <3>2
    <3>4. j \in 1 .. h.sizearray + h.size
      BY <1>1, <3>1
    <3> QED BY <3>3, <3>4
  <2>2. CASE ~InArray(h, j)
    <3>1. PICK x \in Nodes(h) : h.key[x] = j /\ h.val[x] # nil
      BY <1>5, <2>2, GetIs
    <3> DEFINE m == h.sizearray + h.size - x
    <3>2. /\ m \in 1 .. h.sizearray + h.size /\ m > h.sizearray
          /\ h.sizearray + h.size - m = x
      BY <1>1 DEF Nodes
    <3> HIDE DEF m
    <3>3. Old(h, m).key = j /\ Old(h, m).val # nil
      BY <1>3, <3>1, <3>2
    <3> QED BY <3>2, <3>3
  <2> QED BY <2>1, <2>2
<1>6. h.sizearray + h.size \in Nat
  BY <1>1
<1> QED BY <1>2, <1>4, <1>5, <1>6

(* resize keeps what the table holds, if its hash part has room for what   *)
(* the array part does not take.                                           *)
LEMMA ResizeKeeps ==
  ASSUME NEW h, Sound(h), NEW nasize \in Nat, NEW nhsize \in Nat,
         NEW K \in SUBSET Keys, Cardinality(K) <= nhsize,
         \A j \in Keys : luaH_get(h, j) # nil => j \in K \/ (j \in Ints /\ 1 <= j /\ j <= nasize)
  PROVE  LET g == resize(h, nasize, nhsize)
         IN  /\ Sound(g) /\ g.sizearray = nasize /\ g.size >= nhsize
             /\ \A j \in Keys : luaH_get(g, j) = luaH_get(h, j)
             /\ OnlyLive(g, K)
<1> DEFINE N == h.sizearray + h.size
           empty == setarrayvector(setnodevector(h, nhsize), nasize)
           Kept(i) == Old(h, i).val = nil \/ (i <= h.sizearray /\ i <= nasize)
           more(i, f) == IF Kept(i) THEN f ELSE Put(f, Old(h, i).key, Old(h, i).val)
           filled[i \in 0 .. h.sizearray + h.size] ==
              IF i = 0 THEN setarrayvector(setnodevector(h, nhsize), nasize)
              ELSE LET old == Old(h, i)
                   IN  IF old.val = nil \/ (i <= h.sizearray /\ i <= nasize) THEN filled[i - 1]
                       ELSE Put(filled[i - 1], old.key, old.val)
<1>1. N \in Nat
  BY OldEntries
<1>2. \A n \in Nat : \E f : /\ f = [i \in 0 .. n |-> f[i]] /\ f[0] = empty
                            /\ \A i \in 1 .. n : f[i] = more(i, f[i - 1])
  <2> HIDE DEF more, empty
  <2> DEFINE D == {n \in Nat : \E f : /\ f = [i \in 0 .. n |-> f[i]] /\ f[0] = empty
                                      /\ \A i \in 1 .. n : f[i] = more(i, f[i - 1])}
  <2>1. 0 \in D
    <3> DEFINE f == [i \in 0 .. 0 |-> empty]
    <3>1. f = [i \in 0 .. 0 |-> f[i]] /\ f[0] = empty /\ \A i \in 1 .. 0 : f[i] = more(i, f[i - 1])
      OBVIOUS
    <3> HIDE DEF f
    <3> QED BY <3>1
  <2>2. ASSUME NEW n \in Nat, n \in D PROVE n + 1 \in D
    <3>1. PICK f : /\ f = [i \in 0 .. n |-> f[i]] /\ f[0] = empty
                   /\ \A i \in 1 .. n : f[i] = more(i, f[i - 1])
      BY <2>2
    <3> DEFINE g == [i \in 0 .. n + 1 |-> IF i = n + 1 THEN more(n + 1, f[n]) ELSE f[i]]
    <3>2. g = [i \in 0 .. n + 1 |-> g[i]] /\ g[0] = empty
      BY <3>1
    <3>3. ASSUME NEW i \in 1 .. n + 1 PROVE g[i] = more(i, g[i - 1])
      <4>1. CASE i = n + 1
        <5>1. i - 1 = n /\ g[n] = f[n] /\ g[n + 1] = more(n + 1, f[n])
          BY <4>1
        <5> QED BY <4>1, <5>1
      <4>2. CASE i # n + 1
        <5>1. i \in 1 .. n /\ g[i] = f[i] /\ g[i - 1] = f[i - 1]
          BY <4>2
        <5> QED BY <3>1, <5>1
      <4> QED BY <4>1, <4>2
    <3> HIDE DEF g
    <3>4. n + 1 \in Nat
      OBVIOUS
    <3>5. \A i \in 1 .. n + 1 : g[i] = more(i, g[i - 1])
      BY <3>3
    <3>6. \E e : /\ e = [i \in 0 .. n + 1 |-> e[i]] /\ e[0] = empty
                 /\ \A i \in 1 .. n + 1 : e[i] = more(i, e[i - 1])
      BY <3>2, <3>5
    <3> QED BY <3>4, <3>6
  <2> HIDE DEF D
  <2>3. \A n \in Nat : n \in D
    BY <2>1, <2>2, NatSetInduction
  <2> QED BY <2>3 DEF D
<1>3. filled = [i \in 0 .. N |-> IF i = 0 THEN empty ELSE more(i, filled[i - 1])]
  <2>1. PICK f : /\ f = [i \in 0 .. N |-> f[i]] /\ f[0] = empty
                 /\ \A i \in 1 .. N : f[i] = more(i, f[i - 1])
    BY <1>1, <1>2
  <2> HIDE DEF more, empty, N
  <2>2. ASSUME NEW i \in 0 .. N PROVE f[i] = IF i = 0 THEN empty ELSE more(i, f[i - 1])
    <3>1. i = 0 \/ i \in 1 .. N
      BY <1>1
    <3>2. i \in 1 .. N => i # 0
      OBVIOUS
    <3> QED BY <2>1, <3>1, <3>2
  <2>3. f = [i \in 0 .. N |-> IF i = 0 THEN empty ELSE more(i, f[i - 1])]
    BY <2>1, <2>2
  <2> QED BY <2>3 DEF more, empty, N
<1>4. resize(h, nasize, nhsize) = filled[N]
  BY DEF resize
<1> HIDE DEF filled
<1>5. filled[0] = empty /\ \A i \in 1 .. N : filled[i] = more(i, filled[i - 1])
  <2> HIDE DEF more, empty, N
  <2> QED BY <1>1, <1>3
<1>6. /\ Sound(empty) /\ empty.sizearray = nasize /\ empty.size >= nhsize /\ empty.size \in Nat
      /\ empty.array = [i \in 1 .. nasize |-> IF i <= h.sizearray THEN h.array[i] ELSE nil]
      /\ \A x \in Nodes(empty) : empty.key[x] = nil /\ empty.val[x] = nil
  <2>1. /\ h = [sizearray |-> h.sizearray, array |-> h.array, size |-> h.size, key |-> h.key,
                dead |-> h.dead, val |-> h.val, next |-> h.next, lastfree |-> h.lastfree]
        /\ h.sizearray \in Nat /\ ArrayOfInts(h) /\ \A i \in 1 .. h.sizearray : h.array[i] \in Values
    BY DEF Sound, IsTable
  <2>2. empty = Emptied(h, nasize, nhsize)
    BY DEF Emptied
  <2> HIDE DEF empty
  <2> QED BY <2>1, <2>2, EmptiedIsSound
<1> HIDE DEF empty
<1> DEFINE Passed(i) == {j \in Keys : (j \in Ints /\ 1 <= j /\ j <= nasize /\ j <= h.sizearray)
                                      \/ \E m \in 1 .. i : Old(h, m).key = j /\ Old(h, m).val # nil}
           P(i) == /\ Sound(filled[i]) /\ filled[i].sizearray = nasize /\ filled[i].size = empty.size
                   /\ OnlyLive(filled[i], K)
                   /\ \A j \in Keys : luaH_get(filled[i], j) = IF j \in Passed(i) THEN luaH_get(h, j) ELSE nil
           D == {i \in Nat : i <= N => P(i)}
<1>7. 0 \in D
  <2>1. OnlyLive(empty, K)
    BY <1>6 DEF OnlyLive
  <2>2. ASSUME NEW j \in Keys PROVE luaH_get(empty, j) = IF j \in Passed(0) THEN luaH_get(h, j) ELSE nil
    <3>1. h.sizearray \in Nat
      BY DEF Sound, IsTable
    <3>2. CASE ~InArray(empty, j)
      <4>1. luaH_get(empty, j) = nil
        BY <1>6, <3>2, GetIs
      <4>2. j \notin Passed(0)
        BY <1>6, <3>2 DEF InArray
      <4> QED BY <4>1, <4>2
    <3>3. CASE InArray(empty, j)
      <4>1. j \in Ints /\ j \in 1 .. nasize
        BY <1>6, <3>3, TableAssumption DEF InArray
      <4>2. luaH_get(empty, j) = IF j <= h.sizearray THEN h.array[j] ELSE nil
        BY <1>6, <3>3, <4>1, GetIs
      <4>3. CASE j <= h.sizearray
        <5>1. InArray(h, j) /\ j \in Passed(0)
          BY <4>1, <4>3 DEF InArray
        <5>2. luaH_get(h, j) = h.array[j]
          BY <5>1, GetIs
        <5> QED BY <4>2, <4>3, <5>1, <5>2
      <4>4. CASE ~(j <= h.sizearray)
        <5>1. j \notin Passed(0)
          BY <4>4
        <5> QED BY <4>2, <4>4, <5>1
      <4> QED BY <4>3, <4>4
    <3> QED BY <3>2, <3>3
  <2>3. filled[0] = empty
    BY <1>5
  <2> HIDE DEF Passed
  <2> QED BY <1>6, <2>1, <2>2, <2>3
<1>8. ASSUME NEW i \in Nat, i \in D PROVE i + 1 \in D
  <2>1. SUFFICES ASSUME i + 1 <= N PROVE P(i + 1)
    OBVIOUS
  <2> DEFINE f == filled[i]
             old == Old(h, i + 1)
             g == filled[i + 1]
  <2>2. P(i)
    BY <1>1, <1>8, <2>1
  <2>3. i + 1 \in 1 .. N /\ (i + 1) - 1 = i
    BY <1>1, <2>1
  <2>4. g = more(i + 1, f)
    <3> HIDE DEF more
    <3> QED BY <1>5, <2>3
  <2>5. Passed(i + 1) = Passed(i) \cup IF old.val # nil THEN {j \in Keys : j = old.key} ELSE {}
    <3>1. \A m : m \in 1 .. i + 1 <=> m \in 1 .. i \/ m = i + 1
      OBVIOUS
    <3> HIDE DEF old
    <3>2. ASSUME NEW j \in Keys
          PROVE  (\E m \in 1 .. i + 1 : Old(h, m).key = j /\ Old(h, m).val # nil)
                 <=> (\E m \in 1 .. i : Old(h, m).key = j /\ Old(h, m).val # nil) \/ (old.key = j /\ old.val # nil)
      BY <3>1 DEF old
    <3> QED BY <3>2
  <2> HIDE DEF Passed
  <2>6. CASE Kept(i + 1)
    <3>1. g = f
      BY <2>4, <2>6
    <3>2. Passed(i + 1) = Passed(i)
      <4>1. CASE old.val = nil
        BY <2>5, <4>1
      <4>2. CASE i + 1 <= h.sizearray /\ i + 1 <= nasize /\ old.val # nil
        <5>1. i + 1 \in 1 .. h.sizearray
          BY <4>2
        <5>2. old.key = i + 1 /\ old.val = h.array[i + 1]
          BY <5>1, OldEntries
        <5>3. i + 1 \in Ints
          BY <4>2, <5>1, <5>2 DEF Sound, ArrayOfInts
        <5>4. i + 1 \in Passed(i)
          BY <4>2, <5>3 DEF Passed, Keys
        <5> QED BY <2>5, <5>2, <5>4
      <4> QED BY <2>6, <4>1, <4>2
    <3> HIDE DEF f, g
    <3> QED BY <2>2, <3>1, <3>2 DEF f, g
  <2>7. CASE ~Kept(i + 1)
    <3>1. old.val # nil /\ old.key \in Keys /\ old.val \in Values /\ luaH_get(h, old.key) = old.val
      BY <2>3, <2>7, OldEntries
    <3>2. g = Put(f, old.key, old.val)
      BY <2>4, <2>7
    <3> HIDE DEF old, Kept, more
    <3>3. /\ Sound(f) /\ f.sizearray = nasize /\ f.size = empty.size /\ OnlyLive(f, K)
          /\ \A j \in Keys : luaH_get(f, j) = IF j \in Passed(i) THEN luaH_get(h, j) ELSE nil
      BY <2>2
    <3> HIDE DEF f, g
    <3>4. InArray(f, old.key) \/ old.key \in K
      BY <3>1, <3>3 DEF InArray
    <3>5. Cardinality(K) <= f.size
      <4>1. Cardinality(K) \in Nat
        BY TableAssumption, FS_Subset, FS_CardinalityType
      <4> QED BY <1>6, <3>3, <4>1
    <3>6. Fits(f, old.key)
      BY <3>1, <3>3, <3>4, <3>5, RoomForAll
    <3>7. Stored(f, g, old.key, old.val)
      BY <3>1, <3>2, <3>3, <3>6, PutStores
    <3>8. /\ Sound(g) /\ g.sizearray = nasize /\ g.size = empty.size /\ OnlyLive(g, K)
      BY <3>3, <3>4, <3>7 DEF Stored, SameShape
    <3>9. ASSUME NEW j \in Keys PROVE luaH_get(g, j) = IF j \in Passed(i + 1) THEN luaH_get(h, j) ELSE nil
      <4>1. luaH_get(g, j) = IF j = old.key THEN old.val ELSE luaH_get(f, j)
        BY <3>7 DEF Stored
      <4> QED BY <2>5, <3>1, <3>3, <4>1
    <3> QED BY <3>8, <3>9 DEF f, g
  <2> QED BY <2>6, <2>7
<1> HIDE DEF P
<1>9. \A i \in Nat : i \in D
  <2> HIDE DEF D
  <2> QED BY <1>7, <1>8, NatSetInduction
<1>10. P(N)
  BY <1>1, <1>9
<1>11. \A j \in Keys : luaH_get(h, j) # nil => j \in Passed(N)
  BY OldEntries
<1>12. \A j \in Keys : luaH_get(filled[N], j) = luaH_get(h, j)
  <2> HIDE DEF Passed, N
  <2> QED BY <1>10, <1>11 DEF P
<1> HIDE DEF N, Passed
<1> QED BY <1>4, <1>6, <1>10, <1>12 DEF P

(* A new table.                                                            *)
LEMMA NewIsEmpty ==
  ASSUME NEW narray \in Nat, NEW nhash \in Nat
  PROVE  LET g == luaH_new(narray, nhash)
         IN  Sound(g) /\ \A j \in Keys : luaH_get(g, j) = nil
<1> DEFINE g == luaH_new(narray, nhash)
           none == NoTable
<1>1. none = [sizearray |-> 0, array |-> <<>>, size |-> 0, key |-> <<>>, dead |-> <<>>,
              val |-> <<>>, next |-> <<>>, lastfree |-> 0]
  BY DEF NoTable
<1> HIDE DEF none
<1>2. /\ none = [sizearray |-> none.sizearray, array |-> none.array, size |-> none.size, key |-> none.key,
                 dead |-> none.dead, val |-> none.val, next |-> none.next, lastfree |-> none.lastfree]
      /\ none.sizearray = 0
  BY <1>1
<1>3. g = Emptied(none, narray, nhash)
  <2> DEFINE sz == IF nhash = 0 THEN 0 ELSE twoto[ceillog2(nhash)]
             All(x) == [i \in 0 .. sz - 1 |-> x]
             array == [i \in 1 .. narray |-> IF i <= none.sizearray THEN none.array[i] ELSE nil]
             a == setarrayvector(none, narray)
             s == setnodevector(none, nhash)
  <2>1. a = [none EXCEPT !.array = array, !.sizearray = narray]
    BY DEF setarrayvector
  <2>2. s = [none EXCEPT !.size = sz, !.key = All(nil), !.dead = All(FALSE), !.val = All(nil),
                         !.next = All(NULL), !.lastfree = sz]
    BY DEF setnodevector
  <2>3. g = [a EXCEPT !.size = sz, !.key = All(nil), !.dead = All(FALSE), !.val = All(nil),
                      !.next = All(NULL), !.lastfree = sz]
    BY DEF luaH_new, setnodevector, none
  <2>4. Emptied(none, narray, nhash)
          = [s EXCEPT !.array = [i \in 1 .. narray |-> IF i <= s.sizearray THEN s.array[i] ELSE nil],
                      !.sizearray = narray]
    BY DEF Emptied, setarrayvector
  <2> HIDE DEF sz, All, a, s, g
  <2>5. s.sizearray = none.sizearray /\ s.array = none.array
    BY <1>1, <2>2
  <2>6. Emptied(none, narray, nhash) = [s EXCEPT !.array = array, !.sizearray = narray]
    BY <2>4, <2>5
  <2> HIDE DEF array
  <2> QED BY <1>1, <2>1, <2>2, <2>3, <2>6
<1> HIDE DEF g
<1>4. ArrayOfInts(none) /\ \A i \in 1 .. none.sizearray : none.array[i] \in Values
  BY <1>2 DEF ArrayOfInts
<1>5. /\ Sound(g) /\ g.sizearray = narray
      /\ g.array = [i \in 1 .. narray |-> IF i <= none.sizearray THEN none.array[i] ELSE nil]
      /\ \A x \in Nodes(g) : g.key[x] = nil /\ g.val[x] = nil
  BY <1>2, <1>3, <1>4, EmptiedIsSound
<1>6. ASSUME NEW j \in Keys PROVE luaH_get(g, j) = nil
  <2>1. CASE InArray(g, j)
    <3>1. j \in 1 .. narray /\ ~(j <= none.sizearray)
      BY <1>2, <1>5, <2>1, TableAssumption DEF InArray
    <3> QED BY <1>5, <2>1, <3>1, GetIs
  <2>2. CASE ~InArray(g, j)
    BY <1>5, <2>2, GetIs
  <2> QED BY <2>1, <2>2
<1> QED BY <1>5, <1>6 DEF g

(* The sizes that rehash chooses.                                          *)
LEMMA SizesOfCounts ==
  ASSUME NEW ints, IsFiniteSet(ints)
  PROVE  computesizes(ints) \in Nat
<1> DEFINE C == Cardinality(ints)
           S == {0} \cup {twoto[i] : i \in {j \in 0 .. Cardinality(ints) :
                     /\ twoto[j] \div 2 < Cardinality(ints)
                     /\ \E k \in ints : twoto[j] \div 2 < k /\ k <= twoto[j]
                     /\ Cardinality({k \in ints : k <= twoto[j]}) > twoto[j] \div 2}}
<1>1. C \in Nat
  BY FS_CardinalityType
<1>2. ASSUME NEW x \in S PROVE x \in 0 .. 2 * C + 1
  <2>1. CASE x = 0
    BY <1>1, <2>1
  <2>2. CASE x # 0
    <3>1. PICK i \in 0 .. C : x = twoto[i] /\ twoto[i] \div 2 < C
      BY <2>2
    <3>2. x \in Nat
      BY <1>1, <3>1, TwoTo
    <3> HIDE DEF C, S
    <3>3. x \div 2 < C
      BY <3>1
    <3> QED BY <1>1, <3>2, <3>3
  <2> QED BY <2>1, <2>2
<1>3. 2 * C + 1 \in Nat /\ S # {} /\ S \subseteq 0 .. 2 * C + 1
  <2>1. 0 \in S
    OBVIOUS
  <2> HIDE DEF S, C
  <2> QED BY <1>1, <1>2, <2>1
<1>4. Max(S) \in S
  <2> HIDE DEF S, C
  <2> QED BY <1>3, MaxIsGreatest
<1>5. computesizes(ints) = Max(S)
  BY DEF computesizes
<1>6. Max(S) \in 0 .. 2 * C + 1
  <2> HIDE DEF S, C
  <2> QED BY <1>3, <1>4
<1> HIDE DEF S, C
<1> QED BY <1>1, <1>5, <1>6

(* The keys in use are those with a value.                                 *)
LEMMA UsedHaveValues ==
  ASSUME NEW h, Sound(h)
  PROVE  UsedKeys(h) = {j \in Keys : luaH_get(h, j) # nil}
<1>1. /\ h.sizearray \in Nat
      /\ h.key \in [Nodes(h) -> Keys \cup {nil}]
  BY DEF Sound, IsTable
<1>2. ASSUME NEW j \in UsedKeys(h) PROVE j \in Keys /\ luaH_get(h, j) # nil
  <2>1. CASE j \in 1 .. h.sizearray /\ h.array[j] # nil
    <3>1. j \in Ints
      BY <2>1 DEF Sound, ArrayOfInts
    <3>2. j \in Keys /\ InArray(h, j)
      BY <1>1, <2>1, <3>1 DEF Keys, InArray
    <3> QED BY <2>1, <3>2, GetIs
  <2>2. CASE j \in HashKeys(h)
    <3>1. PICK x \in Nodes(h) : h.key[x] = j /\ h.val[x] # nil
      BY <2>2 DEF HashKeys
    <3>2. j \in Keys /\ ~InArray(h, j)
      BY <1>1, <3>1 DEF Sound, FreeApart, Apart
    <3> QED BY <3>1, <3>2, GetIs
  <2> QED BY <1>2, <2>1, <2>2 DEF UsedKeys
<1>3. ASSUME NEW j \in Keys, luaH_get(h, j) # nil PROVE j \in UsedKeys(h)
  <2>1. CASE InArray(h, j)
    <3>1. j \in 1 .. h.sizearray
      BY <1>1, <2>1, TableAssumption DEF InArray
    <3>2. h.array[j] # nil
      BY <1>3, <2>1, GetIs
    <3> QED BY <3>1, <3>2 DEF UsedKeys
  <2>2. CASE ~InArray(h, j)
    <3>1. \E x \in Nodes(h) : h.key[x] = j /\ h.val[x] # nil
      BY <1>3, <2>2, GetIs
    <3> QED BY <3>1 DEF UsedKeys, HashKeys
  <2> QED BY <2>1, <2>2
<1> QED BY <1>2, <1>3

(* rehash keeps what the table holds and makes room for the new key.       *)
LEMMA RehashKeeps ==
  ASSUME NEW h, Sound(h), NEW k \in Keys
  PROVE  LET g == rehash(h, k)
         IN  /\ Sound(g) /\ Fits(g, k)
             /\ g.sizearray = computesizes(Candidates(UsedKeys(h) \cup {k}))
             /\ \A j \in Keys : luaH_get(g, j) = luaH_get(h, j)
<1> DEFINE keys == UsedKeys(h) \cup {k}
           na == computesizes(Candidates(keys))
           K == {j \in keys : ~(j \in Ints /\ 1 <= j /\ j <= na)}
           nh == Cardinality(K)
           g == resize(h, na, nh)
<1>1. keys \subseteq Keys /\ \A j \in Keys : luaH_get(h, j) # nil => j \in keys
  BY UsedHaveValues
<1>2. na \in Nat
  <2>1. Candidates(keys) \in SUBSET Keys
    BY <1>1 DEF Candidates
  <2>2. IsFiniteSet(Candidates(keys))
    <3> HIDE DEF keys
    <3> QED BY <2>1, TableAssumption, FS_Subset
  <2> HIDE DEF keys
  <2> QED BY <2>2, SizesOfCounts
<1>3. rehash(h, k) = g
  BY DEF rehash
<1> HIDE DEF keys, na
<1>4. K \in SUBSET Keys
  BY <1>1
<1>5. \A j \in Keys : luaH_get(h, j) # nil => j \in K \/ (j \in Ints /\ 1 <= j /\ j <= na)
  BY <1>1
<1>6. k \in K \/ (k \in Ints /\ 1 <= k /\ k <= na)
  BY DEF keys
<1> HIDE DEF K
<1>7. nh \in Nat /\ Cardinality(K) <= nh
  BY <1>4, TableAssumption, FS_Subset, FS_CardinalityType
<1> HIDE DEF nh
<1>8. /\ Sound(g) /\ g.sizearray = na /\ g.size >= nh
      /\ \A j \in Keys : luaH_get(g, j) = luaH_get(h, j)
      /\ OnlyLive(g, K)
  BY <1>2, <1>4, <1>5, <1>7, ResizeKeeps
<1> HIDE DEF g
<1>9. Fits(g, k)
  <2>1. InArray(g, k) \/ k \in K
    BY <1>6, <1>8 DEF InArray
  <2>2. Cardinality(K) <= g.size
    BY <1>7, <1>8 DEF Sound, IsTable, nh
  <2> QED BY <1>4, <1>8, <2>1, <2>2, RoomForAll
<1> QED BY <1>3, <1>8, <1>9 DEF na, keys

(* t[k] = v changes the value of k and of no other key.                    *)
WasSet(h, g, k, v) ==
  /\ Sound(g)
  /\ \A j \in Keys : luaH_get(g, j) = IF j = k THEN v ELSE luaH_get(h, j)
  /\ InArray(g, k) \/ NodeOf(g, k) # NULL
  /\ SameShape(h, g) \/ g.sizearray = computesizes(Candidates(UsedKeys(h) \cup {k}))

LEMMA SetStores ==
  ASSUME NEW h, Sound(h), NEW k \in Keys, NEW v \in Values
  PROVE  WasSet(h, luaH_set(h, k, v), k, v)
<1> DEFINE g == luaH_set(h, k, v)
<1>1. CASE Fits(h, k)
  <2>1. g = Put(h, k, v)
    BY <1>1 DEF luaH_set
  <2> HIDE DEF g
  <2>2. Stored(h, g, k, v)
    BY <1>1, <2>1, PutStores
  <2>3. InArray(g, k) \/ NodeOf(g, k) # NULL
    BY <2>2, ShapeIsAll DEF Stored
  <2> QED BY <2>2, <2>3 DEF Stored, WasSet, g
<1>2. CASE ~Fits(h, k)
  <2> DEFINE r == rehash(h, k)
  <2>1. g = Put(r, k, v)
    BY <1>2 DEF luaH_set
  <2>2. /\ Sound(r) /\ Fits(r, k)
        /\ r.sizearray = computesizes(Candidates(UsedKeys(h) \cup {k}))
        /\ \A j \in Keys : luaH_get(r, j) = luaH_get(h, j)
    BY RehashKeeps
  <2> HIDE DEF g, r
  <2>3. Stored(r, g, k, v)
    BY <2>1, <2>2, PutStores
  <2>4. InArray(g, k) \/ NodeOf(g, k) # NULL
    BY <2>3, ShapeIsAll DEF Stored
  <2> QED BY <2>2, <2>3, <2>4 DEF Stored, SameShape, WasSet, g
<1> QED BY <1>1, <1>2

(* OP_SETLIST: the array part, made large enough, gets the values.         *)
LEMMA ListStores ==
  ASSUME NEW h, Sound(h), NEW n \in Nat, 1 .. n \subseteq Ints,
         NEW large, large = IF n > h.sizearray THEN luaH_resizearray(h, n) ELSE h,
         NEW g, g = [large EXCEPT !.array = [i \in DOMAIN @ |-> IF i <= n THEN ValueOf(i) ELSE @[i]]]
  PROVE  /\ Sound(g)
         /\ \A j \in Keys : luaH_get(g, j) = IF j \in 1 .. n THEN ValueOf(j) ELSE luaH_get(h, j)
<1>1. /\ h.sizearray \in Nat /\ h.size \in Nat
      /\ h.key \in [Nodes(h) -> Keys \cup {nil}]
  BY DEF Sound, IsTable
<1>2. /\ Sound(large) /\ large.sizearray \in Nat /\ large.sizearray >= n
      /\ \A j \in Keys : luaH_get(large, j) = luaH_get(h, j)
  <2>1. CASE n > h.sizearray
    <3> DEFINE K == HashKeys(h)
               U == {x \in Nodes(h) : h.val[x] # nil}
               r == resize(h, n, h.size)
    <3>1. K = {h.key[x] : x \in U}
      BY DEF HashKeys
    <3>2. K \in SUBSET Keys
      BY <1>1, <3>1 DEF Sound, FreeApart
    <3>3. Cardinality(K) <= h.size
      <4>1. IsFiniteSet(Nodes(h)) /\ U \in SUBSET Nodes(h)
        BY <1>1, NodesFinite
      <4>2. IsFiniteSet(U) /\ Cardinality(U) <= Cardinality(Nodes(h))
        <5> HIDE DEF U
        <5> QED BY <4>1, FS_Subset
      <4>3. Cardinality(K) <= Cardinality(U)
        <5> HIDE DEF K, U
        <5>1. IsFiniteSet({h.key[x] : x \in U}) /\ Cardinality({h.key[x] : x \in U}) <= Cardinality(U)
          <6> DEFINE f == [x \in U |-> h.key[x]]
          <6>1. f \in Surjection(U, K)
            BY <3>1 DEF Surjection
          <6> HIDE DEF f
          <6> QED BY <3>1, <4>2, <6>1, FS_Surjection
        <5> QED BY <3>1, <5>1
      <4>4. Cardinality(Nodes(h)) = h.size
        <5>1. Cardinality(0 .. h.size - 1) = IF 0 > h.size - 1 THEN 0 ELSE (h.size - 1) - 0 + 1
          <6>1. 0 \in Int /\ h.size - 1 \in Int
            BY <1>1
          <6> QED BY <6>1, FS_Interval
        <5> QED BY <1>1, <5>1 DEF Nodes
      <4>5. Cardinality(K) \in Nat /\ Cardinality(U) \in Nat
        <5> HIDE DEF K, U
        <5> QED BY <3>2, <4>2, TableAssumption, FS_Subset, FS_CardinalityType
      <4> HIDE DEF K, U
      <4> QED BY <1>1, <4>2, <4>3, <4>4, <4>5
    <3>4. ASSUME NEW j \in Keys, luaH_get(h, j) # nil PROVE j \in K \/ (j \in Ints /\ 1 <= j /\ j <= n)
      <4>1. j \in UsedKeys(h)
        BY <3>4, UsedHaveValues
      <4>2. CASE j \in 1 .. h.sizearray /\ h.array[j] # nil
        BY <1>1, <2>1, <4>2 DEF Sound, ArrayOfInts
      <4> QED BY <4>1, <4>2 DEF UsedKeys
    <3>5. large = r
      BY <2>1 DEF luaH_resizearray
    <3> HIDE DEF K, r
    <3>6. \A j \in Keys : luaH_get(h, j) # nil => j \in K \/ (j \in Ints /\ 1 <= j /\ j <= n)
      BY <3>4
    <3>7. Sound(r) /\ r.sizearray = n /\ \A j \in Keys : luaH_get(r, j) = luaH_get(h, j)
      BY <1>1, <3>2, <3>3, <3>6, ResizeKeeps DEF r
    <3> QED BY <3>5, <3>7
  <2>2. CASE ~(n > h.sizearray)
    BY <1>1, <2>2
  <2> QED BY <2>1, <2>2
<1> DEFINE a == [i \in 1 .. large.sizearray |-> IF i <= n THEN ValueOf(i) ELSE large.array[i]]
<1>3. large.array \in [1 .. large.sizearray -> Values] /\ ArrayOfInts(large)
  BY <1>2 DEF Sound, IsTable
<1>4. g = [large EXCEPT !.array = a]
  BY <1>3
<1>5. \A i \in 1 .. large.sizearray : a[i] # nil => i \in Ints
  <2>1. \A i \in 1 .. large.sizearray : i <= n => i \in 1 .. n
    BY <1>2
  <2> QED BY <1>3, <2>1 DEF ArrayOfInts
<1>6. a \in [1 .. large.sizearray -> Values]
  <2>1. \A i \in 1 .. large.sizearray : i <= n => i \in Keys
    BY DEF Keys
  <2> QED BY <1>3, <2>1 DEF Values
<1>7. \A i \in 1 .. large.sizearray : a[i] = IF i <= n THEN ValueOf(i) ELSE large.array[i]
  OBVIOUS
<1> HIDE DEF a
<1>8. /\ Sound(g)
      /\ \A j \in Keys : luaH_get(g, j) = IF InArray(large, j) THEN a[j] ELSE luaH_get(large, j)
  <2>1. WithArray(large, g, a)
    BY <1>2, <1>4, <1>5, <1>6, IsWithArray
  <2> QED BY <1>2, <2>1, NewArray
<1>9. ASSUME NEW j \in Keys
      PROVE  luaH_get(g, j) = IF j \in 1 .. n THEN ValueOf(j) ELSE luaH_get(h, j)
  <2>1. CASE InArray(large, j)
    <3>1. j \in 1 .. large.sizearray
      BY <1>2, <2>1, TableAssumption DEF InArray
    <3>2. luaH_get(large, j) = large.array[j]
      BY <1>2, <2>1, GetIs
    <3> QED BY <1>2, <1>7, <1>8, <2>1, <3>1, <3>2
  <2>2. CASE ~InArray(large, j)
    <3>1. j \notin 1 .. n
      BY <1>2, <2>2 DEF InArray
    <3> QED BY <1>2, <1>8, <2>2, <3>1
  <2> QED BY <2>1, <2>2
<1> QED BY <1>8, <1>9

(* The collector marks keys dead and empties entries, and moves nothing.   *)
Marked(h, g, dying) ==
  /\ SameShape(h, g) /\ g.array = h.array /\ g.key = h.key /\ g.next = h.next /\ g.lastfree = h.lastfree
  /\ g.dead = [n \in Nodes(h) |-> h.dead[n] \/ n \in dying]
  /\ g.val = [n \in Nodes(h) |-> IF n \in dying THEN nil ELSE h.val[n]]
  /\ g = [sizearray |-> g.sizearray, array |-> g.array, size |-> g.size, key |-> g.key,
          dead |-> g.dead, val |-> g.val, next |-> g.next, lastfree |-> g.lastfree]
DyingIn(h, cleared) ==
  {n \in Nodes(h) : /\ h.key[n] \in Names \cup Objects
                    /\ h.val[n] = nil \/ h.key[n] \in cleared}
(* A sound table g in which the keys of cleared lost their values.         *)
WasCleared(h, g, cleared) ==
  /\ Sound(g) /\ SameShape(h, g) /\ g.key = h.key /\ g.next = h.next /\ g.array = h.array
  /\ \A n \in Nodes(h) : g.val[n] # nil => h.val[n] # nil
  /\ \A j \in Keys : luaH_get(g, j) = IF j \in cleared THEN nil ELSE luaH_get(h, j)

LEMMA CollectKeeps ==
  ASSUME NEW h, Sound(h), NEW cleared \in SUBSET (Objects \cap HashKeys(h)),
         NEW g, Marked(h, g, DyingIn(h, cleared))
  PROVE  WasCleared(h, g, cleared)
<1> DEFINE dying == DyingIn(h, cleared)
<1>1. \A n \in Nodes(h) : n \in dying <=>
        /\ h.key[n] \in Names \cup Objects
        /\ h.val[n] = nil \/ h.key[n] \in cleared
  BY DEF DyingIn
<1>2. /\ h.dead \in [Nodes(h) -> BOOLEAN] /\ h.val \in [Nodes(h) -> Values]
      /\ h.key \in [Nodes(h) -> Keys \cup {nil}]
  BY DEF Sound, IsTable
<1>3. /\ SameShape(h, g) /\ g.array = h.array /\ g.key = h.key /\ g.next = h.next /\ g.lastfree = h.lastfree
      /\ g.dead = [n \in Nodes(h) |-> h.dead[n] \/ n \in dying]
      /\ g.val = [n \in Nodes(h) |-> IF n \in dying THEN nil ELSE h.val[n]]
      /\ g = [sizearray |-> g.sizearray, array |-> g.array, size |-> g.size, key |-> g.key,
              dead |-> g.dead, val |-> g.val, next |-> g.next, lastfree |-> g.lastfree]
  BY DEF Marked
<1> HIDE DEF dying
<1>4. /\ Nodes(g) = Nodes(h)
      /\ \A j : mainposition(g, j) = mainposition(h, j)
      /\ \A j : InArray(g, j) <=> InArray(h, j)
  BY <1>3, ShapeIsAll
<1>5. \A n \in Nodes(h) : /\ g.val[n] = IF n \in dying THEN nil ELSE h.val[n]
                          /\ h.dead[n] => g.dead[n]
                          /\ g.dead[n] => h.dead[n] \/ n \in dying
  BY <1>2, <1>3
<1>6. IsTable(g)
  <2>1. \A n \in Nodes(h) : (h.dead[n] \/ n \in dying) \in BOOLEAN
    BY <1>2
  <2>2. g.dead \in [Nodes(h) -> BOOLEAN]
    BY <1>2, <1>3, <2>1
  <2>3. g.val \in [Nodes(h) -> Values]
    BY <1>2, <1>3 DEF Values
  <2> QED BY <1>3, <1>4, <2>2, <2>3 DEF Sound, IsTable, SameShape
<1>7. Sound(g)
  <2>1. FreeApart(g)
    BY <1>3, <1>4, <1>5 DEF Sound, FreeApart
  <2>2. AtHome(g) /\ InChain(g)
    BY <1>3, <1>4 DEF Sound, AtHome, InChain, Home
  <2>3. LiveFirst(g)
    BY <1>3, <1>4, <1>5 DEF Sound, LiveFirst
  <2>4. DeadEmpty(g)
    BY <1>4, <1>5 DEF Sound, DeadEmpty
  <2>5. FullAbove(g) /\ Apart(g) /\ ArrayOfInts(g)
    BY <1>3, <1>4 DEF Sound, FullAbove, Apart, ArrayOfInts, SameShape
  <2>6. Straight(Nodes(g), g.next)
    BY <1>3, <1>4 DEF Sound
  <2> QED BY <1>6, <2>1, <2>2, <2>3, <2>4, <2>5, <2>6 DEF Sound
<1>8. ASSUME NEW j \in Keys PROVE luaH_get(g, j) = IF j \in cleared THEN nil ELSE luaH_get(h, j)
  <2>1. CASE InArray(h, j)
    <3>1. j \notin cleared
      BY <2>1, TableAssumption DEF InArray
    <3> QED BY <1>3, <1>4, <2>1, <3>1 DEF luaH_get
  <2>2. CASE ~InArray(h, j) /\ j \in cleared
    <3>1. \A n \in Nodes(h) : h.key[n] = j => g.val[n] = nil
      BY <1>1, <1>5, <2>2
    <3> QED BY <1>3, <1>4, <1>7, <2>2, <3>1, GetIs
  <2>3. CASE ~InArray(h, j) /\ j \notin cleared
    <3>1. \A n \in Nodes(h) : h.key[n] = j => g.val[n] = h.val[n]
      BY <1>1, <1>5, <2>3
    <3>2. CASE \E n \in Nodes(h) : h.key[n] = j /\ h.val[n] # nil
      <4>1. PICK n \in Nodes(h) : h.key[n] = j /\ h.val[n] # nil
        BY <3>2
      <4>2. luaH_get(h, j) = h.val[n]
        BY <2>3, <4>1, GetIs
      <4>3. luaH_get(g, j) = g.val[n]
        BY <1>3, <1>4, <1>7, <2>3, <3>1, <4>1, GetIs
      <4> QED BY <2>3, <3>1, <4>1, <4>2, <4>3
    <3>3. CASE \A n \in Nodes(h) : h.key[n] = j => h.val[n] = nil
      <4>1. luaH_get(h, j) = nil
        BY <2>3, <3>3, GetIs
      <4>2. luaH_get(g, j) = nil
        BY <1>3, <1>4, <1>7, <2>3, <3>1, <3>3, GetIs
      <4> QED BY <2>3, <4>1, <4>2
    <3> QED BY <3>2, <3>3
  <2> QED BY <2>1, <2>2, <2>3
<1> QED BY <1>3, <1>5, <1>7, <1>8 DEF WasCleared

-----------------------------------------------------------------------------
(* Traversal.  Every entry is one element, which findindex finds again.    *)
Elements(h) == 0 .. h.sizearray + h.size - 1

LEMMA ElementsAreEntries ==
  ASSUME NEW h, Sound(h)
  PROVE  /\ \A i \in Elements(h) : ValAt(h, i) # nil =>
               /\ KeyAt(h, i) \in Keys /\ findindex(h, KeyAt(h, i)) = i
               /\ luaH_get(h, KeyAt(h, i)) # nil
         /\ \A j \in Keys : luaH_get(h, j) # nil =>
               \E i \in Elements(h) : KeyAt(h, i) = j /\ ValAt(h, i) # nil
<1>1. /\ h.sizearray \in Nat /\ h.size \in Nat
      /\ h.key \in [Nodes(h) -> Keys \cup {nil}] /\ h.dead \in [Nodes(h) -> BOOLEAN]
  BY DEF Sound, IsTable
<1>2. nil \notin Keys /\ NULL \notin Nodes(h)
  BY <1>1, TableAssumption, NodesFinite
<1>3. ASSUME NEW i \in Elements(h), ValAt(h, i) # nil
      PROVE  /\ KeyAt(h, i) \in Keys /\ findindex(h, KeyAt(h, i)) = i
             /\ luaH_get(h, KeyAt(h, i)) # nil
  <2>0. i \in Nat
    BY DEF Elements
  <2>1. CASE i < h.sizearray
    <3>1. KeyAt(h, i) = i + 1 /\ ValAt(h, i) = h.array[i + 1]
      BY <2>1 DEF KeyAt, ValAt
    <3>2. i + 1 \in 1 .. h.sizearray
      BY <1>1, <2>0, <2>1
    <3>3. i + 1 \in Ints
      BY <1>3, <3>1, <3>2 DEF Sound, ArrayOfInts
    <3>4. i + 1 \in Keys /\ InArray(h, i + 1)
      BY <1>1, <3>2, <3>3 DEF InArray, Keys
    <3>5. findindex(h, i + 1) = i
      BY <1>2, <2>0, <3>4 DEF findindex
    <3>6. luaH_get(h, i + 1) = h.array[i + 1]
      BY <3>4, GetIs
    <3> QED BY <1>3, <3>1, <3>4, <3>5, <3>6
  <2>2. CASE ~(i < h.sizearray)
    <3> DEFINE x == i - h.sizearray
    <3>1. KeyAt(h, i) = h.key[x] /\ ValAt(h, i) = h.val[x]
      BY <2>2 DEF KeyAt, ValAt
    <3>2. x \in Nodes(h) /\ x + h.sizearray = i
      BY <1>1, <2>0, <2>2 DEF Elements, Nodes
    <3> HIDE DEF x
    <3>3. h.val[x] # nil
      BY <1>3, <3>1
    <3>4. h.key[x] \in Keys /\ ~h.dead[x] /\ ~InArray(h, h.key[x])
      BY <1>1, <3>2, <3>3 DEF Sound, FreeApart, DeadEmpty, Apart
    <3>5. Seek(h, h.key[x], TRUE) = x
      BY <3>2, <3>4, SeekFinds
    <3>6. findindex(h, h.key[x]) = i
      BY <1>2, <3>2, <3>4, <3>5 DEF findindex
    <3>7. luaH_get(h, h.key[x]) = h.val[x]
      BY <3>2, <3>3, <3>4, GetIs
    <3> QED BY <3>1, <3>3, <3>4, <3>6, <3>7
  <2> QED BY <2>1, <2>2
<1>4. ASSUME NEW j \in Keys, luaH_get(h, j) # nil
      PROVE  \E i \in Elements(h) : KeyAt(h, i) = j /\ ValAt(h, i) # nil
  <2>1. CASE InArray(h, j)
    <3>1. j \in 1 .. h.sizearray
      BY <1>1, <2>1, TableAssumption DEF InArray
    <3> DEFINE i == j - 1
    <3>2. i \in Elements(h) /\ i < h.sizearray /\ i + 1 = j
      BY <1>1, <3>1 DEF Elements
    <3> HIDE DEF i
    <3>3. KeyAt(h, i) = j /\ ValAt(h, i) = h.array[j]
      BY <3>2 DEF KeyAt, ValAt
    <3>4. h.array[j] # nil
      BY <1>4, <2>1, GetIs
    <3> QED BY <3>2, <3>3, <3>4
  <2>2. CASE ~InArray(h, j)
    <3>1. PICK x \in Nodes(h) : h.key[x] = j /\ h.val[x] # nil
      BY <1>4, <2>2, GetIs
    <3> DEFINE i == x + h.sizearray
    <3>2. i \in Elements(h) /\ ~(i < h.sizearray) /\ i - h.sizearray = x
      BY <1>1 DEF Elements, Nodes
    <3> HIDE DEF i
    <3>3. KeyAt(h, i) = j /\ ValAt(h, i) # nil
      BY <3>1, <3>2 DEF KeyAt, ValAt
    <3> QED BY <3>2, <3>3
  <2> QED BY <2>1, <2>2
<1> QED BY <1>3, <1>4

(* What a loop does not notice: entries that are emptied or keep a value,  *)
(* at the same places.                                                     *)
Unmoved(h, g) == /\ SameShape(h, g) /\ g.key = h.key /\ g.next = h.next
                 /\ \A i \in Elements(h) : ValAt(g, i) # nil => ValAt(h, i) # nil
LEMMA UnmovedIsFound ==
  ASSUME NEW h, NEW g, Unmoved(h, g)
  PROVE  /\ Elements(g) = Elements(h)
         /\ \A i : KeyAt(g, i) = KeyAt(h, i)
         /\ \A k : findindex(g, k) = findindex(h, k)
<1>1. Nodes(g) = Nodes(h) /\ \A j : InArray(g, j) <=> InArray(h, j)
  BY ShapeIsAll DEF Unmoved
<1>2. Elements(g) = Elements(h) /\ \A i : KeyAt(g, i) = KeyAt(h, i)
  BY DEF Unmoved, SameShape, Elements, KeyAt
<1>3. ASSUME NEW k PROVE findindex(g, k) = findindex(h, k)
  <2>1. mainposition(g, k) = mainposition(h, k)
    BY ShapeIsAll DEF Unmoved
  <2>2. Seek(g, k, TRUE) = Seek(h, k, TRUE)
    BY <1>1, <2>1 DEF Unmoved, Seek
  <2> QED BY <1>1, <2>2 DEF Unmoved, SameShape, findindex
<1> QED BY <1>2, <1>3

(* An assignment to a field that exists.                                   *)
LEMMA SetUnmoved ==
  ASSUME NEW h, Sound(h), NEW k \in Keys, luaH_get(h, k) # nil, NEW v \in Values
  PROVE  Unmoved(h, luaH_set(h, k, v))
<1> DEFINE g == luaH_set(h, k, v)
<1>1. /\ h.sizearray \in Nat /\ h.size \in Nat
      /\ h.array \in [1 .. h.sizearray -> Values] /\ h.val \in [Nodes(h) -> Values]
      /\ h = [sizearray |-> h.sizearray, array |-> h.array, size |-> h.size, key |-> h.key,
              dead |-> h.dead, val |-> h.val, next |-> h.next, lastfree |-> h.lastfree]
  BY DEF Sound, IsTable
<1>2. CASE InArray(h, k)
  <2>1. Fits(h, k)
    BY <1>2 DEF Fits
  <2>2. g = [h EXCEPT !.array[k] = v]
    BY <1>2, <2>1 DEF luaH_set, Put
  <2>3. k \in 1 .. h.sizearray /\ h.array[k] # nil
    BY <1>1, <1>2, TableAssumption, GetIs DEF InArray
  <2> HIDE DEF g
  <2>4. /\ SameShape(h, g) /\ g.key = h.key /\ g.next = h.next /\ g.val = h.val
        /\ g.array = [h.array EXCEPT ![k] = v]
    BY <1>1, <2>2 DEF SameShape
  <2>5. ASSUME NEW i \in Elements(h), ValAt(g, i) # nil PROVE ValAt(h, i) # nil
    <3>1. CASE i < h.sizearray
      <4>1. i + 1 \in 1 .. h.sizearray
        BY <1>1, <3>1 DEF Elements
      <4>2. ValAt(g, i) = g.array[i + 1] /\ ValAt(h, i) = h.array[i + 1]
        BY <2>4, <3>1 DEF ValAt, SameShape
      <4>3. i + 1 # k => g.array[i + 1] = h.array[i + 1]
        BY <1>1, <2>4, <4>1
      <4> QED BY <2>3, <2>5, <4>2, <4>3
    <3>2. CASE ~(i < h.sizearray)
      BY <2>4, <2>5, <3>2 DEF ValAt, SameShape
    <3> QED BY <3>1, <3>2
  <2> QED BY <2>4, <2>5 DEF Unmoved, g
<1>3. CASE ~InArray(h, k)
  <2> DEFINE n == NodeOf(h, k)
  <2>1. n # NULL /\ h.val[n] # nil
    BY <1>3 DEF luaH_get
  <2>2. Fits(h, k)
    BY <2>1 DEF Fits
  <2>3. g = [h EXCEPT !.val[n] = v]
    BY <1>3, <2>1, <2>2 DEF luaH_set, Put
  <2> HIDE DEF g, n
  <2>4. /\ SameShape(h, g) /\ g.key = h.key /\ g.next = h.next /\ g.array = h.array
        /\ g.val = [h.val EXCEPT ![n] = v]
    BY <1>1, <2>3 DEF SameShape
  <2>5. ASSUME NEW i \in Elements(h), ValAt(g, i) # nil PROVE ValAt(h, i) # nil
    <3>1. CASE i < h.sizearray
      BY <2>4, <2>5, <3>1 DEF ValAt, SameShape
    <3>2. CASE ~(i < h.sizearray)
      <4>1. i - h.sizearray \in Nodes(h)
        BY <1>1, <3>2 DEF Elements, Nodes
      <4>2. ValAt(g, i) = g.val[i - h.sizearray] /\ ValAt(h, i) = h.val[i - h.sizearray]
        BY <2>4, <3>2 DEF ValAt, SameShape
      <4>3. i - h.sizearray # n => g.val[i - h.sizearray] = h.val[i - h.sizearray]
        BY <1>1, <2>4, <4>1
      <4> QED BY <2>1, <2>5, <4>2, <4>3
    <3> QED BY <3>1, <3>2
  <2> QED BY <2>4, <2>5 DEF Unmoved, g
<1> QED BY <1>2, <1>3

(* luaH_next gives the first entry after one.                              *)
LEMMA NextIsNext ==
  ASSUME NEW h, Sound(h), NEW k, findindex(h, k) \in Nat \cup {-1}
  PROVE  LET i == luaH_next(h, k)
         IN  /\ i = -1 => \A m \in Elements(h) : ValAt(h, m) # nil => m <= findindex(h, k)
             /\ i # -1 => /\ i \in Elements(h) /\ ValAt(h, i) # nil /\ i > findindex(h, k)
                          /\ \A m \in Elements(h) :
                                ValAt(h, m) # nil /\ m > findindex(h, k) => i <= m
<1> DEFINE at == findindex(h, k)
           left == {i \in 0 .. h.sizearray + h.size - 1 : i > at /\ ValAt(h, i) # nil}
           i == luaH_next(h, k)
<1>1. i = IF left = {} THEN -1 ELSE Min(left)
  BY DEF luaH_next
<1>2. left = {m \in Elements(h) : m > at /\ ValAt(h, m) # nil}
  BY DEF Elements
<1>3. Elements(h) \subseteq Nat /\ at \in Int
  BY DEF Elements
<1> HIDE DEF left, i, at
<1>4. CASE left = {}
  <2>1. i = -1
    BY <1>1, <1>4
  <2>2. \A m \in Elements(h) : ValAt(h, m) # nil => m <= at
    BY <1>2, <1>3, <1>4
  <2> QED BY <2>1, <2>2 DEF i, at
<1>5. CASE left # {}
  <2>1. left \subseteq Nat
    BY <1>2, <1>3
  <2>2. Min(left) \in left /\ \A m \in left : Min(left) <= m
    BY <1>5, <2>1, MinIsLeast
  <2>3. i \in left /\ \A m \in left : i <= m
    BY <1>1, <1>5, <2>2
  <2>4. i # -1
    BY <2>1, <2>3
  <2> QED BY <1>2, <2>3, <2>4 DEF i, at
<1> QED BY <1>4, <1>5

-----------------------------------------------------------------------------
(* The invariant: the table is sound and, in a loop, the entries visited   *)
(* are those up to where the loop is.                                      *)
Looped == cursor # Idle =>
            /\ cursor \in Keys \cup {nil}
            /\ findindex(t, cursor) \in Nat \cup {-1}
            /\ \A i \in Elements(t) : ValAt(t, i) # nil =>
                  ((KeyAt(t, i) \in visited) <=> i <= findindex(t, cursor))
IInv == Sound(t) /\ Looped

LEMMA InitInv == Init => IInv
<1> SUFFICES ASSUME Init PROVE IInv
  OBVIOUS
<1>1. PICK narray \in Narrays, nhash \in Nhashes : t = luaH_new(narray, nhash)
  BY DEF Init
<1>2. narray \in Nat /\ nhash \in Nat
  BY TableAssumption
<1>3. Sound(t)
  BY <1>1, <1>2, NewIsEmpty
<1> QED BY <1>3 DEF Init, IInv, Looped

(* A step that moves nothing and leaves the loop where it is.              *)
LEMMA UnmovedLooped ==
  ASSUME Looped, Unmoved(t, t'), UNCHANGED <<cursor, visited>>
  PROVE  Looped'
<1>1. /\ Elements(t') = Elements(t)
      /\ \A i : KeyAt(t', i) = KeyAt(t, i)
      /\ \A k : findindex(t', k) = findindex(t, k)
  BY UnmovedIsFound
<1>2. \A i \in Elements(t) : ValAt(t', i) # nil => ValAt(t, i) # nil
  BY DEF Unmoved
<1> QED BY <1>1, <1>2 DEF Looped

LEMMA ValueIsValue == ASSUME NEW k \in Keys, NEW v \in {nil, ValueOf(k)} PROVE v \in Values
BY DEF Values

(* What the collector makes of the table.                                  *)
Collected(h, cleared, g) ==
  LET Dying(n) == h.key[n] \in Names \cup Objects /\ (h.val[n] = nil \/ h.key[n] \in cleared)
  IN  g = [h EXCEPT !.dead = [n \in Nodes(h) |-> @[n] \/ Dying(n)],
                    !.val  = [n \in Nodes(h) |-> IF Dying(n) THEN nil ELSE @[n]]]

LEMMA CollectMarks ==
  ASSUME NEW h, Sound(h), NEW cleared, NEW g, Collected(h, cleared, g)
  PROVE  Marked(h, g, DyingIn(h, cleared))
<1> DEFINE dying == DyingIn(h, cleared)
           newdead == [n \in Nodes(h) |-> h.dead[n] \/ n \in dying]
           newval == [n \in Nodes(h) |-> IF n \in dying THEN nil ELSE h.val[n]]
<1>1. g = [h EXCEPT !.dead = newdead, !.val = newval]
  <2> DEFINE gone(n) == h.key[n] \in Names \cup Objects /\ (h.val[n] = nil \/ h.key[n] \in cleared)
             dead == [n \in Nodes(h) |-> h.dead[n] \/ gone(n)]
             val == [n \in Nodes(h) |-> IF gone(n) THEN nil ELSE h.val[n]]
  <2>1. g = [h EXCEPT !.dead = dead, !.val = val]
    BY Zenon DEF Collected
  <2>2. \A n \in Nodes(h) : gone(n) <=> n \in dying
    BY DEF DyingIn
  <2> HIDE DEF gone, dying
  <2>3. dead = newdead /\ val = newval
    BY <2>2
  <2> HIDE DEF dead, val, newdead, newval
  <2> QED BY <2>1, <2>3
<1>2. h = [sizearray |-> h.sizearray, array |-> h.array, size |-> h.size, key |-> h.key,
           dead |-> h.dead, val |-> h.val, next |-> h.next, lastfree |-> h.lastfree]
  BY DEF Sound, IsTable
<1> HIDE DEF newdead, newval
<1>3. /\ SameShape(h, g) /\ g.array = h.array /\ g.key = h.key /\ g.next = h.next
      /\ g.lastfree = h.lastfree /\ g.dead = newdead /\ g.val = newval
      /\ g = [sizearray |-> g.sizearray, array |-> g.array, size |-> g.size, key |-> g.key,
              dead |-> g.dead, val |-> g.val, next |-> g.next, lastfree |-> g.lastfree]
  BY <1>1, <1>2 DEF SameShape
<1> HIDE DEF dying
<1>4. /\ g.dead = [n \in Nodes(h) |-> h.dead[n] \/ n \in dying]
      /\ g.val = [n \in Nodes(h) |-> IF n \in dying THEN nil ELSE h.val[n]]
  BY <1>3 DEF newdead, newval
<1>5. Marked(h, g, dying)
  BY <1>3, <1>4 DEF Marked
<1> QED BY <1>5 DEF dying

LEMMA CollectIs ==
  ASSUME IInv, NEW cleared \in SUBSET (Objects \cap HashKeys(t)), Collected(t, cleared, t')
  PROVE  /\ Sound(t') /\ Unmoved(t, t')
         /\ \A j \in Keys : luaH_get(t', j) = IF j \in cleared THEN nil ELSE luaH_get(t, j)
<1> DEFINE g == t'
<1>1. Sound(t) /\ Collected(t, cleared, g)
  BY DEF IInv
<1>4. IsTable(t)
  BY <1>1 DEF Sound
<1> HIDE DEF g
<1>5. Marked(t, g, DyingIn(t, cleared))
  BY <1>1, CollectMarks
<1>6. WasCleared(t, g, cleared)
  BY <1>1, <1>5, CollectKeeps
<1>7. /\ Sound(g) /\ SameShape(t, g) /\ g.key = t.key /\ g.next = t.next /\ g.array = t.array
      /\ \A n \in Nodes(t) : g.val[n] # nil => t.val[n] # nil
      /\ \A j \in Keys : luaH_get(g, j) = IF j \in cleared THEN nil ELSE luaH_get(t, j)
  BY <1>6 DEF WasCleared
<1>8. ASSUME NEW i \in Elements(t), ValAt(g, i) # nil PROVE ValAt(t, i) # nil
  <2>1. CASE i < t.sizearray
    BY <1>7, <1>8, <2>1 DEF ValAt, SameShape
  <2>2. CASE ~(i < t.sizearray)
    <3>1. i - t.sizearray \in Nodes(t)
      BY <1>4, <2>2 DEF Sound, IsTable, Elements, Nodes
    <3> QED BY <1>7, <1>8, <2>2, <3>1 DEF ValAt, SameShape
  <2> QED BY <2>1, <2>2
<1>9. Unmoved(t, g)
  BY <1>7, <1>8 DEF Unmoved
<1> QED BY <1>7, <1>9 DEF g

(* Advance visits the next entry, or ends when there is none.              *)
LEMMA AdvanceVisits ==
  ASSUME IInv, Advance
  PROVE  LET i == luaH_next(t, cursor)
         IN  /\ i = -1 => \A k \in Keys : luaH_get(t, k) # nil => k \in visited
             /\ i # -1 => /\ KeyAt(t, i) \in Keys /\ luaH_get(t, KeyAt(t, i)) # nil
                          /\ KeyAt(t, i) \notin visited
                          /\ findindex(t, KeyAt(t, i)) = i /\ i \in Elements(t)
                          /\ \A m \in Elements(t) : ValAt(t, m) # nil =>
                                ((KeyAt(t, m) \in visited \cup {KeyAt(t, i)}) <=> m <= i)
<1> DEFINE i == luaH_next(t, cursor)
           at == findindex(t, cursor)
<1>1. /\ Sound(t) /\ at \in Nat \cup {-1}
      /\ \A m \in Elements(t) : ValAt(t, m) # nil => ((KeyAt(t, m) \in visited) <=> m <= at)
  BY DEF IInv, Looped, Advance
<1>2. /\ i = -1 => \A m \in Elements(t) : ValAt(t, m) # nil => m <= at
      /\ i # -1 => /\ i \in Elements(t) /\ ValAt(t, i) # nil /\ i > at
                   /\ \A m \in Elements(t) : ValAt(t, m) # nil /\ m > at => i <= m
  BY <1>1, NextIsNext
<1>3. Elements(t) \subseteq Nat
  BY <1>1 DEF Elements, Sound, IsTable
<1>4. /\ \A m \in Elements(t) : ValAt(t, m) # nil =>
               /\ KeyAt(t, m) \in Keys /\ findindex(t, KeyAt(t, m)) = m
               /\ luaH_get(t, KeyAt(t, m)) # nil
      /\ \A j \in Keys : luaH_get(t, j) # nil =>
               \E m \in Elements(t) : KeyAt(t, m) = j /\ ValAt(t, m) # nil
  BY <1>1, ElementsAreEntries
<1> HIDE DEF i, at
<1>5. ASSUME i = -1, NEW k \in Keys, luaH_get(t, k) # nil PROVE k \in visited
  <2>1. PICK m \in Elements(t) : KeyAt(t, m) = k /\ ValAt(t, m) # nil
    BY <1>4, <1>5
  <2> QED BY <1>1, <1>2, <1>5, <2>1
<1>6. ASSUME i # -1
      PROVE  /\ KeyAt(t, i) \in Keys /\ luaH_get(t, KeyAt(t, i)) # nil
             /\ KeyAt(t, i) \notin visited /\ findindex(t, KeyAt(t, i)) = i /\ i \in Elements(t)
  <2>1. ~(i <= at)
    BY <1>1, <1>2, <1>3, <1>6
  <2> QED BY <1>1, <1>2, <1>4, <1>6, <2>1
<1>7. ASSUME i # -1, NEW m \in Elements(t), ValAt(t, m) # nil
      PROVE  (KeyAt(t, m) \in visited \cup {KeyAt(t, i)}) <=> m <= i
  <2>1. KeyAt(t, m) = KeyAt(t, i) <=> m = i
    BY <1>2, <1>4, <1>7
  <2>2. (KeyAt(t, m) \in visited) <=> m <= at
    BY <1>1, <1>7
  <2>3. i \in Nat /\ m \in Nat /\ i > at /\ (m > at => i <= m)
    BY <1>2, <1>3, <1>7
  <2>4. (m <= at \/ m = i) <=> m <= i
    BY <1>1, <2>3
  <2> QED BY <2>1, <2>2, <2>4
<1> QED BY <1>5, <1>6, <1>7 DEF i

LEMMA StepInv == IInv /\ [Next]_vars => IInv'
<1> SUFFICES ASSUME IInv, [Next]_vars PROVE IInv'
  OBVIOUS
<1>0. Sound(t) /\ Looped
  BY DEF IInv
<1>1. ASSUME NEW k \in Keys, Assign(k) PROVE IInv'
  <2>1. PICK v \in {nil, ValueOf(k)} : /\ cursor # Idle => luaH_get(t, k) # nil
                                       /\ t' = luaH_set(t, k, v)
                                       /\ UNCHANGED <<cursor, visited>>
    BY <1>1 DEF Assign
  <2>2. v \in Values
    BY ValueIsValue
  <2>3. Sound(t')
    <3>1. WasSet(t, luaH_set(t, k, v), k, v)
      BY <1>0, <2>2, SetStores
    <3> QED BY <2>1, <3>1 DEF WasSet
  <2>4. CASE cursor = Idle
    BY <2>1, <2>3, <2>4 DEF IInv, Looped
  <2>5. CASE cursor # Idle
    <3>1. Unmoved(t, t')
      BY <1>0, <2>1, <2>2, <2>5, SetUnmoved
    <3>2. Looped'
      BY <1>0, <2>1, <3>1, UnmovedLooped
    <3> QED BY <2>3, <3>2 DEF IInv
  <2> QED BY <2>4, <2>5
<1>2. ASSUME NEW n \in {i \in Ints : 1 .. i \subseteq Ints}, SetList(n) PROVE IInv'
  <2> DEFINE large == IF n > t.sizearray THEN luaH_resizearray(t, n) ELSE t
             g == t'
  <2>1. n \in Nat /\ 1 .. n \subseteq Ints
    BY <1>2, TableAssumption DEF SetList
  <2>2. g = [large EXCEPT !.array = [i \in DOMAIN @ |-> IF i <= n THEN ValueOf(i) ELSE @[i]]]
    BY <1>2 DEF SetList
  <2>3. large = IF n > t.sizearray THEN luaH_resizearray(t, n) ELSE t
    OBVIOUS
  <2> HIDE DEF large, g
  <2>4. Sound(g)
    BY <1>0, <2>1, <2>2, <2>3, ListStores
  <2>5. cursor' = Idle
    BY <1>2 DEF SetList
  <2> QED BY <2>4, <2>5 DEF IInv, Looped, g
<1>3. ASSUME Collect PROVE IInv'
  <2>1. PICK cleared \in SUBSET (Objects \cap HashKeys(t)) :
          Collected(t, cleared, t') /\ UNCHANGED <<cursor, visited>>
    BY <1>3 DEF Collect, Collected
  <2>2. Sound(t') /\ Unmoved(t, t')
    BY <2>1, CollectIs
  <2>3. UNCHANGED <<cursor, visited>>
    BY <2>1
  <2>4. Looped'
    BY <1>0, <2>2, <2>3, UnmovedLooped
  <2> QED BY <2>2, <2>4 DEF IInv
<1>4. ASSUME Begin PROVE IInv'
  <2>1. t' = t /\ cursor' = nil /\ visited' = {}
    BY <1>4 DEF Begin
  <2>2. findindex(t, nil) = -1
    BY DEF findindex
  <2>3. \A i \in Elements(t) : ~(i <= -1)
    BY <1>0 DEF Sound, IsTable, Elements
  <2> QED BY <1>0, <2>1, <2>2, <2>3 DEF IInv, Looped
<1>5. ASSUME Advance PROVE IInv'
  <2> DEFINE i == luaH_next(t, cursor)
             k == KeyAt(t, i)
  <2>1. /\ t' = t
        /\ cursor' = IF i = -1 THEN Idle ELSE k
        /\ visited' = IF i = -1 THEN {} ELSE visited \cup {k}
    BY <1>5 DEF Advance
  <2>2. i # -1 => /\ k \in Keys /\ findindex(t, k) = i /\ i \in Elements(t)
                  /\ \A m \in Elements(t) : ValAt(t, m) # nil =>
                        ((KeyAt(t, m) \in visited \cup {k}) <=> m <= i)
    BY <1>5, AdvanceVisits
  <2>3. Elements(t) \subseteq Nat
    BY <1>0 DEF Elements, Sound, IsTable
  <2> HIDE DEF i, k
  <2>4. CASE i = -1
    BY <1>0, <2>1, <2>4 DEF IInv, Looped
  <2>5. CASE i # -1
    <3>1. cursor' = k /\ visited' = visited \cup {k} /\ findindex(t, k) \in Nat
      BY <2>1, <2>2, <2>3, <2>5
    <3> QED BY <1>0, <2>1, <2>2, <2>5, <3>1 DEF IInv, Looped
  <2> QED BY <2>4, <2>5
<1>6. ASSUME Leave PROVE IInv'
  BY <1>0, <1>6 DEF Leave, IInv, Looped
<1>7. ASSUME UNCHANGED vars PROVE IInv'
  BY <1>0, <1>7 DEF vars, IInv, Looped
<1> QED BY <1>1, <1>2, <1>3, <1>4, <1>5, <1>6, <1>7 DEF Next

LEMMA Inductive == Spec => []IInv
<1>1. Init => IInv
  BY InitInv
<1>2. IInv /\ [Next]_vars => IInv'
  BY StepInv
<1> QED BY <1>1, <1>2, PTL DEF Spec

-----------------------------------------------------------------------------
(* Every entry is found from its main position, and a node that another    *)
(* one collides with is in its own main position (ltable.c 15-17).         *)
THEOREM EntriesAreFound == Spec => []MainPosition
<1>1. ASSUME IInv PROVE MainPosition
  <2>1. SUFFICES ASSUME NEW n \in Nodes(t), t.val[n] # nil
                 PROVE  LET k  == t.key[n]
                            mp == mainposition(t, k)
                        IN  /\ NodeOf(t, k) = n
                            /\ n # mp /\ t.val[mp] # nil => mainposition(t, t.key[mp]) = mp
                            /\ ~InArray(t, k)
    BY DEF MainPosition
  <2>2. Sound(t) /\ t.key \in [Nodes(t) -> Keys \cup {nil}] /\ t.dead \in [Nodes(t) -> BOOLEAN]
    BY <1>1 DEF IInv, Sound, IsTable
  <2>3. t.key[n] \in Keys /\ t.key[n] # nil /\ ~t.dead[n]
    BY <2>1, <2>2, TableAssumption DEF Sound, FreeApart, DeadEmpty
  <2>4. NodeOf(t, t.key[n]) = n
    BY <2>2, <2>3, SeekFinds
  <2>5. mainposition(t, t.key[mainposition(t, t.key[n])]) = mainposition(t, t.key[n])
    BY <2>2, <2>3 DEF Sound, AtHome, Home
  <2>6. ~InArray(t, t.key[n])
    BY <2>2, <2>3 DEF Sound, Apart
  <2> QED BY <2>4, <2>5, <2>6
<1> QED BY <1>1, Inductive, PTL

(* A program that assigns, in a loop, only to fields that exist does not   *)
(* get the error "invalid key to 'next'" (ltable.c 155), whatever the      *)
(* collector does to the key that the loop is at.                          *)
THEOREM NextNeverFails == Spec => [](cursor # Idle => findindex(t, cursor) # -2)
<1>1. IInv => (cursor # Idle => findindex(t, cursor) # -2)
  BY DEF IInv, Looped
<1> QED BY <1>1, Inductive, PTL

-----------------------------------------------------------------------------
(* The searches for a border.                                              *)
LEMMA NumIs ==
  ASSUME NEW h, Sound(h), NEW j
  PROVE  /\ j \in 1 .. h.sizearray => getnum(h, j) = h.array[j]
         /\ h.size = 0 /\ j > h.sizearray => getnum(h, j) = nil
<1>1. ASSUME j \in 1 .. h.sizearray PROVE getnum(h, j) = h.array[j]
  <2>1. CASE j \in Ints
    <3>1. j \in Keys /\ InArray(h, j)
      BY <1>1, <2>1 DEF Keys, InArray
    <3> QED BY <2>1, <3>1, GetIs DEF getnum
  <2>2. CASE j \notin Ints
    BY <1>1, <2>2 DEF Sound, ArrayOfInts, getnum
  <2> QED BY <2>1, <2>2
<1>2. ASSUME h.size = 0, j > h.sizearray PROVE getnum(h, j) = nil
  <2>1. CASE j \in Ints
    <3>1. j \in Keys /\ ~InArray(h, j)
      BY <1>2, <2>1, TableAssumption DEF Keys, InArray, Sound, IsTable
    <3>2. Nodes(h) = {}
      BY <1>2 DEF Nodes
    <3> QED BY <2>1, <3>1, <3>2, GetIs DEF getnum
  <2>2. CASE j \notin Ints
    BY <2>2 DEF getnum
  <2> QED BY <2>1, <2>2
<1> QED BY <1>1, <1>2

(* A recursive function on an interval, from one on all numbers.           *)
Repeats(f, S, c, step, N) ==
  f \in [0 .. N -> S] /\ f[0] = c /\ \A n \in 1 .. N : f[n] = step[f[n - 1]]
LEMMA BoundedRecursion ==
  ASSUME NEW S, NEW c \in S, NEW step \in [S -> S], NEW N \in Nat
  PROVE  \E f : Repeats(f, S, c, step, N)
<1>1. PICK e \in [Nat -> S] : e[0] = c /\ \A k \in Nat : e[k + 1] = step[e[k]]
  BY NatRecursion
<1> DEFINE f == [n \in 0 .. N |-> e[n]]
<1>2. f \in [0 .. N -> S] /\ f[0] = c
  BY <1>1
<1>3. ASSUME NEW n \in 1 .. N PROVE f[n] = step[f[n - 1]]
  <2>1. n - 1 \in Nat /\ (n - 1) + 1 = n /\ n - 1 \in 0 .. N /\ n \in 0 .. N
    OBVIOUS
  <2>2. e[(n - 1) + 1] = step[e[n - 1]]
    BY <1>1, <2>1
  <2> QED BY <2>1, <2>2
<1> HIDE DEF f
<1> QED BY <1>2, <1>3 DEF Repeats

Opens(h, i) == i > 0 => getnum(h, i) # nil

LEMMA BinaryFinds ==
  ASSUME NEW h, NEW i \in Nat, NEW j \in Nat, i < j, Opens(h, i), getnum(h, j) = nil
  PROVE  LET n == binary(h, i, j)
         IN  n \in Nat /\ Opens(h, n) /\ getnum(h, n + 1) = nil
<1> DEFINE N == j - i
           start == [i |-> i, j |-> j]
           half(b) == LET m == (b.i + b.j) \div 2
                      IN  IF b.j - b.i <= 1 THEN b
                          ELSE IF getnum(h, m) = nil THEN [b EXCEPT !.j = m] ELSE [b EXCEPT !.i = m]
           halved[n \in 0 .. j - i] ==
              IF n = 0 THEN [i |-> i, j |-> j]
              ELSE LET b == halved[n - 1]
                       m == (b.i + b.j) \div 2
                   IN  IF b.j - b.i <= 1 THEN b
                       ELSE IF getnum(h, m) = nil THEN [b EXCEPT !.j = m] ELSE [b EXCEPT !.i = m]
<1>1. N \in Nat
  OBVIOUS
<1>2. binary(h, i, j) = halved[N].i
  BY DEF binary
<1>3. \E f : f = [n \in 0 .. N |-> IF n = 0 THEN start ELSE half(f[n - 1])]
  <2> DEFINE S == [i : Nat, j : Nat]
             step == [x \in S |-> half(x)]
  <2>1. start \in S
    OBVIOUS
  <2>2. ASSUME NEW x \in S PROVE half(x) \in S
    <3>1. (x.i + x.j) \div 2 \in Nat
      OBVIOUS
    <3> QED BY <3>1
  <2>3. \A x \in S : step[x] = half(x)
    OBVIOUS
  <2>4. step \in [S -> S]
    BY <2>2
  <2> HIDE DEF S, step, start, half, N
  <2>5. PICK f : Repeats(f, S, start, step, N)
    BY <1>1, <2>1, <2>4, BoundedRecursion
  <2>6. f \in [0 .. N -> S] /\ f[0] = start /\ \A n \in 1 .. N : f[n] = step[f[n - 1]]
    BY <2>5 DEF Repeats
  <2>7. ASSUME NEW n \in 0 .. N PROVE f[n] = IF n = 0 THEN start ELSE half(f[n - 1])
    <3>1. n = 0 \/ (n \in 1 .. N /\ n - 1 \in 0 .. N)
      BY <1>1
    <3>2. n \in 1 .. N => n # 0
      OBVIOUS
    <3>3. n - 1 \in 0 .. N => f[n - 1] \in S
      BY <2>6
    <3> QED BY <2>3, <2>6, <3>1, <3>2, <3>3
  <2>8. f = [n \in 0 .. N |-> IF n = 0 THEN start ELSE half(f[n - 1])]
    BY <2>6, <2>7
  <2> QED BY <2>8
<1>4. halved = [n \in 0 .. N |-> IF n = 0 THEN start ELSE half(halved[n - 1])]
  BY <1>3
<1> HIDE DEF halved, N
<1>5. halved[0] = start /\ \A n \in 1 .. N : halved[n] = half(halved[n - 1])
  <2> HIDE DEF start, half
  <2> QED BY <1>1, <1>4
<1> DEFINE Between(b) == /\ b = [i |-> b.i, j |-> b.j] /\ b.i \in Nat /\ b.j \in Nat /\ b.i < b.j
                         /\ Opens(h, b.i) /\ getnum(h, b.j) = nil
           D == {n \in Nat : n <= N => Between(halved[n]) /\ (halved[n].j - halved[n].i <= 1
                                                              \/ halved[n].j - halved[n].i <= N - n)}
<1>6. 0 \in D
  BY <1>5 DEF N
<1>7. ASSUME NEW n \in Nat, n \in D PROVE n + 1 \in D
  <2>1. SUFFICES ASSUME n + 1 <= N
                 PROVE  Between(halved[n + 1]) /\ (halved[n + 1].j - halved[n + 1].i <= 1
                                                   \/ halved[n + 1].j - halved[n + 1].i <= N - (n + 1))
    OBVIOUS
  <2> DEFINE b == halved[n]
             c == halved[n + 1]
             m == (b.i + b.j) \div 2
  <2>2. n + 1 \in 1 .. N /\ (n + 1) - 1 = n
    BY <1>1, <2>1
  <2>3. c = half(b)
    <3> HIDE DEF half
    <3> QED BY <1>5, <2>2
  <2>4. Between(b) /\ (b.j - b.i <= 1 \/ b.j - b.i <= N - n)
    BY <1>1, <1>7, <2>1
  <2>5. c = IF b.j - b.i <= 1 THEN b
            ELSE IF getnum(h, m) = nil THEN [b EXCEPT !.j = m] ELSE [b EXCEPT !.i = m]
    BY <2>3
  <2> HIDE DEF b, c
  <2>6. CASE b.j - b.i <= 1
    BY <2>4, <2>5, <2>6 DEF c
  <2>7. CASE ~(b.j - b.i <= 1)
    <3>1. m \in Nat /\ b.i < m /\ m < b.j
      BY <2>4, <2>7
    <3> HIDE DEF m
    <3>2. CASE getnum(h, m) = nil
      <4>1. c = [i |-> b.i, j |-> m]
        BY <2>4, <2>5, <2>7, <3>2
      <4>2. c.i = b.i /\ c.j = m
        BY <4>1
      <4> QED BY <1>1, <2>4, <3>1, <3>2, <4>1, <4>2 DEF c
    <3>3. CASE getnum(h, m) # nil
      <4>1. c = [i |-> m, j |-> b.j]
        BY <2>4, <2>5, <2>7, <3>3
      <4>2. c.i = m /\ c.j = b.j
        BY <4>1
      <4>3. Opens(h, m)
        BY <3>3 DEF Opens
      <4> QED BY <1>1, <2>4, <2>7, <3>1, <4>1, <4>2, <4>3 DEF c
    <3> QED BY <3>2, <3>3
  <2> QED BY <2>6, <2>7
<1> HIDE DEF D
<1>8. \A n \in Nat : n \in D
  BY <1>6, <1>7, NatSetInduction
<1>9. Between(halved[N]) /\ halved[N].j - halved[N].i <= 1
  BY <1>1, <1>8 DEF D
<1>10. halved[N].j = halved[N].i + 1
  BY <1>9
<1> QED BY <1>2, <1>9, <1>10

LEMMA LinearFinds ==
  ASSUME NEW h
  PROVE  LET n == linear(h)
         IN  n \in Nat /\ Opens(h, n) /\ getnum(h, n + 1) = nil
<1> DEFINE S == {i \in 1 .. MaxInt + 1 : getnum(h, i) = nil}
           m == Min(S)
<1>1. MaxInt \in Nat /\ MaxInt + 1 \notin Ints
  BY TableAssumption
<1>2. MaxInt + 1 \in S
  BY <1>1 DEF getnum
<1>3. m \in S /\ \A i \in S : m <= i
  <2>1. S \subseteq Nat
    OBVIOUS
  <2> HIDE DEF S
  <2> QED BY <1>2, <2>1, MinIsLeast
<1>4. linear(h) = m - 1
  BY DEF linear
<1> HIDE DEF m
<1>5. m \in 1 .. MaxInt + 1 /\ getnum(h, m) = nil
  BY <1>3
<1>6. m - 1 \in Nat /\ (m - 1) + 1 = m
  BY <1>1, <1>5
<1>7. Opens(h, m - 1)
  <2>1. ASSUME m - 1 > 0, getnum(h, m - 1) = nil PROVE FALSE
    <3>1. m - 1 \in S
      BY <1>1, <1>5, <2>1
    <3>2. m <= m - 1
      BY <1>3, <3>1
    <3> QED BY <1>1, <1>5, <3>2
  <2> QED BY <2>1 DEF Opens
<1> QED BY <1>4, <1>5, <1>6, <1>7

LEMMA UnboundFinds ==
  ASSUME NEW h, NEW j \in Nat, Opens(h, j)
  PROVE  LET n == unbound_search(h, j)
         IN  n \in Nat /\ Opens(h, n) /\ getnum(h, n + 1) = nil
<1> DEFINE start == [i |-> j, j |-> j + 1]
           twice(b) == IF getnum(h, b.j) = nil \/ 2 * b.j > MaxInt THEN b ELSE [i |-> b.j, j |-> 2 * b.j]
           doubled[n \in 0 .. MaxInt] ==
              IF n = 0 THEN [i |-> j, j |-> j + 1]
              ELSE LET b == doubled[n - 1]
                   IN  IF getnum(h, b.j) = nil \/ 2 * b.j > MaxInt THEN b ELSE [i |-> b.j, j |-> 2 * b.j]
           b == doubled[MaxInt]
<1>1. MaxInt \in Nat
  BY TableAssumption
<1>2. unbound_search(h, j) = IF getnum(h, b.j) = nil THEN binary(h, b.i, b.j) ELSE linear(h)
  BY DEF unbound_search
<1>3. \E f : f = [n \in 0 .. MaxInt |-> IF n = 0 THEN start ELSE twice(f[n - 1])]
  <2> DEFINE S == [i : Nat, j : Nat]
             step == [x \in S |-> twice(x)]
  <2>1. start \in S
    OBVIOUS
  <2>2. ASSUME NEW x \in S PROVE twice(x) \in S
    OBVIOUS
  <2>3. \A x \in S : step[x] = twice(x)
    OBVIOUS
  <2>4. step \in [S -> S]
    BY <2>2
  <2> HIDE DEF S, step, start, twice
  <2>5. PICK f : Repeats(f, S, start, step, MaxInt)
    BY <1>1, <2>1, <2>4, BoundedRecursion
  <2>6. f \in [0 .. MaxInt -> S] /\ f[0] = start /\ \A n \in 1 .. MaxInt : f[n] = step[f[n - 1]]
    BY <2>5 DEF Repeats
  <2>7. ASSUME NEW n \in 0 .. MaxInt PROVE f[n] = IF n = 0 THEN start ELSE twice(f[n - 1])
    <3>1. n = 0 \/ (n \in 1 .. MaxInt /\ n - 1 \in 0 .. MaxInt)
      BY <1>1
    <3>2. n \in 1 .. MaxInt => n # 0
      OBVIOUS
    <3>3. n - 1 \in 0 .. MaxInt => f[n - 1] \in S
      BY <2>6
    <3> QED BY <2>3, <2>6, <3>1, <3>2, <3>3
  <2>8. f = [n \in 0 .. MaxInt |-> IF n = 0 THEN start ELSE twice(f[n - 1])]
    BY <2>6, <2>7
  <2> QED BY <2>8
<1>4. doubled = [n \in 0 .. MaxInt |-> IF n = 0 THEN start ELSE twice(doubled[n - 1])]
  BY <1>3
<1> HIDE DEF doubled
<1>5. doubled[0] = start /\ \A n \in 1 .. MaxInt : doubled[n] = twice(doubled[n - 1])
  <2> HIDE DEF start, twice
  <2> QED BY <1>1, <1>4
<1> DEFINE Pair(c) == c.i \in Nat /\ c.j \in Nat /\ c.i < c.j /\ Opens(h, c.i)
           D == {n \in Nat : n <= MaxInt => Pair(doubled[n])}
<1>6. 0 \in D
  BY <1>5
<1>7. ASSUME NEW n \in Nat, n \in D PROVE n + 1 \in D
  <2>1. SUFFICES ASSUME n + 1 <= MaxInt PROVE Pair(doubled[n + 1])
    OBVIOUS
  <2>2. n + 1 \in 1 .. MaxInt /\ (n + 1) - 1 = n
    BY <1>1, <2>1
  <2> DEFINE c == doubled[n]
             d == doubled[n + 1]
  <2>3. d = twice(c)
    <3> HIDE DEF twice
    <3> QED BY <1>5, <2>2
  <2>4. Pair(c)
    BY <1>1, <1>7, <2>1
  <2> HIDE DEF c, d
  <2>5. CASE getnum(h, c.j) = nil \/ 2 * c.j > MaxInt
    <3>1. d = c
      BY <2>3, <2>5
    <3> QED BY <2>4, <3>1 DEF d
  <2>6. CASE ~(getnum(h, c.j) = nil \/ 2 * c.j > MaxInt)
    <3>1. d = [i |-> c.j, j |-> 2 * c.j] /\ getnum(h, c.j) # nil
      BY <2>3, <2>6
    <3>2. d.i = c.j /\ d.j = 2 * c.j
      BY <3>1
    <3>3. Opens(h, c.j)
      BY <3>1 DEF Opens
    <3> QED BY <2>4, <3>2, <3>3 DEF d
  <2> QED BY <2>5, <2>6
<1> HIDE DEF D
<1>8. \A n \in Nat : n \in D
  BY <1>6, <1>7, NatSetInduction
<1>9. Pair(b)
  BY <1>1, <1>8 DEF D
<1> HIDE DEF b
<1>10. CASE getnum(h, b.j) = nil
  BY <1>2, <1>9, <1>10, BinaryFinds
<1>11. CASE getnum(h, b.j) # nil
  BY <1>2, <1>11, LinearFinds
<1> QED BY <1>10, <1>11

(* The operator # gives a border: an index with a value, or 0, after which *)
(* there is none (luaH_getn), whichever of its searches finds it.          *)
THEOREM LengthIsBorder == Spec => []Border
<1>1. ASSUME IInv PROVE Border
  <2>1. Sound(t) /\ t.sizearray \in Nat /\ t.size \in Nat
    BY <1>1 DEF IInv, Sound, IsTable
  <2> DEFINE j == t.sizearray
             n == luaH_getn(t)
  <2>2. n = IF j > 0 /\ t.array[j] = nil THEN binary(t, 0, j)
            ELSE IF t.size = 0 THEN j ELSE unbound_search(t, j)
    BY DEF luaH_getn
  <2>3. j > 0 => getnum(t, j) = t.array[j]
    <3>1. j > 0 => j \in 1 .. t.sizearray
      BY <2>1
    <3> QED BY <2>1, <3>1, NumIs
  <2>4. t.size = 0 => getnum(t, j + 1) = nil
    <3>1. j + 1 > t.sizearray
      BY <2>1
    <3> QED BY <2>1, <3>1, NumIs
  <2> HIDE DEF n
  <2>5. j \in Nat
    BY <2>1
  <2> HIDE DEF j
  <2>6. n \in Nat /\ Opens(t, n) /\ getnum(t, n + 1) = nil
    <3>1. CASE j > 0 /\ t.array[j] = nil
      <4>1. 0 \in Nat /\ 0 < j /\ Opens(t, 0) /\ getnum(t, j) = nil
        BY <2>3, <2>5, <3>1 DEF Opens
      <4>2. n = binary(t, 0, j)
        BY <2>2, <3>1
      <4> QED BY <2>5, <4>1, <4>2, BinaryFinds
    <3>2. CASE ~(j > 0 /\ t.array[j] = nil)
      <4>1. Opens(t, j)
        BY <2>3, <3>2 DEF Opens
      <4>2. CASE t.size = 0
        BY <2>2, <2>4, <2>5, <3>2, <4>1, <4>2
      <4>3. CASE t.size # 0
        <5>1. n = unbound_search(t, j)
          BY <2>2, <3>2, <4>3
        <5> QED BY <2>5, <4>1, <5>1, UnboundFinds
      <4> QED BY <4>2, <4>3
    <3> QED BY <3>1, <3>2
  <2> QED BY <2>6 DEF Border, Opens, n
<1> QED BY <1>1, Inductive, PTL

-----------------------------------------------------------------------------
(* The program sees the map of LuaMap: what each step does to it.          *)
LEMMA MapBegins == ASSUME IInv, Begin PROVE Map!Begin
<1>1. cursor = Idle /\ t' = t /\ cursor' = nil /\ visited' = {}
  BY DEF Begin
<1>2. cursor' # Idle
  BY <1>1, TableAssumption
<1>3. content' = content
  BY <1>1 DEF content
<1>4. todo' = {k \in Keys : luaH_get(t, k) # nil}
  BY <1>1, <1>2 DEF todo
<1>5. Map!Present = {k \in Keys : luaH_get(t, k) # nil}
  BY DEF Map!Present, content
<1> QED BY <1>1, <1>2, <1>3, <1>4, <1>5 DEF Map!Begin

LEMMA MapLeaves == ASSUME IInv, Leave PROVE Map!Leave
<1>1. cursor # Idle /\ t' = t /\ cursor' = Idle
  BY DEF Leave
<1>2. content' = content /\ todo' = {}
  BY <1>1 DEF content, todo
<1> QED BY <1>1, <1>2 DEF Map!Leave

LEMMA MapAdvances == ASSUME IInv, Advance PROVE Map!End \/ (cursor' \in Keys /\ Map!Visit(cursor'))
<1> DEFINE i == luaH_next(t, cursor)
           k == KeyAt(t, i)
<1>1. /\ cursor # Idle /\ t' = t
      /\ cursor' = IF i = -1 THEN Idle ELSE k
      /\ visited' = IF i = -1 THEN {} ELSE visited \cup {k}
  BY DEF Advance
<1>2. /\ i = -1 => \A j \in Keys : luaH_get(t, j) # nil => j \in visited
      /\ i # -1 => k \in Keys /\ luaH_get(t, k) # nil /\ k \notin visited
  BY AdvanceVisits
<1> HIDE DEF i, k
<1>3. content' = content
  BY <1>1 DEF content
<1>4. todo = {j \in Keys \ visited : luaH_get(t, j) # nil}
  BY <1>1 DEF todo
<1>5. CASE i = -1
  <2>1. cursor' = Idle /\ todo = {}
    BY <1>1, <1>2, <1>4, <1>5
  <2>2. todo' = {}
    BY <2>1 DEF todo
  <2> QED BY <1>1, <1>3, <2>1, <2>2 DEF Map!End
<1>6. CASE i # -1
  <2>1. cursor' = k /\ cursor' # Idle /\ k \in Keys
    BY <1>1, <1>2, <1>6, TableAssumption
  <2>2. todo' = {j \in Keys \ (visited \cup {k}) : luaH_get(t, j) # nil}
    BY <1>1, <1>6, <2>1 DEF todo
  <2>3. k \in todo /\ todo' = todo \ {k}
    BY <1>2, <1>4, <1>6, <2>2
  <2> QED BY <1>1, <1>3, <2>1, <2>3 DEF Map!Visit
<1> QED BY <1>5, <1>6

LEMMA MapAssigns ==
  ASSUME IInv, NEW k \in Keys, Assign(k)
  PROVE  UNCHANGED Map!vars \/ \E j \in Changed : Map!Assign(j, luaH_get(t', j))
<1>1. PICK v \in {nil, ValueOf(k)} : /\ cursor # Idle => luaH_get(t, k) # nil
                                     /\ t' = luaH_set(t, k, v)
                                     /\ UNCHANGED <<cursor, visited>>
  BY DEF Assign
<1>2. v \in Values /\ Sound(t)
  BY ValueIsValue DEF IInv
<1>3. \A j \in Keys : luaH_get(t', j) = IF j = k THEN v ELSE luaH_get(t, j)
  <2>1. WasSet(t, luaH_set(t, k, v), k, v)
    BY <1>2, SetStores
  <2> QED BY <1>1, <2>1 DEF WasSet
<1>4. content' = [content EXCEPT ![k] = v] /\ content[k] = luaH_get(t, k)
  <2>1. content' = [j \in Keys |-> IF j = k THEN v ELSE luaH_get(t, j)]
    BY <1>3 DEF content
  <2> QED BY <2>1 DEF content
<1>5. cursor' = cursor /\ visited' = visited
  BY <1>1
<1>6. CASE v = luaH_get(t, k)
  <2>1. \A j \in Keys : luaH_get(t', j) = luaH_get(t, j)
    BY <1>3, <1>6
  <2>2. content' = content
    BY <2>1 DEF content
  <2>3. todo' = todo
    BY <1>5, <2>1 DEF todo
  <2> QED BY <1>5, <2>2, <2>3 DEF Map!vars
<1>7. CASE v # luaH_get(t, k)
  <2>1. k \in Changed /\ luaH_get(t', k) = v
    BY <1>3, <1>7 DEF Changed
  <2>2. todo' = IF v = nil THEN todo \ {k} ELSE todo
    <3>1. CASE cursor = Idle
      BY <1>5, <3>1 DEF todo
    <3>2. CASE cursor # Idle
      <4>1. todo = {j \in Keys \ visited : luaH_get(t, j) # nil}
        BY <3>2 DEF todo
      <4>2. todo' = {j \in Keys \ visited : luaH_get(t', j) # nil}
        BY <1>5, <3>2 DEF todo
      <4>3. \A j \in Keys : luaH_get(t', j) # nil <=> luaH_get(t, j) # nil /\ ~(v = nil /\ j = k)
        BY <1>1, <1>3, <3>2
      <4>4. todo' = {j \in todo : ~(v = nil /\ j = k)}
        BY <4>1, <4>2, <4>3
      <4> QED BY <4>4
    <3> QED BY <3>1, <3>2
  <2>3. Map!Assign(k, v)
    BY <1>1, <1>4, <1>5, <2>2 DEF Map!Assign
  <2> QED BY <2>1, <2>3
<1> QED BY <1>6, <1>7

LEMMA MapAssignsList ==
  ASSUME IInv, NEW n \in {i \in Ints : 1 .. i \subseteq Ints}, SetList(n)
  PROVE  Map!AssignList([i \in 1 .. n |-> ValueOf(i)])
<1> DEFINE large == IF n > t.sizearray THEN luaH_resizearray(t, n) ELSE t
           g == t'
           V == [i \in 1 .. n |-> ValueOf(i)]
<1>1. n \in Nat /\ 1 .. n \subseteq Ints /\ cursor = Idle /\ UNCHANGED <<cursor, visited>>
  BY TableAssumption DEF SetList
<1>2. g = [large EXCEPT !.array = [i \in DOMAIN @ |-> IF i <= n THEN ValueOf(i) ELSE @[i]]]
  BY DEF SetList
<1>3. large = IF n > t.sizearray THEN luaH_resizearray(t, n) ELSE t
  OBVIOUS
<1>4. Sound(t)
  BY DEF IInv
<1> HIDE DEF large, g
<1>5. \A j \in Keys : luaH_get(g, j) = IF j \in 1 .. n THEN ValueOf(j) ELSE luaH_get(t, j)
  BY <1>1, <1>2, <1>3, <1>4, ListStores
<1>6. content' = [k \in Keys |-> IF k \in DOMAIN V THEN V[k] ELSE content[k]]
  <2>1. \A j \in Keys : luaH_get(g, j) = IF j \in DOMAIN V THEN V[j] ELSE content[j]
    BY <1>5 DEF content
  <2> HIDE DEF V
  <2>2. content' = [j \in Keys |-> luaH_get(g, j)]
    BY DEF content, g
  <2> QED BY <2>1, <2>2
<1>7. todo' = todo
  BY <1>1 DEF todo
<1> HIDE DEF V
<1>8. Map!AssignList(V)
  BY <1>1, <1>6, <1>7 DEF Map!AssignList
<1> QED BY <1>8 DEF V

LEMMA MapIsCleared ==
  ASSUME IInv, Collect
  PROVE  Changed \subseteq Objects /\ Map!Clear(Changed)
<1>1. PICK cleared \in SUBSET (Objects \cap HashKeys(t)) :
          Collected(t, cleared, t') /\ UNCHANGED <<cursor, visited>>
  BY DEF Collect, Collected
<1>2. \A j \in Keys : luaH_get(t', j) = IF j \in cleared THEN nil ELSE luaH_get(t, j)
  BY <1>1, CollectIs
<1>3. cursor' = cursor /\ visited' = visited
  BY <1>1
<1>4. Changed \subseteq cleared /\ cleared \subseteq Objects
  BY <1>2 DEF Changed
<1>5. \A j \in Keys : luaH_get(t', j) = IF j \in Changed THEN nil ELSE luaH_get(t, j)
  BY <1>2 DEF Changed
<1> HIDE DEF Changed
<1>6. content' = [k \in Keys |-> IF k \in Changed THEN nil ELSE content[k]]
  <2>1. \A j \in Keys : luaH_get(t', j) = IF j \in Changed THEN nil ELSE content[j]
    BY <1>5 DEF content
  <2>2. content' = [j \in Keys |-> luaH_get(t', j)]
    BY DEF content
  <2> QED BY <2>1, <2>2
<1>7. todo' = todo \ Changed
  BY <1>3, <1>5 DEF todo
<1>8. Map!Clear(Changed)
  BY <1>3, <1>6, <1>7 DEF Map!Clear
<1> QED BY <1>4, <1>8

(* The table implements the map of LuaMap: an assignment, with all that it *)
(* moves, changes one value, a collection only empties entries of objects, *)
(* and a loop visits every entry once and ends when none is left.          *)
THEOREM TableIsMap == Spec => IsMap
<1>1. Init => Map!Init
  <2>1. SUFFICES ASSUME Init PROVE Map!Init
    OBVIOUS
  <2>2. PICK narray \in Narrays, nhash \in Nhashes : t = luaH_new(narray, nhash)
    BY <2>1 DEF Init
  <2>3. narray \in Nat /\ nhash \in Nat
    BY TableAssumption
  <2>4. \A j \in Keys : luaH_get(t, j) = nil
    BY <2>2, <2>3, NewIsEmpty
  <2>5. content = [k \in Keys |-> nil]
    BY <2>4 DEF content
  <2>6. cursor = Idle /\ todo = {}
    BY <2>1 DEF Init, todo
  <2> QED BY <2>5, <2>6 DEF Map!Init
<1>2. IInv /\ [Next]_vars => [MapStep]_(Map!vars)
  <2> SUFFICES ASSUME IInv, [Next]_vars PROVE MapStep \/ UNCHANGED Map!vars
    OBVIOUS
  <2>1. ASSUME NEW k \in Keys, Assign(k) PROVE MapStep \/ UNCHANGED Map!vars
    BY <2>1, MapAssigns DEF MapStep
  <2>2. ASSUME NEW n \in {i \in Ints : 1 .. i \subseteq Ints}, SetList(n) PROVE MapStep
    <3>1. n \in Ints /\ Map!AssignList([i \in 1 .. n |-> ValueOf(i)])
      BY <2>2, MapAssignsList
    <3> QED BY <3>1 DEF MapStep
  <2>3. ASSUME Collect PROVE MapStep
    BY <2>3, MapIsCleared DEF MapStep
  <2>4. ASSUME Begin PROVE MapStep
    BY <2>4, MapBegins DEF MapStep
  <2>5. ASSUME Advance PROVE MapStep
    BY <2>5, MapAdvances DEF MapStep, LoopStep
  <2>6. ASSUME Leave PROVE MapStep
    BY <2>6, MapLeaves DEF MapStep
  <2>7. ASSUME UNCHANGED vars PROVE UNCHANGED Map!vars
    BY <2>7 DEF vars, Map!vars, content, todo
  <2> QED BY <2>1, <2>2, <2>3, <2>4, <2>5, <2>6, <2>7 DEF Next
<1>3. IInv => [Advance => LoopStep]_vars
  BY MapAdvances DEF LoopStep
<1> QED BY <1>1, <1>2, <1>3, Inductive, PTL DEF Spec, IsMap

-----------------------------------------------------------------------------
(* computesizes looks only at powers of two that a key lies just below: no *)
(* other can be the best size, for the keys below one are different.       *)
LEMMA SizesAreBest ==
  ASSUME NEW keys \in SUBSET Keys
  PROVE  computesizes(Candidates(keys)) = BestSize(keys)
<1> DEFINE ints == Candidates(keys)
           C == Cardinality(ints)
           Half(i) == twoto[i] \div 2
           Below(n) == {k \in ints : k <= n}
           Counted(j) == /\ Half(j) < C
                         /\ \E k \in ints : Half(j) < k /\ k <= twoto[j]
                         /\ Cardinality(Below(twoto[j])) > Half(j)
           A == {twoto[i] : i \in {j \in 0 .. C : Counted(j)}}
           B == {n \in {twoto[i] : i \in 0 .. MaxInt} : 2 * Cardinality(Below(n)) > n}
<1>1. computesizes(ints) = Max({0} \cup A)
  BY DEF computesizes
<1>2. BestSize(keys) = Max({0} \cup B)
  <2>1. ASSUME NEW n PROVE Below(n) = {j \in keys \cap Ints : 1 <= j /\ j <= n}
    <3>1. \A j \in Ints : j > 0 <=> 1 <= j
      BY TableAssumption
    <3> QED BY <3>1 DEF Candidates
  <2> HIDE DEF Below
  <2>2. B = {n \in {twoto[i] : i \in 0 .. MaxInt} :
               2 * Cardinality({j \in keys \cap Ints : 1 <= j /\ j <= n}) > n}
    BY <2>1
  <2> HIDE DEF B
  <2> QED BY <2>2 DEF BestSize
<1>3. /\ MaxInt \in Nat
      /\ ints \in SUBSET Keys /\ \A k \in ints : k \in Nat /\ 0 < k /\ k <= MaxInt
  <2>1. \A k \in Ints : k \in Int /\ k <= MaxInt
    BY TableAssumption
  <2>2. MaxInt \in Nat
    BY TableAssumption
  <2> QED BY <2>1, <2>2 DEF Candidates
<1> HIDE DEF ints
<1>4. IsFiniteSet(ints) /\ C \in Nat
  BY <1>3, TableAssumption, FS_Subset, FS_CardinalityType
<1>5. ASSUME NEW n \in Nat
      PROVE  Cardinality(Below(n)) \in Nat /\ Cardinality(Below(n)) <= n /\ Cardinality(Below(n)) <= C
  <2>1. Below(n) \in SUBSET ints /\ Below(n) \in SUBSET (1 .. n)
    BY <1>3
  <2> HIDE DEF Below
  <2>2. IsFiniteSet(Below(n)) /\ Cardinality(Below(n)) <= C
    BY <1>4, <2>1, FS_Subset
  <2>3. IsFiniteSet(1 .. n) /\ Cardinality(1 .. n) = n
    <3>1. IsFiniteSet(1 .. n) /\ Cardinality(1 .. n) = IF 1 > n THEN 0 ELSE n - 1 + 1
      BY FS_Interval
    <3> QED BY <3>1
  <2>4. Cardinality(Below(n)) <= Cardinality(1 .. n)
    BY <2>1, <2>3, FS_Subset
  <2> QED BY <2>2, <2>3, <2>4, FS_CardinalityType
<1>6. ASSUME NEW i \in Nat
      PROVE  /\ Half(i) \in Nat /\ i <= Half(i) /\ twoto[i] \in Nat
             /\ (twoto[i] = 2 * Half(i) \/ (twoto[i] = 1 /\ Half(i) = 0))
  <2>1. CASE i = 0
    <3>1. twoto[i] = 1
      BY <2>1, TwoTo
    <3> QED BY <2>1, <3>1
  <2>2. CASE i # 0
    <3>1. i - 1 \in Nat /\ (i - 1) + 1 = i
      BY <2>2
    <3>2. twoto[i] = 2 * twoto[i - 1] /\ twoto[i - 1] \in Nat /\ i - 1 < twoto[i - 1]
      BY <3>1, TwoTo
    <3>3. Half(i) = twoto[i - 1]
      BY <3>2
    <3> HIDE DEF Half
    <3> QED BY <3>1, <3>2, <3>3
  <2> QED BY <2>1, <2>2
<1> HIDE DEF Half
<1>7. ASSUME NEW i \in Nat
      PROVE  Cardinality(Below(twoto[i])) > Half(i) <=> 2 * Cardinality(Below(twoto[i])) > twoto[i]
  <2>1. Cardinality(Below(twoto[i])) \in Nat
    BY <1>5, <1>6
  <2> HIDE DEF Below
  <2> QED BY <1>6, <2>1
<1>8. ASSUME NEW x \in A PROVE x \in B
  <2>1. PICK j \in 0 .. C : x = twoto[j] /\ Counted(j)
    OBVIOUS
  <2>2. j \in Nat
    BY <1>4, <2>1
  <2>3. PICK k \in ints : Half(j) < k
    BY <2>1
  <2>4. j \in 0 .. MaxInt
    BY <1>3, <1>6, <2>2, <2>3
  <2>5. 2 * Cardinality(Below(x)) > x
    BY <1>7, <2>1, <2>2
  <2> HIDE DEF Below
  <2> QED BY <2>1, <2>4, <2>5
<1>9. ASSUME NEW x \in B PROVE x \in A
  <2>0. x \in {twoto[i] : i \in 0 .. MaxInt} /\ 2 * Cardinality(Below(x)) > x
    <3> HIDE DEF Below
    <3> QED OBVIOUS
  <2>1. PICK i \in 0 .. MaxInt : x = twoto[i]
    BY <2>0
  <2>2. i \in Nat /\ 2 * Cardinality(Below(twoto[i])) > twoto[i]
    <3> HIDE DEF Below, B
    <3> QED BY <1>3, <2>0, <2>1
  <2>3. Cardinality(Below(twoto[i])) > Half(i)
    BY <1>7, <2>2
  <2>4. Half(i) < C /\ i \in 0 .. C
    <3>1. Cardinality(Below(twoto[i])) \in Nat /\ Cardinality(Below(twoto[i])) <= C
      BY <1>5, <1>6, <2>2
    <3> HIDE DEF Below, C
    <3> QED BY <1>4, <1>6, <2>2, <2>3, <3>1
  <2>5. \E k \in ints : Half(i) < k /\ k <= twoto[i]
    <3>1. SUFFICES ASSUME \A k \in Below(twoto[i]) : ~(Half(i) < k) PROVE FALSE
      OBVIOUS
    <3>2. Half(i) \in Nat
      BY <1>6, <2>2
    <3>3. Below(twoto[i]) \in SUBSET Below(Half(i)) /\ Below(Half(i)) \in SUBSET ints
      BY <1>3, <3>1, <3>2
    <3> HIDE DEF Below
    <3>4. IsFiniteSet(Below(Half(i)))
      BY <1>4, <3>3, FS_Subset
    <3>5. Cardinality(Below(twoto[i])) <= Cardinality(Below(Half(i)))
      BY <3>3, <3>4, FS_Subset
    <3>6. Cardinality(Below(Half(i))) \in Nat /\ Cardinality(Below(Half(i))) <= Half(i)
      BY <1>5, <3>2
    <3>7. Cardinality(Below(twoto[i])) \in Nat
      BY <1>5, <1>6, <2>2
    <3> QED BY <2>3, <3>2, <3>5, <3>6, <3>7
  <2>6. Counted(i)
    BY <2>3, <2>4, <2>5
  <2> HIDE DEF Counted
  <2> QED BY <2>1, <2>4, <2>6
<1>10. A = B
  <2> HIDE DEF A, B
  <2> QED BY <1>8, <1>9
<1> QED BY <1>1, <1>2, <1>10 DEF ints

(* An assignment that changes the sizes leaves an array part of the best   *)
(* size for the keys that are then in use, each of which has a slot or a   *)
(* node (rehash, computesizes, resize).                                    *)
THEOREM SizesAreWellChosen == Spec => ArrayWellUsed
<1>1. ASSUME IInv, Resized, NEW k \in Keys, Assign(k)
      PROVE  /\ t'.sizearray = BestSize(InUse(t', k))
             /\ \A j \in InUse(t', k) : InArray(t', j) \/ NodeOf(t', j) # NULL
  <2> DEFINE g == t'
  <2>1. PICK v \in {nil, ValueOf(k)} : g = luaH_set(t, k, v)
    BY <1>1 DEF Assign
  <2>2. v \in Values /\ Sound(t)
    BY <1>1, ValueIsValue DEF IInv
  <2>3. WasSet(t, luaH_set(t, k, v), k, v)
    BY <2>2, SetStores
  <2> HIDE DEF g
  <2>4. /\ \A j \in Keys : luaH_get(g, j) = IF j = k THEN v ELSE luaH_get(t, j)
        /\ InArray(g, k) \/ NodeOf(g, k) # NULL
        /\ SameShape(t, g) \/ g.sizearray = computesizes(Candidates(UsedKeys(t) \cup {k}))
    BY <2>1, <2>3 DEF WasSet
  <2>5. UsedKeys(t) = {j \in Keys : luaH_get(t, j) # nil}
    BY <2>2, UsedHaveValues
  <2>6. InUse(g, k) = UsedKeys(t) \cup {k}
    BY <2>4, <2>5 DEF InUse
  <2>7. UsedKeys(t) \cup {k} \in SUBSET Keys
    BY <2>5
  <2>8. ~SameShape(t, g)
    BY <1>1 DEF Resized, SameShape, g
  <2>9. g.sizearray = BestSize(InUse(g, k))
    BY <2>4, <2>6, <2>7, <2>8, SizesAreBest
  <2>10. ASSUME NEW j \in InUse(g, k) PROVE InArray(g, j) \/ NodeOf(g, j) # NULL
    <3>1. j = k \/ luaH_get(g, j) # nil
      BY DEF InUse
    <3> QED BY <2>4, <3>1 DEF luaH_get
  <2> QED BY <2>9, <2>10 DEF g
<1>2. IInv /\ [Next]_vars =>
        [Resized => \A k \in Keys : Assign(k) =>
            /\ t'.sizearray = BestSize(InUse(t', k))
            /\ \A j \in InUse(t', k) : InArray(t', j) \/ NodeOf(t', j) # NULL]_vars
  BY <1>1
<1> QED BY <1>2, Inductive, PTL DEF Spec, ArrayWellUsed
=============================================================================
