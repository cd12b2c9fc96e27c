--------------------------- MODULE LuaSort_proofs ---------------------------
(***************************************************************************)
(* No sort loses an element, leaves the array or keeps more calls waiting  *)
(* than the array has halvings, whatever the function answers, and an      *)
(* order keeps it within the range that is being sorted, and sorts it: for *)
(* arrays of any length.                                                   *)
(***************************************************************************)
EXTENDS LuaSort, SequenceFacts, FiniteSetTheorems

Functions1 == [Anything \X Anything -> (SUBSET Answers) \ {{}}]
Ranges == (1 .. n + 2) \X (0 .. n)
Shape  == /\ given \in Seq(Values) /\ less \in Functions1
          /\ a \in [Cells -> Anything]
          /\ l \in 1 .. n + 2 /\ u \in 0 .. n /\ i \in Int /\ j \in Int /\ todo \in Seq(Ranges)
Place  == /\ pc \in {"middle", "high"} => l + 2 <= u /\ l < i /\ i < u
          /\ pc = "up" => l + 3 <= u /\ l <= i /\ i <= u /\ l < j /\ j < u
          /\ pc = "down" => l + 3 <= u /\ l < i /\ i <= u + 1 /\ l <= j /\ j < u
Sentinels == /\ \A k \in 1 .. n : a[k] \in Values
             /\ pc \in {"middle", "high"} => ~Less(a[u], a[l])
             /\ pc = "high" => ~Less(a[i], a[l])
             /\ pc \in {"up", "down"} => P \in Values /\ a[u - 1] = P /\ ~Less(P, a[l])
             /\ pc = "down" => i < u
Inv == Shape /\ Place /\ SameElements(a, Table) /\ (IsOrder => Sentinels /\ InRange)

-----------------------------------------------------------------------------
(* The number of elements.                                                 *)
LEMMA LengthIsNat ==
  ASSUME given \in Seq(Values)
  PROVE  n \in Nat /\ IsFiniteSet(Cells) /\ \A k \in 1 .. n : given[k] \in Values
<1>1. n \in Nat /\ \A k \in 1 .. n : given[k] \in Values
  BY ElementOfSeq, LenProperties DEF n
<1>2. IsFiniteSet(0 .. n + 1)
  BY <1>1, FS_Interval
<1> QED BY <1>1, <1>2 DEF Cells

(* Swapping two cells moves no value in or out.                            *)
LEMMA SwapKeeps ==
  ASSUME given \in Seq(Values), NEW b \in [Cells -> Anything], NEW x \in Cells, NEW y \in Cells
  PROVE  /\ set2(b, x, y) \in [Cells -> Anything]
         /\ set2(b, x, y)[x] = b[y] /\ set2(b, x, y)[y] = b[x]
         /\ \A k \in Cells \ {x, y} : set2(b, x, y)[k] = b[k]
         /\ SameElements(b, Table) => SameElements(set2(b, x, y), Table)
<1> DEFINE c == set2(b, x, y)
           other(k) == IF k = x THEN y ELSE IF k = y THEN x ELSE k
<1>1. /\ c \in [Cells -> Anything] /\ c[x] = b[y] /\ c[y] = b[x]
      /\ \A k \in Cells \ {x, y} : c[k] = b[k]
  BY DEF set2
<1>2. ASSUME NEW v PROVE Count(c, v) = Count(b, v)
  <2> DEFINE A == {k \in Cells : b[k] = v}
             B == {k \in Cells : c[k] = v}
             f == [k \in A |-> other(k)]
  <2>1. \A k \in Cells : other(k) \in Cells /\ c[other(k)] = b[k] /\ other(other(k)) = k /\ b[other(k)] = c[k]
    BY <1>1
  <2>2. f \in [A -> B]
    BY <2>1
  <2>3. \A k, m \in A : f[k] = f[m] => k = m
    BY <2>1
  <2>4. \A m \in B : \E k \in A : f[k] = m
    BY <2>1
  <2>5. f \in Bijection(A, B)
    BY <2>2, <2>3, <2>4 DEF Bijection, Injection, Surjection, IsInjective
  <2>6. IsFiniteSet(A)
    BY LengthIsNat, FS_Subset
  <2>7. ExistsBijection(A, B)
    BY <2>5 DEF ExistsBijection
  <2> QED BY <2>6, <2>7, FS_Bijection DEF Count
<1>3. SameElements(b, Table) => SameElements(c, Table)
  BY <1>2 DEF SameElements
<1> QED BY <1>1, <1>3

(* Which two elements are compared.                                        *)
LEMMA Asked ==
  ASSUME NEW answer, sort_comp(answer)
  PROVE  /\ pc = "low" => l < u /\ answer \in less[<<a[u], a[l]>>]
         /\ pc = "middle" => answer \in less[<<a[i], a[l]>>]
         /\ pc = "high" => answer \in less[<<a[u], a[i]>>]
         /\ pc = "up" => answer \in less[<<a[i + 1], P>>]
         /\ pc = "down" => answer \in less[<<P, a[j - 1]>>]
<1>1. Compared # <<>> /\ answer \in less[Compared]
  BY DEF sort_comp
<1>2. pc = "low" => l < u /\ Compared = <<a[u], a[l]>>
  BY <1>1 DEF Compared
<1>3. /\ pc = "middle" => Compared = <<a[i], a[l]>>
      /\ pc = "high" => Compared = <<a[u], a[i]>>
      /\ pc = "up" => Compared = <<a[i + 1], P>>
      /\ pc = "down" => Compared = <<P, a[j - 1]>>
  BY DEF Compared
<1> QED BY <1>1, <1>2, <1>3

(* What the answer of an order means.                                      *)
LEMMA Answered ==
  ASSUME IsOrder, NEW x \in Values, NEW y \in Values, NEW answer \in less[<<x, y>>]
  PROVE  /\ answer = "yes" => Less(x, y) /\ ~Less(y, x)
         /\ answer = "no" => ~Less(x, y)
<1>1. less[<<x, y>>] \in {{"yes"}, {"no"}} /\ ~(Less(x, y) /\ Less(y, x))
  BY DEF IsOrder
<1>2. answer = "yes" => less[<<x, y>>] = {"yes"}
  BY <1>1
<1>3. answer = "no" => less[<<x, y>>] # {"yes"}
  BY <1>1
<1> QED BY <1>1, <1>2, <1>3 DEF Less

-----------------------------------------------------------------------------
(* What is the same in the next state.                                     *)
LEMMA Constants ==
  ASSUME UNCHANGED <<less, given>>
  PROVE  /\ n' = n /\ Cells' = Cells /\ Table' = Table /\ Ranges' = Ranges
         /\ IsOrder' = IsOrder
         /\ \A x, y : Less(x, y)' = Less(x, y)
         /\ \A b : SameElements(b, Table)' = SameElements(b, Table)
<1>1. n' = n /\ Cells' = Cells
  BY DEF n, Cells
<1>2. Table' = Table /\ Ranges' = Ranges
  BY <1>1 DEF Table, Ranges
<1>3. IsOrder' = IsOrder
  BY DEF IsOrder, Less
<1>4. \A x, y : Less(x, y)' = Less(x, y)
  BY DEF Less
<1> QED BY <1>1, <1>2, <1>3, <1>4 DEF SameElements, Count

LEMMA ReturnTyped ==
  ASSUME Shape, UNCHANGED given, Return
  PROVE  l' \in 1 .. n + 2 /\ u' \in 0 .. n /\ todo' \in Seq(Ranges) /\ pc' \in {"low", "done"}
<1>1. CASE todo = <<>>
  BY <1>1 DEF Return, Shape
<1>2. CASE todo # <<>>
  <2>1. Len(todo) \in 1 .. Len(todo)
    BY <1>2, EmptySeq DEF Shape
  <2>2. todo[Len(todo)] \in Ranges
    BY <2>1, ElementOfSeq DEF Shape
  <2>3. SubSeq(todo, 1, Len(todo) - 1) \in Seq(Ranges)
    BY <2>1, ElementOfSeq, SubSeqProperties DEF Shape
  <2> QED BY <1>2, <2>2, <2>3 DEF Return, Sort, Ranges
<1> QED BY <1>1, <1>2

(* Outside of the loops, little is to be shown.                            *)
LEMMA Between ==
  ASSUME Shape', SameElements(a, Table)', IsOrder' => \A k \in 1 .. n' : a'[k] \in Values,
         pc' \notin {"middle", "high", "up", "down"}
  PROVE  Inv'
BY DEF Inv, Place, Sentinels, InRange

-----------------------------------------------------------------------------
(* Each step keeps the invariant.                                          *)
LEMMA InitInv ==
  ASSUME Init
  PROVE  Inv
<1>1. given \in Seq(Values) /\ less \in Functions1
  BY Arguments DEF Init, Functions1
<1>2. n \in Nat /\ \A k \in 1 .. n : given[k] \in Values
  BY <1>1, LengthIsNat
<1>3. a \in [Cells -> Anything] /\ \A k \in 1 .. n : a[k] \in Values
  BY <1>2 DEF Init, Table, Cells, Anything
<1>4. Shape
  BY <1>1, <1>2, <1>3, EmptySeq DEF Init, Shape
<1> QED BY <1>3, <1>4 DEF Init, Inv, Place, SameElements, Sentinels, InRange

LEMMA ShortInv ==
  ASSUME Inv, UNCHANGED <<less, given>>, Short
  PROVE  Inv'
<1>1. l' \in 1 .. n + 2 /\ u' \in 0 .. n /\ todo' \in Seq(Ranges) /\ pc' \in {"low", "done"}
  BY ReturnTyped DEF Inv, Short
<1>2. Shape' /\ SameElements(a, Table)'
  BY <1>1, Constants DEF Inv, Shape, Short
<1>3. IsOrder' => \A k \in 1 .. n' : a'[k] \in Values
  BY Constants DEF Inv, Sentinels, Short
<1> QED BY <1>1, <1>2, <1>3, Between

LEMMA LowInv ==
  ASSUME Inv, UNCHANGED <<less, given>>, NEW answer \in {"yes", "no"}, Low(answer)
  PROVE  Inv'
<1>1. pc = "low" /\ l < u /\ answer \in less[<<a[u], a[l]>>]
  BY Asked DEF Low
<1>2. n \in Nat /\ l \in 1 .. n /\ u \in 1 .. n /\ l \in Cells /\ u \in Cells
  BY <1>1, LengthIsNat DEF Inv, Shape, Cells
<1>3. /\ set2(a, l, u) \in [Cells -> Anything] /\ SameElements(set2(a, l, u), Table)
      /\ set2(a, l, u)[l] = a[u] /\ set2(a, l, u)[u] = a[l]
      /\ \A k \in Cells \ {l, u} : set2(a, l, u)[k] = a[k]
  BY <1>2, SwapKeeps DEF Inv, Shape
<1>4. a' \in [Cells -> Anything] /\ SameElements(a', Table)
  BY <1>3 DEF Low, Inv, Shape
<1>5. ASSUME IsOrder
      PROVE  (\A k \in 1 .. n : a'[k] \in Values) /\ ~Less(a'[u], a'[l])
  <2>1. (\A k \in 1 .. n : a[k] \in Values) /\ 1 .. n \subseteq Cells
    BY <1>2, <1>5 DEF Inv, Sentinels, Cells
  <2>2. /\ answer = "yes" => Less(a[u], a[l]) /\ ~Less(a[l], a[u])
        /\ answer = "no" => ~Less(a[u], a[l])
    BY <1>1, <1>2, <1>5, <2>1, Answered
  <2>3. CASE answer = "yes"
    <3>1. a' = set2(a, l, u)
      BY <2>3 DEF Low
    <3> QED BY <1>2, <1>3, <2>1, <2>2, <2>3, <3>1
  <2>4. CASE answer = "no"
    BY <2>1, <2>2, <2>4 DEF Low
  <2> QED BY <2>3, <2>4
<1>6. CASE u - l = 1
  <2>1. l' \in 1 .. n + 2 /\ u' \in 0 .. n /\ todo' \in Seq(Ranges) /\ pc' \in {"low", "done"}
    BY <1>6, ReturnTyped DEF Inv, Low
  <2>2. Shape' /\ SameElements(a, Table)'
    BY <1>4, <1>6, <2>1, Constants DEF Inv, Shape, Low
  <2> QED BY <1>5, <2>1, <2>2, Constants, Between
<1>7. CASE u - l # 1
  <2>1. pc' = "middle" /\ i' = (l + u) \div 2 /\ UNCHANGED <<l, u, j, P, todo>>
    BY <1>7 DEF Low
  <2>2. l + 2 <= u /\ i' \in Int /\ l < i' /\ i' < u
    BY <1>1, <1>2, <1>7, <2>1
  <2>3. Shape' /\ SameElements(a, Table)' /\ Place'
    BY <1>4, <2>1, <2>2, Constants DEF Inv, Shape, Place
  <2>4. IsOrder' => Sentinels' /\ InRange'
    BY <1>5, <2>1, Constants DEF Sentinels, InRange
  <2> QED BY <2>3, <2>4 DEF Inv
<1> QED BY <1>6, <1>7

LEMMA PartitionInv ==
  ASSUME Inv, UNCHANGED <<less, given>>, pc \in {"middle", "high"},
         NEW b \in [Cells -> Anything], SameElements(b, Table), Partition(b),
         IsOrder => (\A k \in 1 .. n : b[k] \in Values) /\ ~Less(b[i], b[l])
  PROVE  Inv'
<1>1. n \in Nat /\ l \in 1 .. n /\ u \in 1 .. n /\ i \in Int /\ l + 2 <= u /\ l < i /\ i < u
  BY LengthIsNat DEF Inv, Shape, Place
<1>2. CASE u - l = 2
  <2>1. l' \in 1 .. n + 2 /\ u' \in 0 .. n /\ todo' \in Seq(Ranges) /\ pc' \in {"low", "done"}
    BY <1>2, ReturnTyped DEF Inv, Partition
  <2>2. Shape' /\ SameElements(a, Table)'
    BY <1>2, <2>1, Constants DEF Inv, Shape, Partition
  <2>3. IsOrder' => \A k \in 1 .. n' : a'[k] \in Values
    BY <1>2, Constants DEF Partition
  <2> QED BY <2>1, <2>2, <2>3, Between
<1>3. CASE u - l # 2
  <2> DEFINE c == set2(b, i, u - 1)
  <2>1. /\ a' = c /\ P' = b[i] /\ i' = l /\ j' = u - 1 /\ pc' = "up"
        /\ UNCHANGED <<l, u, todo>>
    BY <1>3 DEF Partition
  <2>2. l + 3 <= u /\ i \in Cells /\ u - 1 \in Cells /\ l \in Cells /\ l \notin {i, u - 1}
    BY <1>1, <1>3 DEF Cells
  <2>3. /\ c \in [Cells -> Anything] /\ c[i] = b[u - 1] /\ c[u - 1] = b[i]
        /\ \A k \in Cells \ {i, u - 1} : c[k] = b[k]
        /\ SameElements(c, Table)
    <3> HIDE DEF c
    <3> QED BY <2>2, SwapKeeps DEF Inv, Shape, c
  <2> HIDE DEF c
  <2>4. Shape' /\ SameElements(a, Table)'
    BY <1>1, <2>1, <2>3, Constants DEF Inv, Shape
  <2>5. Place'
    BY <1>1, <2>1, <2>2 DEF Place
  <2>6. ASSUME IsOrder PROVE Sentinels' /\ InRange'
    <3>1. 1 .. n \subseteq Cells /\ i \in 1 .. n /\ u - 1 \in 1 .. n
      BY <1>1 DEF Cells
    <3>2. \A k \in 1 .. n : c[k] \in Values
      BY <2>3, <2>6, <3>1
    <3>3. P' \in Values /\ a'[u' - 1] = P' /\ ~Less(P', a'[l'])
      BY <2>1, <2>2, <2>3, <2>6, <3>1
    <3>4. Sentinels'
      BY <2>1, <3>2, <3>3, Constants DEF Sentinels
    <3> QED BY <1>1, <2>1, <2>2, <3>4 DEF InRange
  <2> QED BY <2>4, <2>5, <2>6, Constants DEF Inv
<1> QED BY <1>2, <1>3

LEMMA MiddleInv ==
  ASSUME Inv, UNCHANGED <<less, given>>, NEW answer \in {"yes", "no"}, Middle(answer)
  PROVE  Inv'
<1>1. pc = "middle" /\ answer \in less[<<a[i], a[l]>>]
  BY Asked DEF Middle
<1>2. /\ n \in Nat /\ l \in 1 .. n /\ u \in 1 .. n /\ i \in 1 .. n
      /\ 1 .. n \subseteq Cells /\ l < i /\ i < u
  BY <1>1, LengthIsNat DEF Inv, Shape, Place, Cells
<1>3. ASSUME IsOrder
      PROVE  /\ \A k \in 1 .. n : a[k] \in Values
             /\ ~Less(a[u], a[l])
             /\ answer = "yes" => ~Less(a[l], a[i])
             /\ answer = "no" => ~Less(a[i], a[l])
  <2>1. (\A k \in 1 .. n : a[k] \in Values) /\ ~Less(a[u], a[l])
    BY <1>1, <1>3 DEF Inv, Sentinels
  <2> QED BY <1>1, <1>2, <1>3, <2>1, Answered
<1>4. CASE answer = "yes"
  <2> DEFINE b == set2(a, i, l)
  <2>1. /\ b \in [Cells -> Anything] /\ b[i] = a[l] /\ b[l] = a[i]
        /\ \A k \in Cells \ {i, l} : b[k] = a[k]
        /\ SameElements(b, Table)
    <3> HIDE DEF b
    <3> QED BY <1>2, SwapKeeps DEF Inv, Shape, b
  <2>2. Partition(b)
    BY <1>4 DEF Middle
  <2> HIDE DEF b
  <2>3. IsOrder => (\A k \in 1 .. n : b[k] \in Values) /\ ~Less(b[i], b[l])
    BY <1>2, <1>3, <1>4, <2>1
  <2> QED BY <1>1, <2>1, <2>2, <2>3, PartitionInv
<1>5. CASE answer = "no"
  <2>1. pc' = "high" /\ UNCHANGED <<a, l, u, i, j, P, todo>>
    BY <1>5 DEF Middle
  <2>2. Shape' /\ SameElements(a, Table)'
    BY <2>1, Constants DEF Inv, Shape
  <2>3. Place'
    BY <1>1, <2>1 DEF Inv, Place
  <2>4. IsOrder' => Sentinels' /\ InRange'
    BY <1>3, <1>5, <2>1, Constants DEF Sentinels, InRange
  <2> QED BY <2>2, <2>3, <2>4 DEF Inv
<1> QED BY <1>4, <1>5

LEMMA HighInv ==
  ASSUME Inv, UNCHANGED <<less, given>>, NEW answer \in {"yes", "no"}, High(answer)
  PROVE  Inv'
<1>1. pc = "high" /\ answer \in less[<<a[u], a[i]>>]
  BY Asked DEF High
<1>2. /\ n \in Nat /\ l \in 1 .. n /\ u \in 1 .. n /\ i \in 1 .. n
      /\ 1 .. n \subseteq Cells /\ l < i /\ i < u
  BY <1>1, LengthIsNat DEF Inv, Shape, Place, Cells
<1>3. ASSUME IsOrder
      PROVE  (\A k \in 1 .. n : a[k] \in Values) /\ ~Less(a[u], a[l]) /\ ~Less(a[i], a[l])
  BY <1>1, <1>3 DEF Inv, Sentinels
<1> DEFINE b == IF answer = "yes" THEN set2(a, i, u) ELSE a
<1>4. Partition(b)
  BY DEF High
<1>5. /\ set2(a, i, u) \in [Cells -> Anything] /\ set2(a, i, u)[i] = a[u] /\ set2(a, i, u)[u] = a[i]
      /\ \A k \in Cells \ {i, u} : set2(a, i, u)[k] = a[k]
      /\ SameElements(set2(a, i, u), Table)
  BY <1>2, SwapKeeps DEF Inv, Shape
<1>6. b \in [Cells -> Anything] /\ SameElements(b, Table)
  BY <1>5 DEF Inv, Shape
<1>7. IsOrder => (\A k \in 1 .. n : b[k] \in Values) /\ ~Less(b[i], b[l])
  BY <1>2, <1>3, <1>5
<1> HIDE DEF b
<1> QED BY <1>1, <1>4, <1>6, <1>7, PartitionInv

LEMMA UpInv ==
  ASSUME Inv, UNCHANGED <<less, given>>, NEW answer \in {"yes", "no"}, Up(answer)
  PROVE  Inv'
<1>1. pc = "up" /\ answer \in less[<<a[i + 1], P>>]
  BY Asked DEF Up
<1>2. /\ n \in Nat /\ l \in 1 .. n /\ u \in 1 .. n /\ i \in 1 .. n /\ j \in 1 .. n
      /\ l + 3 <= u /\ l <= i /\ i <= u /\ l < j /\ j < u
  BY <1>1, LengthIsNat DEF Inv, Shape, Place
<1>3. i' = i + 1 /\ UNCHANGED <<a, l, u, j, P, todo>>
  BY DEF Up
<1>4. Shape' /\ SameElements(a, Table)'
  BY <1>2, <1>3, Constants DEF Inv, Shape
<1>5. ASSUME IsOrder
      PROVE  /\ (\A k \in 1 .. n : a[k] \in Values) /\ P \in Values /\ a[u - 1] = P /\ ~Less(P, a[l])
             /\ i + 1 < u
             /\ answer = "yes" => i + 2 < u
  <2>1. /\ (\A k \in 1 .. n : a[k] \in Values) /\ P \in Values /\ a[u - 1] = P /\ ~Less(P, a[l])
        /\ i + 1 < u
    BY <1>1, <1>5 DEF Inv, Sentinels, InRange
  <2>2. a[i + 1] \in Values
    BY <1>2, <2>1
  <2>3. answer = "yes" => Less(a[i + 1], P)
    BY <1>1, <1>5, <2>1, <2>2, Answered
  <2>4. ~Less(P, P)
    BY <1>5, <2>1 DEF IsOrder
  <2>5. answer = "yes" => i + 1 # u - 1
    BY <2>1, <2>3, <2>4
  <2> QED BY <1>2, <2>1, <2>5
<1>6. CASE answer = "yes" /\ i + 1 > u
  <2>1. pc' = "invalid order function"
    BY <1>6 DEF Up
  <2>2. IsOrder' => \A k \in 1 .. n' : a'[k] \in Values
    BY <1>3, <1>5, Constants
  <2> QED BY <1>4, <2>1, <2>2, Between
<1>7. CASE answer = "yes" /\ ~(i + 1 > u)
  <2>1. pc' = "up"
    BY <1>7 DEF Up
  <2>2. Place'
    BY <1>2, <1>3, <1>7, <2>1 DEF Place
  <2>3. ASSUME IsOrder PROVE Sentinels' /\ InRange'
    <3>1. Sentinels'
      BY <1>3, <1>5, <2>1, <2>3, Constants DEF Sentinels
    <3>2. i' + 1 < u'
      BY <1>2, <1>3, <1>5, <1>7, <2>3
    <3> QED BY <2>1, <3>1, <3>2 DEF InRange
  <2> QED BY <1>4, <2>2, <2>3, Constants DEF Inv
<1>8. CASE answer = "no"
  <2>1. pc' = "down"
    BY <1>8 DEF Up
  <2>2. Place'
    BY <1>2, <1>3, <2>1 DEF Place
  <2>3. IsOrder' => Sentinels' /\ InRange'
    BY <1>2, <1>3, <1>5, <2>1, Constants DEF Sentinels, InRange
  <2> QED BY <1>4, <2>2, <2>3 DEF Inv
<1> QED BY <1>6, <1>7, <1>8

LEMMA RecurseTyped ==
  ASSUME Shape, UNCHANGED given, Recurse, 1 <= l, l < i, i <= u + 1, u \in 1 .. n
  PROVE  l' \in 1 .. n + 2 /\ u' \in 0 .. n /\ todo' \in Seq(Ranges) /\ pc' = "low"
<1>1. n \in Nat /\ l \in Int /\ i \in Int
  BY LengthIsNat DEF Shape
<1>2. <<i + 1, u>> \in Ranges /\ <<l, i - 1>> \in Ranges
  BY <1>1 DEF Shape, Ranges
<1>3. /\ Append(todo, <<i + 1, u>>) \in Seq(Ranges)
      /\ Append(todo, <<l, i - 1>>) \in Seq(Ranges)
  <2>1. todo \in Seq(Ranges)
    BY DEF Shape
  <2> QED BY <1>2, <2>1, AppendProperties
<1>4. todo' \in Seq(Ranges)
  BY <1>3 DEF Recurse
<1> QED BY <1>1, <1>2, <1>4 DEF Recurse, Sort, Ranges

LEMMA DownInv ==
  ASSUME Inv, UNCHANGED <<less, given>>, NEW answer \in {"yes", "no"}, Down(answer)
  PROVE  Inv'
<1>1. pc = "down" /\ answer \in less[<<P, a[j - 1]>>]
  BY Asked DEF Down
<1>2. /\ n \in Nat /\ l \in 1 .. n /\ u \in 1 .. n /\ i \in Int /\ j \in 1 .. n
      /\ l + 3 <= u /\ l < i /\ i <= u + 1 /\ l <= j /\ j < u
  BY <1>1, LengthIsNat DEF Inv, Shape, Place
<1>3. ASSUME IsOrder
      PROVE  /\ (\A k \in 1 .. n : a[k] \in Values) /\ P \in Values /\ a[u - 1] = P /\ ~Less(P, a[l])
             /\ i < u /\ j > l
             /\ answer = "yes" => j - 1 > l
  <2>1. /\ (\A k \in 1 .. n : a[k] \in Values) /\ P \in Values /\ a[u - 1] = P /\ ~Less(P, a[l])
        /\ i < u /\ j > l
    BY <1>1, <1>3 DEF Inv, Sentinels, InRange
  <2>2. a[j - 1] \in Values
    BY <1>2, <2>1
  <2>3. answer = "yes" => Less(P, a[j - 1])
    BY <1>1, <1>3, <2>1, <2>2, Answered
  <2>4. answer = "yes" => j - 1 # l
    BY <2>1, <2>3
  <2> QED BY <1>2, <2>1, <2>4
<1>4. j' = j - 1 /\ UNCHANGED P
  BY DEF Down
<1>5. CASE answer = "yes"
  <2>1. UNCHANGED <<a, l, u, i, todo>>
    BY <1>5 DEF Down
  <2>2. Shape' /\ SameElements(a, Table)'
    BY <1>2, <1>4, <2>1, Constants DEF Inv, Shape
  <2>3. CASE j - 1 < l
    <3>1. pc' = "invalid order function"
      BY <1>5, <2>3 DEF Down
    <3>2. IsOrder' => \A k \in 1 .. n' : a'[k] \in Values
      BY <1>3, <2>1, Constants
    <3> QED BY <2>2, <3>1, <3>2, Between
  <2>4. CASE ~(j - 1 < l)
    <3>1. pc' = "down"
      BY <1>5, <2>4 DEF Down
    <3>2. Place'
      BY <1>2, <1>4, <2>1, <2>4, <3>1 DEF Place
    <3>3. IsOrder' => Sentinels' /\ InRange'
      BY <1>2, <1>3, <1>4, <1>5, <2>1, <3>1, Constants DEF Sentinels, InRange
    <3> QED BY <2>2, <3>2, <3>3 DEF Inv
  <2> QED BY <2>3, <2>4
<1>6. CASE answer = "no" /\ j - 1 < i
  <2> DEFINE c == set2(a, u - 1, i)
  <2>1. a' = c /\ Recurse /\ UNCHANGED i
    BY <1>6 DEF Down
  <2>2. u - 1 \in Cells /\ i \in Cells /\ 1 .. n \subseteq Cells
    BY <1>2 DEF Cells
  <2>3. /\ c \in [Cells -> Anything] /\ c[u - 1] = a[i] /\ c[i] = a[u - 1]
        /\ \A k \in Cells \ {u - 1, i} : c[k] = a[k]
        /\ SameElements(c, Table)
    <3> HIDE DEF c
    <3> QED BY <2>2, SwapKeeps DEF Inv, Shape, c
  <2> HIDE DEF c
  <2>4. l' \in 1 .. n + 2 /\ u' \in 0 .. n /\ todo' \in Seq(Ranges) /\ pc' = "low"
    BY <1>2, <2>1, RecurseTyped DEF Inv
  <2>5. Shape' /\ SameElements(a, Table)'
    BY <1>2, <1>4, <2>1, <2>3, <2>4, Constants DEF Inv, Shape
  <2>6. ASSUME IsOrder PROVE \A k \in 1 .. n : a'[k] \in Values
    <3>1. i \in 1 .. n /\ u - 1 \in 1 .. n
      BY <1>2, <1>3, <2>6
    <3> QED BY <1>3, <2>1, <2>2, <2>3, <2>6, <3>1
  <2> QED BY <2>4, <2>5, <2>6, Constants, Between
<1>7. CASE answer = "no" /\ ~(j - 1 < i)
  <2> DEFINE c == set2(a, i, j - 1)
  <2>1. a' = c /\ pc' = "up" /\ UNCHANGED <<l, u, i, todo>>
    BY <1>7 DEF Down
  <2>2. /\ i \in 1 .. n /\ j - 1 \in 1 .. n /\ 1 .. n \subseteq Cells
        /\ l \notin {i, j - 1} /\ u - 1 \notin {i, j - 1} /\ u - 1 \in 1 .. n
    BY <1>2, <1>7 DEF Cells
  <2>3. /\ c \in [Cells -> Anything] /\ c[i] = a[j - 1] /\ c[j - 1] = a[i]
        /\ \A k \in Cells \ {i, j - 1} : c[k] = a[k]
        /\ SameElements(c, Table)
    <3> HIDE DEF c
    <3> QED BY <2>2, SwapKeeps DEF Inv, Shape, c
  <2> HIDE DEF c
  <2>4. Shape' /\ SameElements(a, Table)'
    BY <1>2, <1>4, <2>1, <2>3, Constants DEF Inv, Shape
  <2>5. Place'
    BY <1>2, <1>4, <1>7, <2>1 DEF Place
  <2>6. ASSUME IsOrder PROVE Sentinels' /\ InRange'
    <3>1. \A k \in 1 .. n : c[k] \in Values
      BY <1>3, <2>2, <2>3, <2>6
    <3>2. P' \in Values /\ a'[u' - 1] = P' /\ ~Less(P', a'[l'])
      BY <1>2, <1>3, <1>4, <2>1, <2>2, <2>3, <2>6
    <3>3. Sentinels'
      BY <2>1, <3>1, <3>2, Constants DEF Sentinels
    <3>4. i' + 1 < u'
      BY <1>2, <1>7, <2>1
    <3> QED BY <2>1, <3>3, <3>4 DEF InRange
  <2> QED BY <2>4, <2>5, <2>6, Constants DEF Inv
<1> QED BY <1>5, <1>6, <1>7

LEMMA FailsInv ==
  ASSUME Inv, UNCHANGED <<less, given>>, Fails
  PROVE  Inv'
<1>1. pc' = "error" /\ UNCHANGED <<a, l, u, i, j, P, todo>>
  BY DEF Fails
<1>2. Shape' /\ SameElements(a, Table)'
  BY <1>1, Constants DEF Inv, Shape
<1>3. IsOrder' => \A k \in 1 .. n' : a'[k] \in Values
  BY <1>1, Constants DEF Inv, Sentinels
<1> QED BY <1>1, <1>2, <1>3, Between

-----------------------------------------------------------------------------
LEMMA Invariance == Spec => []Inv
<1>1. Init => Inv
  BY InitInv
<1>2. Inv /\ [Next]_vars => Inv'
  <2> SUFFICES ASSUME Inv, [Next]_vars PROVE Inv'
    OBVIOUS
  <2>1. CASE auxsort
    BY <2>1, ShortInv, LowInv, MiddleInv, HighInv, UpInv, DownInv, FailsInv DEF auxsort
  <2>2. CASE UNCHANGED vars
    <3>1. UNCHANGED <<less, given>>
      BY <2>2 DEF vars
    <3>2. Shape' /\ SameElements(a, Table)' /\ Place'
      BY <2>2, <3>1, Constants DEF vars, Inv, Shape, Place
    <3>3. IsOrder' => Sentinels' /\ InRange'
      BY <2>2, <3>1, Constants DEF vars, Inv, Sentinels, InRange
    <3> QED BY <3>2, <3>3 DEF Inv
  <2> QED BY <2>1, <2>2 DEF Next, Ended
<1> QED BY <1>1, <1>2, PTL DEF Spec

(* No element is lost, no cell away from the array is read, and an order   *)
(* keeps the loops of auxsort within the range, in arrays of any length    *)
(* and with any function.                                                  *)
THEOREM ElementsAreKept == Spec => []ElementsKept
<1>1. Inv => ElementsKept
  <2>1. ASSUME Inv PROVE InCells
    BY <2>1, LengthIsNat DEF Inv, Shape, Place, InCells, Cells
  <2> QED BY <2>1 DEF Inv, ElementsKept
<1> QED BY <1>1, Invariance, PTL

-----------------------------------------------------------------------------
(* The powers of two are what their definition says.                       *)
LEMMA TwoTo == /\ twoTo[0] = 1
               /\ \A k \in Nat : twoTo[k] \in Nat \ {0} /\ twoTo[k + 1] = 2 * twoTo[k]
<1> DEFINE S == Nat \ {0}
           step == [x \in S |-> 2 * x]
<1>1. PICK f \in [Nat -> S] : f[0] = 1 /\ \A k \in Nat : f[k + 1] = 2 * f[k]
  <2>1. step \in [S -> S]
    OBVIOUS
  <2>2. 1 \in S /\ \A x \in S : step[x] = 2 * x
    OBVIOUS
  <2> HIDE DEF step, S
  <2>3. \A c \in S : \E f \in [Nat -> S] : f[0] = c /\ \A k \in Nat : f[k + 1] = step[f[k]]
    BY <2>1, NatRecursion
  <2>4. \E f \in [Nat -> S] : f[0] = 1 /\ \A k \in Nat : f[k + 1] = step[f[k]]
    BY <2>2, <2>3
  <2> QED BY <2>2, <2>4
<1>2. f = [k \in Nat |-> IF k = 0 THEN 1 ELSE 2 * f[k - 1]]
  <2>1. ASSUME NEW k \in Nat, k # 0 PROVE f[k] = 2 * f[k - 1]
    <3>1. k - 1 \in Nat /\ (k - 1) + 1 = k
      BY <2>1
    <3> QED BY <1>1, <3>1
  <2> QED BY <1>1, <2>1
<1>3. twoTo = [k \in Nat |-> IF k = 0 THEN 1 ELSE 2 * twoTo[k - 1]]
  BY <1>2 DEF twoTo
<1>4. \A k \in Nat : twoTo[k + 1] = 2 * twoTo[k]
  BY <1>3
<1> DEFINE D == {k \in Nat : twoTo[k] \in S}
<1>5. 0 \in D /\ \A k \in Nat : k \in D => k + 1 \in D
  BY <1>3, <1>4
<1> HIDE DEF D
<1>6. \A k \in Nat : k \in D
  BY <1>5, NatSetInduction
<1> QED BY <1>3, <1>4, <1>6 DEF D

(* What d calls wait for, and what is sorted meanwhile, is no longer than  *)
(* the array halved once for each call before it.                          *)
Size(r) == r[2] - r[1] + 1
Halved  == /\ (u - l + 1) * twoTo[Len(todo)] <= n
           /\ \A t \in 1 .. Len(todo) : Size(todo[t]) * twoTo[t - 1] <= n
           /\ DepthBounded

LEMMA Times ==
  ASSUME NEW x \in Int, NEW y \in Int, NEW p \in Nat, x <= y
  PROVE  x * p <= y * p
OBVIOUS

LEMMA ReturnHalved ==
  ASSUME Shape, UNCHANGED given, Halved, Return
  PROVE  Halved'
<1>1. n' = n /\ n \in Nat
  BY LengthIsNat DEF n, Shape
<1>2. CASE todo = <<>>
  BY <1>1, <1>2 DEF Return, Halved, DepthBounded
<1>3. CASE todo # <<>>
  <2> DEFINE d == Len(todo)
  <2>1. d \in Nat \ {0} /\ todo \in Seq(Ranges)
    BY <1>3, EmptySeq, LenProperties DEF Shape
  <2>2. todo' = SubSeq(todo, 1, d - 1) /\ l' = todo[d][1] /\ u' = todo[d][2]
    BY <1>3 DEF Return, Sort
  <2>3. todo' \in Seq(Ranges) /\ Len(todo') = d - 1 /\ \A t \in 1 .. d - 1 : todo'[t] = todo[t]
    BY <1>3, <2>1, <2>2, LastRemoved
  <2> HIDE DEF d
  <2>4. /\ Size(todo[d]) * twoTo[d - 1] <= n
        /\ \A t \in 1 .. d - 1 : Size(todo[t]) * twoTo[t - 1] <= n
        /\ twoTo[d] <= n
    BY <1>3, <2>1 DEF Halved, DepthBounded, d
  <2>5. twoTo[d - 1] \in Nat /\ twoTo[d] = 2 * twoTo[d - 1]
    <3>1. d - 1 \in Nat /\ (d - 1) + 1 = d
      BY <2>1
    <3> QED BY <3>1, TwoTo
  <2>6. DepthBounded'
    BY <1>1, <2>3, <2>4, <2>5 DEF DepthBounded
  <2>7. (u' - l' + 1) * twoTo[Len(todo')] <= n
    BY <2>2, <2>3, <2>4 DEF Size
  <2>8. \A t \in 1 .. Len(todo') : Size(todo'[t]) * twoTo[t - 1] <= n
    BY <2>3, <2>4
  <2> QED BY <1>1, <2>6, <2>7, <2>8 DEF Halved, Size
<1> QED BY <1>2, <1>3

LEMMA RecurseHalved ==
  ASSUME Shape, UNCHANGED given, Halved, Recurse, l + 3 <= u, l < i, i <= u + 1
  PROVE  Halved'
<1> DEFINE d == Len(todo)
           p == twoTo[d]
           r == IF i - l < u - i THEN <<i + 1, u>> ELSE <<l, i - 1>>
<1>1. /\ n' = n /\ n \in Nat /\ l \in 1 .. n + 2 /\ u \in 0 .. n /\ i \in Int
      /\ d \in Nat /\ p \in Nat \ {0} /\ twoTo[d + 1] = 2 * p
  BY LengthIsNat, LenProperties, TwoTo DEF Shape, n
<1>2. r \in Ranges /\ todo' = Append(todo, r)
  <2>1. <<i + 1, u>> \in Ranges /\ <<l, i - 1>> \in Ranges
    BY <1>1 DEF Ranges
  <2> QED BY <2>1 DEF Recurse
<1>3. Size(r) \in Int /\ Size(r) <= u - l + 1
  BY <1>1 DEF Size
<1>4. u' - l' + 1 \in Int /\ 2 * (u' - l' + 1) <= u - l + 1
  BY <1>1 DEF Recurse, Sort
<1> HIDE DEF r
<1>5. Len(todo') = d + 1 /\ todo'[d + 1] = r /\ \A t \in 1 .. d : todo'[t] = todo[t]
  BY <1>2, AppendDomain DEF Shape
<1>6. /\ (u - l + 1) * p <= n
      /\ \A t \in 1 .. d : Size(todo[t]) * twoTo[t - 1] <= n
  BY DEF Halved
<1> HIDE DEF p, d
<1>7. Size(r) * p <= n
  <2>1. Size(r) * p <= (u - l + 1) * p
    BY <1>1, <1>3, Times
  <2> QED BY <1>1, <1>3, <1>6, <2>1
<1>8. (u' - l' + 1) * twoTo[d + 1] <= n
  <2>1. (2 * (u' - l' + 1)) * p <= (u - l + 1) * p
    BY <1>1, <1>4, Times
  <2>2. (2 * (u' - l' + 1)) * p = (u' - l' + 1) * (2 * p)
    BY <1>1, <1>4
  <2> QED BY <1>1, <1>4, <1>6, <2>1, <2>2
<1>9. twoTo[d + 1] <= n
  <2>1. 4 * p <= (u - l + 1) * p
    BY <1>1, Times
  <2> QED BY <1>1, <1>6, <2>1
<1>10. \A t \in 1 .. d + 1 : Size(todo'[t]) * twoTo[t - 1] <= n
  <2>1. Size(todo'[d + 1]) * twoTo[(d + 1) - 1] <= n
    <3>1. (d + 1) - 1 = d
      BY <1>1
    <3> QED BY <1>5, <1>7, <3>1 DEF p
  <2>2. \A t \in 1 .. d : Size(todo'[t]) * twoTo[t - 1] <= n
    BY <1>5, <1>6
  <2>3. \A t \in 1 .. d + 1 : t \in 1 .. d \/ t = d + 1
    BY <1>1
  <2> QED BY <2>1, <2>2, <2>3
<1> QED BY <1>1, <1>5, <1>8, <1>9, <1>10 DEF Halved, DepthBounded, Size

LEMMA HalvedStep ==
  ASSUME Inv, Halved, [Next]_vars
  PROVE  Halved'
<1>1. UNCHANGED given
  BY DEF Next, auxsort, Ended, vars
<1>2. ASSUME UNCHANGED <<l, u, todo>> PROVE Halved'
  BY <1>1, <1>2 DEF Halved, DepthBounded, Size, n
<1>3. ASSUME Return PROVE Halved'
  BY <1>1, <1>3, ReturnHalved DEF Inv
<1>4. CASE Short
  BY <1>3, <1>4 DEF Short
<1>5. ASSUME NEW answer \in {"yes", "no"}, Low(answer) PROVE Halved'
  BY <1>2, <1>3, <1>5 DEF Low
<1>6. ASSUME NEW b, Partition(b) PROVE Halved'
  BY <1>2, <1>3, <1>6 DEF Partition
<1>7. ASSUME NEW answer \in {"yes", "no"}, Middle(answer) \/ High(answer) PROVE Halved'
  BY <1>2, <1>6, <1>7 DEF Middle, High
<1>8. ASSUME NEW answer \in {"yes", "no"}, Up(answer) \/ Fails PROVE Halved'
  BY <1>2, <1>8 DEF Up, Fails
<1>9. ASSUME NEW answer \in {"yes", "no"}, Down(answer) PROVE Halved'
  <2>1. l + 3 <= u /\ l < i /\ i <= u + 1
    BY <1>9 DEF Down, Inv, Place
  <2> QED BY <1>1, <1>2, <1>9, <2>1, RecurseHalved DEF Down, Inv
<1>10. CASE Fails
  BY <1>2, <1>10 DEF Fails
<1> QED BY <1>2, <1>4, <1>5, <1>7, <1>8, <1>9, <1>10 DEF Next, auxsort, Ended, vars

(* No more calls of auxsort wait for another one than the array has        *)
(* halvings: in arrays of any length, with any function.                   *)
THEOREM DepthIsBounded == Spec => []DepthBounded
<1>1. Inv /\ Init => Halved
  <2> SUFFICES ASSUME Inv, Init PROVE Halved
    OBVIOUS
  <2>1. n \in Nat /\ Len(todo) = 0 /\ l = 1 /\ u = n /\ todo = <<>>
    BY LengthIsNat, EmptySeq DEF Inv, Shape, Init
  <2> QED BY <2>1, TwoTo DEF Halved, DepthBounded
<1>2. Inv /\ Halved /\ [Next]_vars => Halved'
  BY HalvedStep
<1>3. Halved => DepthBounded
  BY DEF Halved
<1> QED BY <1>1, <1>2, <1>3, Invariance, PTL DEF Spec

-----------------------------------------------------------------------------
(***************************************************************************)
(* Sort sorts: with an order function an array of any length has its       *)
(* elements in order at the end, and no call is given up.                  *)
(*                                                                         *)
(* Two elements that are not in order yet are both in one of the ranges    *)
(* that are still to be sorted (Separated), and no element is in two of    *)
(* those (Apart): what is exchanged in one of them cannot disturb what     *)
(* stands outside.  While the loops run, what i has passed is not greater  *)
(* than the pivot and what j has passed is not less (Divided).             *)
(***************************************************************************)
Inside(k, r) == r[1] <= k /\ k <= r[2]
Together(k, m) == \/ pc # "done" /\ Inside(k, <<l, u>>) /\ Inside(m, <<l, u>>)
                  \/ \E t \in 1 .. Len(todo) : Inside(k, todo[t]) /\ Inside(m, todo[t])
Apart == /\ \A t \in 1 .. Len(todo), k \in 1 .. n : ~(Inside(k, todo[t]) /\ Inside(k, <<l, u>>))
         /\ \A s, t \in 1 .. Len(todo), k \in 1 .. n : Inside(k, todo[s]) /\ Inside(k, todo[t]) => s = t
Separated(b) == \A k, m \in 1 .. n : k < m => ~Less(b[m], b[k]) \/ Together(k, m)
Divided == /\ pc = "up" => \A k \in l .. i : ~Less(P, a[k])
           /\ pc = "down" => ~Less(a[i], P) /\ \A k \in l .. i - 1 : ~Less(P, a[k])
           /\ pc \in {"up", "down"} => \A k \in j .. u : ~Less(a[k], P)
Order == Accepted /\ (pc = "done" => todo = <<>>) /\ Apart /\ Separated(a) /\ Divided
\* The ranges that are being sorted, and the elements in the one that is now.
InOrder(b) == \A k, m \in 1 .. n : l <= k /\ k < m /\ m <= u => ~Less(b[m], b[k])

-----------------------------------------------------------------------------
(* An element that is not greater than y, which is not greater than z, is  *)
(* not greater than z.                                                     *)
LEMMA Transitive ==
  ASSUME IsOrder, NEW x \in Values, NEW y \in Values, NEW z \in Values,
         ~Less(y, x), ~Less(z, y)
  PROVE  ~Less(z, x)
BY DEF IsOrder

LEMMA Irreflexive ==
  ASSUME IsOrder, NEW x \in Values
  PROVE  ~Less(x, x)
BY DEF IsOrder

(* What is exchanged within the range that is being sorted stays in order  *)
(* with what stands outside.                                               *)
LEMMA SwapSeparated ==
  ASSUME given \in Seq(Values), pc # "done", l \in Int, u \in Int, Apart,
         NEW b \in [Cells -> Anything], Separated(b),
         NEW x \in 1 .. n, NEW y \in 1 .. n, l <= x, x <= u, l <= y, y <= u
  PROVE  Separated(set2(b, x, y))
<1> DEFINE c == set2(b, x, y)
           other(k) == IF k = x THEN y ELSE IF k = y THEN x ELSE k
<1>1. n \in Nat /\ 1 .. n \subseteq Cells
  BY LengthIsNat DEF Cells
<1>2. \A k \in 1 .. n : other(k) \in 1 .. n /\ c[k] = b[other(k)]
  BY <1>1 DEF set2
<1>3. \A k \in 1 .. n : Inside(k, <<l, u>>) <=> Inside(other(k), <<l, u>>)
  BY <1>1 DEF Inside
<1>4. \A k \in 1 .. n : ~Inside(k, <<l, u>>) => other(k) = k
  BY <1>1 DEF Inside
<1> HIDE DEF c, other
<1>5. ASSUME NEW k \in 1 .. n, NEW m \in 1 .. n, k < m, ~Together(k, m)
      PROVE  ~Less(c[m], c[k])
  <2>1. ~(Inside(k, <<l, u>>) /\ Inside(m, <<l, u>>))
    BY <1>5 DEF Together
  <2>2. CASE ~Inside(k, <<l, u>>) /\ ~Inside(m, <<l, u>>)
    BY <1>2, <1>4, <1>5, <2>2 DEF Separated
  <2>3. CASE Inside(k, <<l, u>>) /\ ~Inside(m, <<l, u>>)
    <3>1. other(m) = m /\ Inside(other(k), <<l, u>>) /\ other(k) \in 1 .. n
      BY <1>2, <1>3, <1>4, <2>3
    <3>2. other(k) < m
      BY <1>1, <1>5, <2>3, <3>1 DEF Inside
    <3>3. ~Together(other(k), m)
      BY <2>3, <3>1 DEF Together, Apart
    <3> QED BY <1>2, <3>1, <3>2, <3>3 DEF Separated
  <2>4. CASE ~Inside(k, <<l, u>>) /\ Inside(m, <<l, u>>)
    <3>1. other(k) = k /\ Inside(other(m), <<l, u>>) /\ other(m) \in 1 .. n
      BY <1>2, <1>3, <1>4, <2>4
    <3>2. k < other(m)
      BY <1>1, <1>5, <2>4, <3>1 DEF Inside
    <3>3. ~Together(k, other(m))
      BY <2>4, <3>1 DEF Together, Apart
    <3> QED BY <1>2, <3>1, <3>2, <3>3 DEF Separated
  <2> QED BY <2>1, <2>2, <2>3, <2>4
<1> QED BY <1>5 DEF Separated, c

(* A range is sorted: the next one that waits, or the end.                 *)
LEMMA ReturnSeparated ==
  ASSUME Shape, UNCHANGED <<less, given>>, pc # "done", Apart, Return,
         NEW b, a' = b, Separated(b), InOrder(b)
  PROVE  Order'
<1>1. n \in Nat /\ n' = n /\ l \in Int /\ u \in Int
  BY LengthIsNat, Constants DEF Shape
<1>2. pc' \in {"low", "done"}
  BY ReturnTyped
<1>3. \A k, m \in 1 .. n : k < m /\ Inside(k, <<l, u>>) /\ Inside(m, <<l, u>>) => ~Less(b[m], b[k])
  BY <1>1 DEF InOrder, Inside
<1>4. CASE todo = <<>>
  <2>1. pc' = "done" /\ UNCHANGED <<l, u, todo>> /\ Len(todo) = 0
    BY <1>4 DEF Return
  <2>2. Apart'
    BY <2>1 DEF Apart
  <2>3. \A k, m \in 1 .. n : k < m => ~Less(b[m], b[k])
    BY <1>3, <2>1 DEF Separated, Together
  <2>4. Separated(a)'
    BY <1>1, <2>3, Constants DEF Separated
  <2> QED BY <1>4, <2>1, <2>2, <2>4 DEF Order, Accepted, Divided
<1>5. CASE todo # <<>>
  <2> DEFINE d == Len(todo)
  <2>1. /\ d \in Nat \ {0} /\ Len(todo') = d - 1
        /\ \A t \in 1 .. d - 1 : todo'[t] = todo[t]
    <3>1. d \in Nat \ {0}
      BY <1>5, EmptySeq, LenProperties DEF Shape
    <3>2. todo' = SubSeq(todo, 1, d - 1)
      BY <1>5 DEF Return
    <3>3. /\ todo \in Seq(Ranges) /\ d \in 1 .. d /\ d = Len(todo)
          /\ \A t \in 1 .. d - 1 : t \in 1 .. d
      BY <3>1 DEF Shape
    <3> HIDE DEF d
    <3>4. /\ Len(SubSeq(todo, 1, d - 1)) = d - 1
          /\ \A t \in 1 .. d - 1 : SubSeq(todo, 1, d - 1)[t] = todo[t]
      BY <3>1, <3>3, SubSeqProperties
    <3> QED BY <3>1, <3>2, <3>4
  <2>2. l' = todo[d][1] /\ u' = todo[d][2] /\ pc' = "low"
    BY <1>5 DEF Return, Sort
  <2> HIDE DEF d
  <2>3. \A k : Inside(k, <<l', u'>>) <=> Inside(k, todo[d])
    BY <2>2 DEF Inside
  <2>4. Apart'
    BY SMTT(30), <1>1, <2>1, <2>3 DEF Apart, Inside, d
  <2>5. ASSUME NEW k \in 1 .. n, NEW m \in 1 .. n, k < m, Less(b[m], b[k])
        PROVE  Together(k, m)'
    <3>1. \E t \in 1 .. d : Inside(k, todo[t]) /\ Inside(m, todo[t])
      BY <1>3, <2>5 DEF Separated, Together, d
    <3>2. PICK t \in 1 .. d : Inside(k, todo[t]) /\ Inside(m, todo[t])
      BY <3>1
    <3>3. CASE t = d
      BY <2>2, <2>3, <3>2, <3>3 DEF Together, Inside
    <3>4. CASE t # d
      <4>1. t \in 1 .. Len(todo') /\ todo'[t] = todo[t]
        BY <2>1, <3>4
      <4> QED BY <3>2, <4>1 DEF Together, Inside
    <3> QED BY <3>3, <3>4
  <2>6. Separated(a)'
    BY <1>1, <2>5, Constants DEF Separated
  <2> QED BY <2>2, <2>4, <2>6 DEF Order, Accepted, Divided
<1> QED BY <1>4, <1>5

(* The two sides of the pivot at i are sorted next.                        *)
LEMMA RecurseSeparated ==
  ASSUME Shape, UNCHANGED <<less, given>>, pc # "done", Apart, Recurse,
         NEW b, a' = b, Separated(b), l <= i, i <= u,
         \A k, m \in 1 .. n : l <= k /\ k < m /\ m <= u /\ k <= i /\ i <= m => ~Less(b[m], b[k])
  PROVE  Order'
<1> DEFINE q == <<l', u'>>
           r == IF i - l < u - i THEN <<i + 1, u>> ELSE <<l, i - 1>>
           d == Len(todo)
<1>1. n \in Nat /\ n' = n /\ l \in 1 .. n + 2 /\ u \in 0 .. n /\ i \in Int
  BY LengthIsNat, Constants DEF Shape
<1>2. pc' = "low" /\ todo' = Append(todo, r) /\ todo \in Seq(Ranges) /\ r \in Ranges
  <2>1. <<i + 1, u>> \in Ranges /\ <<l, i - 1>> \in Ranges
    BY <1>1 DEF Ranges
  <2>2. r \in Ranges
    BY <2>1
  <2> QED BY <2>2 DEF Recurse, Sort, Shape
<1>3. /\ d \in Nat /\ Len(todo') = d + 1 /\ todo'[d + 1] = r
      /\ \A t \in 1 .. d : todo'[t] = todo[t]
  <2> HIDE DEF r
  <2> QED BY <1>2, AppendDomain
<1>4. \A k \in 1 .. n : (Inside(k, q) \/ Inside(k, r)) <=> Inside(k, <<l, u>>) /\ k # i
  <2>1. CASE i - l < u - i
    BY <1>1, <2>1 DEF Recurse, Sort, Inside
  <2>2. CASE ~(i - l < u - i)
    BY <1>1, <2>2 DEF Recurse, Sort, Inside
  <2> QED BY <2>1, <2>2
<1>5. \A k \in 1 .. n : ~(Inside(k, q) /\ Inside(k, r))
  <2>1. CASE i - l < u - i
    BY <1>1, <2>1 DEF Recurse, Sort, Inside
  <2>2. CASE ~(i - l < u - i)
    BY <1>1, <2>2 DEF Recurse, Sort, Inside
  <2> QED BY <2>1, <2>2
<1>6. \A k, m \in 1 .. n : k < m /\ Inside(k, <<l, u>>) /\ Inside(m, <<l, u>>) =>
        \/ ~Less(b[m], b[k])
        \/ Inside(k, q) /\ Inside(m, q)
        \/ Inside(k, r) /\ Inside(m, r)
  <2>1. ASSUME NEW k \in 1 .. n, NEW m \in 1 .. n, k < m, Inside(k, <<l, u>>), Inside(m, <<l, u>>)
        PROVE  (k <= i /\ i <= m) \/ (k < i /\ m < i) \/ (i < k /\ i < m)
    BY <1>1, <2>1
  <2>2. \A k \in 1 .. n : Inside(k, <<l, u>>) <=> l <= k /\ k <= u
    BY DEF Inside
  <2>3. ASSUME NEW k \in 1 .. n, NEW m \in 1 .. n, Inside(k, <<l, u>>), Inside(m, <<l, u>>),
               (k < i /\ m < i) \/ (i < k /\ i < m)
        PROVE  (Inside(k, q) /\ Inside(m, q)) \/ (Inside(k, r) /\ Inside(m, r))
    <3>1. CASE i - l < u - i
      BY <1>1, <2>3, <3>1 DEF Recurse, Sort, Inside
    <3>2. CASE ~(i - l < u - i)
      BY <1>1, <2>3, <3>2 DEF Recurse, Sort, Inside
    <3> QED BY <3>1, <3>2
  <2> HIDE DEF q, r
  <2> QED BY <2>1, <2>2, <2>3
<1> HIDE DEF q, r, d
<1>7. Apart'
  <2>1. \A t \in 1 .. d + 1, k \in 1 .. n : ~(Inside(k, todo'[t]) /\ Inside(k, q))
    BY <1>3, <1>4, <1>5 DEF Apart, d
  <2>2. \A s, t \in 1 .. d + 1, k \in 1 .. n : Inside(k, todo'[s]) /\ Inside(k, todo'[t]) => s = t
    BY <1>3, <1>4, <1>5 DEF Apart, d
  <2> QED BY <1>1, <1>3, <2>1, <2>2 DEF Apart, Inside, q
<1>8. ASSUME NEW k \in 1 .. n, NEW m \in 1 .. n, k < m, Less(b[m], b[k])
      PROVE  Together(k, m)'
  <2>1. \/ Inside(k, q) /\ Inside(m, q)
        \/ \E t \in 1 .. d + 1 : Inside(k, todo'[t]) /\ Inside(m, todo'[t])
    <3>1. CASE Inside(k, <<l, u>>) /\ Inside(m, <<l, u>>)
      BY <1>3, <1>6, <1>8, <3>1
    <3>2. CASE \E t \in 1 .. d : Inside(k, todo[t]) /\ Inside(m, todo[t])
      BY <1>3, <3>2
    <3> QED BY <1>8, <3>1, <3>2 DEF Separated, Together, d
  <2> QED BY <1>2, <1>3, <2>1 DEF Together, Inside, q
<1>9. Separated(a)'
  BY <1>1, <1>8, Constants DEF Separated
<1> QED BY <1>2, <1>7, <1>9 DEF Order, Accepted, Divided

(* Steps that leave what is to be sorted as it is.                         *)
LEMMA SameRanges ==
  ASSUME given \in Seq(Values), UNCHANGED <<less, given, l, u, todo>>, pc # "done", pc' # "done", Apart,
         NEW b, a' = b, Separated(b)
  PROVE  Apart' /\ Separated(a)'
<1>1. n' = n /\ \A x, y : Less(x, y)' = Less(x, y)
  BY Constants
<1>2. Apart'
  BY <1>1 DEF Apart, Inside
<1>3. \A k, m : Together(k, m)' = Together(k, m)
  BY DEF Together, Inside
<1> QED BY <1>1, <1>2, <1>3 DEF Separated

-----------------------------------------------------------------------------
(* Each step keeps the order.                                              *)
LEMMA InitOrder ==
  ASSUME Init, given \in Seq(Values)
  PROVE  Order
<1>1. n \in Nat /\ Len(todo) = 0 /\ l = 1 /\ u = n /\ pc = "low"
  BY LengthIsNat, EmptySeq DEF Init
<1>2. \A k, m \in 1 .. n : Together(k, m)
  BY <1>1 DEF Together, Inside
<1> QED BY <1>1, <1>2 DEF Order, Accepted, Apart, Separated, Divided

LEMMA ShortOrder ==
  ASSUME IsOrder, Inv, Order, UNCHANGED <<less, given>>, Short
  PROVE  Order'
<1>1. InOrder(a)
  BY LengthIsNat DEF InOrder, Short, Inv, Shape
<1> QED BY <1>1, ReturnSeparated DEF Inv, Order, Short

LEMMA LowOrder ==
  ASSUME IsOrder, Inv, Order, UNCHANGED <<less, given>>, NEW answer \in {"yes", "no"}, Low(answer)
  PROVE  Order'
<1>1. pc = "low" /\ l < u /\ answer \in less[<<a[u], a[l]>>]
  BY Asked DEF Low
<1>2. n \in Nat /\ l \in 1 .. n /\ u \in 1 .. n /\ l \in Cells /\ u \in Cells
  BY <1>1, LengthIsNat DEF Inv, Shape, Cells
<1>3. a[u] \in Values /\ a[l] \in Values
  BY <1>2 DEF Inv, Sentinels
<1> DEFINE b == IF answer = "yes" THEN set2(a, l, u) ELSE a
<1>4. (b[u] = a[l] /\ b[l] = a[u] /\ answer = "yes") \/ (b = a /\ answer = "no")
  <2>1. set2(a, l, u)[l] = a[u] /\ set2(a, l, u)[u] = a[l]
    BY <1>2, SwapKeeps DEF Inv, Shape
  <2> QED BY <2>1
<1>5. Separated(b)
  <2>1. Separated(set2(a, l, u))
    BY <1>1, <1>2, SwapSeparated DEF Inv, Shape, Order
  <2> QED BY <2>1 DEF Order
<1>6. ~Less(b[u], b[l])
  BY <1>1, <1>3, <1>4, Answered
<1>7. a' = b
  BY DEF Low
<1> HIDE DEF b
<1>8. CASE u - l = 1
  <2>1. InOrder(b)
    BY <1>2, <1>6, <1>8 DEF InOrder
  <2>2. Return
    BY <1>8 DEF Low
  <2> QED BY <1>1, <1>5, <1>7, <2>1, <2>2, ReturnSeparated DEF Inv, Order
<1>9. CASE u - l # 1
  <2>1. pc' = "middle" /\ UNCHANGED <<l, u, todo>>
    BY <1>9 DEF Low
  <2> QED BY <1>1, <1>5, <1>7, <2>1, SameRanges DEF Inv, Shape, Order, Accepted, Divided
<1> QED BY <1>8, <1>9

LEMMA PartitionOrder ==
  ASSUME IsOrder, Inv, Order, UNCHANGED <<less, given>>, pc \in {"middle", "high"},
         NEW b \in [Cells -> Anything], Separated(b), Partition(b), \A k \in 1 .. n : b[k] \in Values,
         ~Less(b[i], b[l]), ~Less(b[u], b[i])
  PROVE  Order'
<1>1. /\ n \in Nat /\ l \in 1 .. n /\ u \in 1 .. n /\ i \in 1 .. n /\ l + 2 <= u /\ l < i /\ i < u
      /\ u - 1 \in 1 .. n /\ 1 .. n \subseteq Cells
  BY LengthIsNat DEF Inv, Shape, Place, Cells
<1>2. b[l] \in Values /\ b[i] \in Values /\ b[u] \in Values
  BY <1>1
<1>3. CASE u - l = 2
  <2>1. ~Less(b[u], b[l])
    BY <1>2, Transitive
  <2>2. i = l + 1 /\ u = l + 2
    BY <1>1, <1>3
  <2>3. \A k, m \in 1 .. n : l <= k /\ k < m /\ m <= u =>
          (k = l /\ m = i) \/ (k = l /\ m = u) \/ (k = i /\ m = u)
    BY <1>1, <2>2
  <2>4. InOrder(b)
    BY <2>1, <2>3 DEF InOrder
  <2>5. a' = b /\ Return
    BY <1>3 DEF Partition
  <2> QED BY <2>4, <2>5, ReturnSeparated DEF Inv, Order
<1>4. CASE u - l # 2
  <2> DEFINE c == set2(b, i, u - 1)
  <2>1. /\ a' = c /\ P' = b[i] /\ i' = l /\ j' = u - 1 /\ pc' = "up"
        /\ UNCHANGED <<l, u, todo>>
    BY <1>4 DEF Partition
  <2>2. Separated(c)
    BY <1>1, SwapSeparated DEF Inv, Shape, Order
  <2>3. c[u - 1] = b[i] /\ c[l] = b[l] /\ c[u] = b[u]
    <3>1. l \in Cells \ {i, u - 1} /\ u \in Cells \ {i, u - 1}
      BY <1>1, <1>4
    <3> HIDE DEF c
    <3> QED BY <1>1, <3>1, SwapKeeps DEF Inv, Shape, c
  <2> HIDE DEF c
  <2>4. Apart' /\ Separated(a)'
    BY <2>1, <2>2, SameRanges DEF Inv, Shape, Order
  <2>5. ~Less(b[i], b[i])
    BY <1>2, Irreflexive
  <2>6. \A k \in l .. l : ~Less(b[i], c[k])
    BY <1>1, <2>3
  <2>7. \A k \in u - 1 .. u : ~Less(c[k], b[i])
    BY <1>1, <2>3, <2>5
  <2>8. Divided'
    BY <2>1, <2>6, <2>7, Constants DEF Divided
  <2> QED BY <2>1, <2>4, <2>8 DEF Order, Accepted
<1> QED BY <1>3, <1>4

LEMMA MiddleOrder ==
  ASSUME IsOrder, Inv, Order, UNCHANGED <<less, given>>, NEW answer \in {"yes", "no"}, Middle(answer)
  PROVE  Order'
<1>1. pc = "middle" /\ answer \in less[<<a[i], a[l]>>]
  BY Asked DEF Middle
<1>2. /\ n \in Nat /\ l \in 1 .. n /\ u \in 1 .. n /\ i \in 1 .. n /\ l < i /\ i < u
      /\ 1 .. n \subseteq Cells
  BY <1>1, LengthIsNat DEF Inv, Shape, Place, Cells
<1>3. (\A k \in 1 .. n : a[k] \in Values) /\ ~Less(a[u], a[l])
  BY <1>1 DEF Inv, Sentinels
<1>4. CASE answer = "yes"
  <2> DEFINE b == set2(a, i, l)
  <2>1. Separated(b)
    BY <1>1, <1>2, SwapSeparated DEF Inv, Shape, Order
  <2>2. /\ b \in [Cells -> Anything] /\ b[i] = a[l] /\ b[l] = a[i]
        /\ \A k \in Cells \ {i, l} : b[k] = a[k]
    <3>1. i \in Cells /\ l \in Cells /\ given \in Seq(Values) /\ a \in [Cells -> Anything]
      BY <1>2 DEF Inv, Shape
    <3> HIDE DEF b
    <3> QED BY <3>1, SwapKeeps DEF b
  <2>3. Partition(b)
    BY <1>4 DEF Middle
  <2> HIDE DEF b
  <2>4. (\A k \in 1 .. n : b[k] \in Values) /\ b[u] = a[u]
    BY <1>2, <1>3, <2>2
  <2>5. ~Less(a[l], a[i])
    BY <1>1, <1>2, <1>3, <1>4, Answered
  <2> QED BY <1>1, <1>3, <2>1, <2>2, <2>3, <2>4, <2>5, PartitionOrder
<1>5. CASE answer = "no"
  <2>1. pc' = "high" /\ UNCHANGED <<a, l, u, i, j, P, todo>>
    BY <1>5 DEF Middle
  <2> QED BY <1>1, <2>1, SameRanges DEF Inv, Shape, Order, Accepted, Divided
<1> QED BY <1>4, <1>5

LEMMA HighOrder ==
  ASSUME IsOrder, Inv, Order, UNCHANGED <<less, given>>, NEW answer \in {"yes", "no"}, High(answer)
  PROVE  Order'
<1>1. pc = "high" /\ answer \in less[<<a[u], a[i]>>]
  BY Asked DEF High
<1>2. /\ n \in Nat /\ l \in 1 .. n /\ u \in 1 .. n /\ i \in 1 .. n /\ l < i /\ i < u
      /\ 1 .. n \subseteq Cells
  BY <1>1, LengthIsNat DEF Inv, Shape, Place, Cells
<1>3. (\A k \in 1 .. n : a[k] \in Values) /\ ~Less(a[u], a[l]) /\ ~Less(a[i], a[l])
  BY <1>1 DEF Inv, Sentinels
<1>4. answer = "yes" => ~Less(a[i], a[u])
  BY <1>1, <1>2, <1>3, Answered
<1>5. answer = "no" => ~Less(a[u], a[i])
  BY <1>1, <1>2, <1>3, Answered
<1> DEFINE b == IF answer = "yes" THEN set2(a, i, u) ELSE a
<1>6. Partition(b)
  BY DEF High
<1>7. /\ set2(a, i, u) \in [Cells -> Anything] /\ set2(a, i, u)[i] = a[u] /\ set2(a, i, u)[u] = a[i]
      /\ \A k \in Cells \ {i, u} : set2(a, i, u)[k] = a[k]
  BY <1>2, SwapKeeps DEF Inv, Shape
<1>8. b \in [Cells -> Anything] /\ (\A k \in 1 .. n : b[k] \in Values) /\ b[l] = a[l]
  BY <1>2, <1>3, <1>7 DEF Inv, Shape
<1>9. Separated(b)
  <2>1. Separated(set2(a, i, u))
    BY <1>1, <1>2, SwapSeparated DEF Inv, Shape, Order
  <2> QED BY <2>1 DEF Order
<1>10. ~Less(b[i], b[l]) /\ ~Less(b[u], b[i])
  BY <1>2, <1>3, <1>4, <1>5, <1>7
<1> HIDE DEF b
<1> QED BY <1>1, <1>6, <1>8, <1>9, <1>10, PartitionOrder

LEMMA UpOrder ==
  ASSUME IsOrder, Inv, Order, UNCHANGED <<less, given>>, NEW answer \in {"yes", "no"}, Up(answer)
  PROVE  Order'
<1>1. pc = "up" /\ answer \in less[<<a[i + 1], P>>]
  BY Asked DEF Up
<1>2. /\ n \in Nat /\ l \in 1 .. n /\ u \in 1 .. n /\ i \in 1 .. n /\ i + 1 < u /\ l <= i
      /\ P \in Values /\ a[i + 1] \in Values
  BY <1>1, LengthIsNat DEF Inv, Shape, Place, Sentinels, InRange
<1>3. i' = i + 1 /\ UNCHANGED <<a, l, u, j, P, todo>>
  BY DEF Up
<1>4. pc' = IF answer = "no" THEN "down" ELSE "up"
  <2>1. ~(i + 1 > u)
    BY <1>2
  <2> QED BY <2>1 DEF Up
<1>5. Apart' /\ Separated(a)'
  BY <1>1, <1>3, <1>4, SameRanges DEF Inv, Shape, Order
<1>6. (\A k \in l .. i : ~Less(P, a[k])) /\ \A k \in j .. u : ~Less(a[k], P)
  BY <1>1 DEF Order, Divided
<1>7. CASE answer = "yes"
  <2>1. ~Less(P, a[i + 1])
    BY <1>1, <1>2, <1>7, Answered
  <2>2. \A k \in l .. i + 1 : ~Less(P, a[k])
    BY <1>2, <1>6, <2>1
  <2>3. Divided'
    BY <1>3, <1>4, <1>6, <1>7, <2>2, Constants DEF Divided
  <2> QED BY <1>4, <1>5, <2>3 DEF Order, Accepted
<1>8. CASE answer = "no"
  <2>1. ~Less(a[i + 1], P)
    BY <1>1, <1>2, <1>8, Answered
  <2>2. \A k \in l .. (i + 1) - 1 : ~Less(P, a[k])
    BY <1>2, <1>6
  <2>3. Divided'
    BY <1>3, <1>4, <1>6, <1>8, <2>1, <2>2, Constants DEF Divided
  <2> QED BY <1>4, <1>5, <2>3 DEF Order, Accepted
<1> QED BY <1>7, <1>8

LEMMA DownOrder ==
  ASSUME IsOrder, Inv, Order, UNCHANGED <<less, given>>, NEW answer \in {"yes", "no"}, Down(answer)
  PROVE  Order'
<1>1. pc = "down" /\ answer \in less[<<P, a[j - 1]>>]
  BY Asked DEF Down
<1>2. /\ n \in Nat /\ l \in 1 .. n /\ u \in 1 .. n /\ i \in 1 .. n /\ j \in 1 .. n /\ l < i /\ i < u
      /\ l < j /\ j < u /\ P \in Values /\ a[u - 1] = P /\ u - 1 \in 1 .. n /\ j - 1 \in 1 .. n
      /\ 1 .. n \subseteq Cells
  BY <1>1, LengthIsNat DEF Inv, Shape, Place, Sentinels, InRange, Cells
<1>3. \A k \in 1 .. n : a[k] \in Values
  BY DEF Inv, Sentinels
<1>4. /\ ~Less(a[i], P)
      /\ \A k \in l .. i - 1 : ~Less(P, a[k])
      /\ \A k \in j .. u : ~Less(a[k], P)
  BY <1>1 DEF Order, Divided
<1>5. j' = j - 1 /\ UNCHANGED P
  BY DEF Down
<1>6. CASE answer = "yes"
  <2>1. ~Less(a[j - 1], P)
    BY <1>1, <1>2, <1>3, <1>6, Answered
  <2>2. pc' = "down" /\ UNCHANGED <<a, l, u, i, todo>>
    <3>1. ~(j - 1 < l)
      BY <1>2
    <3> QED BY <1>6, <3>1 DEF Down
  <2>3. \A k \in j - 1 .. u : ~Less(a[k], P)
    BY <1>2, <1>4, <2>1
  <2>4. Divided'
    BY <1>4, <1>5, <2>2, <2>3, Constants DEF Divided
  <2> QED BY <1>1, <2>2, <2>4, SameRanges DEF Inv, Shape, Order, Accepted
<1>7. CASE answer = "no" /\ j - 1 < i
  <2> DEFINE c == set2(a, u - 1, i)
  <2>1. a' = c /\ Recurse /\ UNCHANGED i
    BY <1>7 DEF Down
  <2>2. /\ c[u - 1] = a[i] /\ c[i] = P
        /\ \A k \in Cells \ {u - 1, i} : c[k] = a[k]
    <3>1. i \in Cells /\ u - 1 \in Cells /\ given \in Seq(Values) /\ a \in [Cells -> Anything]
      BY <1>2 DEF Inv, Shape
    <3> HIDE DEF c
    <3> QED BY <1>2, <3>1, SwapKeeps DEF c
  <2>3. Separated(c)
    BY <1>1, <1>2, SwapSeparated DEF Inv, Shape, Order
  <2> HIDE DEF c
  <2>4. \A k \in 1 .. n : c[k] \in Values
    BY <1>2, <1>3, <2>2
  <2>5. ~Less(P, P)
    BY <1>2, Irreflexive
  <2>6. \A k \in 1 .. n : l <= k /\ k <= i => ~Less(P, c[k])
    BY <1>2, <1>4, <2>2, <2>5
  <2>7. \A k \in 1 .. n : i <= k /\ k <= u => ~Less(c[k], P)
    BY <1>2, <1>4, <1>7, <2>2, <2>5
  <2>8. ASSUME NEW k \in 1 .. n, NEW m \in 1 .. n, l <= k, k < m, m <= u, k <= i, i <= m
        PROVE  ~Less(c[m], c[k])
    <3>1. c[k] \in Values /\ c[m] \in Values /\ ~Less(P, c[k]) /\ ~Less(c[m], P)
      BY <2>4, <2>6, <2>7, <2>8
    <3> QED BY <1>2, <3>1, Transitive
  <2> QED BY <1>1, <1>2, <2>1, <2>3, <2>8, RecurseSeparated DEF Inv, Order
<1>8. CASE answer = "no" /\ ~(j - 1 < i)
  <2> DEFINE c == set2(a, i, j - 1)
  <2>1. a' = c /\ pc' = "up" /\ UNCHANGED <<l, u, i, todo>>
    BY <1>8 DEF Down
  <2>2. /\ c[i] = a[j - 1] /\ c[j - 1] = a[i]
        /\ \A k \in Cells \ {i, j - 1} : c[k] = a[k]
    <3> HIDE DEF c
    <3> QED BY <1>2, SwapKeeps DEF Inv, Shape, c
  <2>3. Separated(c)
    BY <1>1, <1>2, SwapSeparated DEF Inv, Shape, Order
  <2> HIDE DEF c
  <2>4. ~Less(P, a[j - 1])
    BY <1>1, <1>2, <1>3, <1>8, Answered
  <2>5. \A k \in l .. i : ~Less(P, c[k])
    <3>1. ASSUME NEW k \in l .. i - 1 PROVE c[k] = a[k]
      BY <1>2, <1>8, <2>2
    <3> QED BY <1>2, <1>4, <2>2, <2>4, <3>1
  <2>6. \A k \in j - 1 .. u : ~Less(c[k], P)
    <3>1. ASSUME NEW k \in j .. u PROVE c[k] = a[k]
      BY <1>2, <1>8, <2>2
    <3> QED BY <1>2, <1>4, <2>2, <3>1
  <2>7. Divided'
    BY <1>5, <2>1, <2>5, <2>6, Constants DEF Divided
  <2> QED BY <1>1, <2>1, <2>3, <2>7, SameRanges DEF Inv, Shape, Order, Accepted
<1> QED BY <1>6, <1>7, <1>8

LEMMA FailsOrder ==
  ASSUME Inv, Order, UNCHANGED <<less, given>>, Fails
  PROVE  Order'
<1>1. pc # "done" /\ pc' = "error" /\ UNCHANGED <<a, l, u, i, j, P, todo>>
  BY DEF Fails, sort_comp, Compared
<1> QED BY <1>1, SameRanges DEF Inv, Shape, Order, Accepted, Divided

-----------------------------------------------------------------------------
LEMMA OrderInvariance == Spec => [](IsOrder => Order)
<1>1. Init => (IsOrder => Order)
  BY InitInv, InitOrder DEF Inv, Shape
<1>2. Inv /\ (IsOrder => Order) /\ [Next]_vars => (IsOrder => Order)'
  <2> SUFFICES ASSUME Inv, IsOrder => Order, [Next]_vars, IsOrder' PROVE Order'
    OBVIOUS
  <2>1. UNCHANGED <<less, given>>
    BY DEF Next, auxsort, Ended, vars
  <2>2. IsOrder /\ Order
    BY <2>1, Constants
  <2>3. CASE auxsort
    BY <2>1, <2>2, <2>3, ShortOrder, LowOrder, MiddleOrder, HighOrder, UpOrder, DownOrder, FailsOrder
       DEF auxsort
  <2>4. CASE UNCHANGED vars
    <3>1. pc' = pc /\ n' = n /\ (\A x, y : Less(x, y)' = Less(x, y)) /\ UNCHANGED <<a, l, u, i, j, P, todo>>
      BY <2>1, <2>4, Constants DEF vars
    <3>2. Apart' /\ Separated(a)'
      BY <2>2, <3>1 DEF Order, Apart, Separated, Together, Inside
    <3>3. Divided'
      BY <2>2, <3>1 DEF Order, Divided
    <3> QED BY <2>2, <3>1, <3>2, <3>3 DEF Order, Accepted
  <2> QED BY <2>3, <2>4 DEF Next, Ended
<1> QED BY <1>1, <1>2, Invariance, PTL DEF Spec

(* With an order function table.sort leaves the array in order, and never  *)
(* says "invalid order function for sorting": for arrays of any length.    *)
THEOREM SortSorts == Spec => []SortedAtEnd
<1>1. Inv /\ (IsOrder => Order) => SortedAtEnd
  <2> SUFFICES ASSUME Inv, IsOrder, Order PROVE Sorted /\ Accepted
    BY DEF SortedAtEnd
  <2>1. ASSUME pc = "done", NEW k \in 1 .. n - 1
        PROVE  ~Less(a[k + 1], a[k])
    <3>1. n \in Nat /\ Len(todo) = 0
      BY <2>1, LengthIsNat, EmptySeq DEF Order, Inv, Shape
    <3>2. k \in 1 .. n /\ k + 1 \in 1 .. n /\ k < k + 1
      BY <2>1, <3>1
    <3> QED BY <2>1, <3>1, <3>2 DEF Order, Separated, Together
  <2> QED BY <2>1 DEF Sorted, Order
<1> QED BY <1>1, Invariance, OrderInvariance, PTL
=============================================================================
