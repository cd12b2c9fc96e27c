------------------------------- MODULE LuaSort -------------------------------
(***************************************************************************)
(* table.sort (ltablib.c): quicksort in place, where each comparison is a  *)
(* call of a function of the program, which may answer anything.           *)
(*                                                                         *)
(* There is a step for each comparison.  a has the elements 1 to n of the  *)
(* table and those next to them, which a function that is no order makes   *)
(* the loops reach.  todo has the calls of auxsort that wait for another   *)
(* one, each with the range it will go on with.                            *)
(***************************************************************************)
EXTENDS Integers, Sequences, FiniteSets

CONSTANTS Values, nil,
          Inputs    \* sequences and order functions: the answers to x < y
Answers == {"yes", "no", "error"}
Anything == Values \cup {nil}
ASSUME Arguments == /\ nil \notin Values
                    /\ Inputs \subseteq [array : Seq(Values), less : [Anything \X Anything -> (SUBSET Answers) \ {{}}]]

VARIABLES less, given, a, l, u, i, j, P, pc, todo
vars == <<less, given, a, l, u, i, j, P, pc, todo>>

n       == Len(given)
Cells   == 0 .. n + 1
Table   == [k \in Cells |-> IF k \in 1..n THEN given[k] ELSE nil]
set2Lost(b, x, y) == [b EXCEPT ![x] = b[y]]    \* mutant
set2(b, x, y) == [b EXCEPT ![x] = b[y], ![y] = b[x]]

\* The two elements that are compared next.
Compared == CASE pc = "low" /\ l < u -> <<a[u], a[l]>>
              [] pc = "middle" -> <<a[i], a[l]>>
              [] pc = "high"   -> <<a[u], a[i]>>
              [] pc = "up"     -> <<a[i + 1], P>>
              [] pc = "down"   -> <<P, a[j - 1]>>
              [] OTHER         -> <<>>
sort_comp(answer) == Compared # <<>> /\ answer \in less[Compared]

Sort(from, to) == l' = from /\ u' = to /\ pc' = "low"
Return == IF todo = <<>> THEN pc' = "done" /\ UNCHANGED <<l, u, todo>>
          ELSE /\ Sort(todo[Len(todo)][1], todo[Len(todo)][2])
               /\ todo' = SubSeq(todo, 1, Len(todo) - 1)

Init == /\ \E input \in Inputs : less = input.less /\ given = input.array
        /\ a = Table /\ l = 1 /\ u = n /\ i = 0 /\ j = 0 /\ P = nil /\ pc = "low" /\ todo = <<>>

\* A range of one element, or none.
Short == pc = "low" /\ l >= u /\ Return /\ UNCHANGED <<a, i, j, P>>

Low(answer) ==
    /\ pc = "low" /\ sort_comp(answer)
    /\ a' = IF answer = "yes" THEN set2(a, l, u) ELSE a
    /\ IF u - l = 1 THEN Return /\ UNCHANGED i
       ELSE pc' = "middle" /\ i' = (l + u) \div 2 /\ UNCHANGED <<l, u, todo>>
    /\ UNCHANGED <<j, P>>

\* a[l], the element in the middle and a[u] are in order: b.
Partition(b) ==
    IF u - l = 2 THEN a' = b /\ Return /\ UNCHANGED <<i, j, P>>
    ELSE /\ a' = set2(b, i, u - 1) /\ P' = b[i]
         /\ i' = l /\ j' = u - 1 /\ pc' = "up" /\ UNCHANGED <<l, u, todo>>
Middle(answer) ==
    /\ pc = "middle" /\ sort_comp(answer)
    /\ IF answer = "yes" THEN Partition(set2(a, i, l)) ELSE pc' = "high" /\ UNCHANGED <<a, l, u, i, j, P, todo>>
High(answer) == pc = "high" /\ sort_comp(answer) /\ Partition(IF answer = "yes" THEN set2(a, i, u) ELSE a)

Up(answer) ==
    /\ pc = "up" /\ sort_comp(answer)
    /\ i' = i + 1
    /\ pc' = IF answer = "no" THEN "down" ELSE IF i + 1 > u THEN "invalid order function" ELSE "up"
    /\ UNCHANGED <<a, l, u, j, P, todo>>

\* The smaller part is sorted by another call, then the larger one by this.
\* Mutants: an element beside the pivot is left out; the larger part first;
\* one part with the pivot and all of the other.
RecurseBeside == IF i - l < u - i THEN Sort(l, i - 2) /\ todo' = Append(todo, <<i + 1, u>>)
                 ELSE Sort(i + 1, u) /\ todo' = Append(todo, <<l, i - 1>>)
RecurseLarger == IF i - l < u - i THEN Sort(i + 1, u) /\ todo' = Append(todo, <<l, i - 1>>)
                 ELSE Sort(l, i - 1) /\ todo' = Append(todo, <<i + 1, u>>)
RecurseWhole  == IF i - l < u - i THEN Sort(l, i - 1) /\ todo' = Append(todo, <<l, u>>)
                 ELSE Sort(i + 1, u) /\ todo' = Append(todo, <<l, i - 1>>)
Recurse ==
    IF i - l < u - i THEN Sort(l, i - 1) /\ todo' = Append(todo, <<i + 1, u>>)
    ELSE Sort(i + 1, u) /\ todo' = Append(todo, <<l, i - 1>>)
Down(answer) ==
    /\ pc = "down" /\ sort_comp(answer)
    /\ j' = j - 1
    /\ IF answer = "yes"
       THEN /\ pc' = IF j - 1 < l THEN "invalid order function" ELSE "down"
            /\ UNCHANGED <<a, l, u, i, todo>>
       ELSE IF j - 1 < i THEN a' = set2(a, u - 1, i) /\ Recurse /\ UNCHANGED i
       ELSE a' = set2(a, i, j - 1) /\ pc' = "up" /\ UNCHANGED <<l, u, i, todo>>
    /\ UNCHANGED P

Fails == sort_comp("error") /\ pc' = "error" /\ UNCHANGED <<a, l, u, i, j, P, todo>>

auxsort == /\ \/ Short
              \/ \E answer \in {"yes", "no"} : Low(answer) \/ Middle(answer) \/ High(answer) \/ Up(answer) \/ Down(answer)
              \/ Fails
           /\ UNCHANGED <<less, given>>
Ended == pc \in {"done", "error", "invalid order function"} /\ UNCHANGED vars
Next == auxsort \/ Ended
Spec == Init /\ [][Next]_vars /\ WF_vars(auxsort)

---------------------------------------------------------------------------
\* Strict and weak, as the manual asks of an order function (manual.html, 5.5).
Less(x, y) == less[<<x, y>>] = {"yes"}
IsOrder == /\ \A x, y \in Values : less[<<x, y>>] \in {{"yes"}, {"no"}}
           /\ \A x \in Values : ~Less(x, x)
           /\ \A x, y, z \in Values : Less(x, z) => Less(x, y) \/ Less(y, z)
           /\ \A x, y \in Values : ~(Less(x, y) /\ Less(y, x))

(***************************************************************************)
(* "so that not comp(a[i+1],a[i]) will be true after the sort"             *)
(* (manual.html:7204), and sort does not call an order no order.           *)
(***************************************************************************)
Sorted      == pc = "done" => \A k \in 1 .. n - 1 : ~Less(a[k + 1], a[k])
Accepted    == pc # "invalid order function"
SortedAtEnd == IsOrder => Sorted /\ Accepted

(***************************************************************************)
(* Whatever the function answers, no element is lost or doubled: the cells *)
(* from 0 to n + 1 have what they had, in another order, and no others are *)
(* read.  An order keeps the loops within the range that is being sorted,  *)
(* although they do not look for its ends.                                 *)
(***************************************************************************)
Count(b, v) == Cardinality({k \in Cells : b[k] = v})
SameElements(b, c) == \A v \in Anything : Count(b, v) = Count(c, v)
InCells == (pc = "up" => i + 1 \in Cells) /\ (pc = "down" => j - 1 \in Cells)
InRange == (pc = "up" => i + 1 < u) /\ (pc = "down" => j > l)
ElementsKept == SameElements(a, Table) /\ InCells /\ (IsOrder => InRange)

(***************************************************************************)
(* "assume array is smaller than 2^40" (ltablib.c:258): the calls that     *)
(* wait for another one are no more than the halvings of the array.        *)
(***************************************************************************)
twoTo[k \in Nat] == IF k = 0 THEN 1 ELSE 2 * twoTo[k - 1]
DepthBounded == todo # <<>> => twoTo[Len(todo)] <= n

(***************************************************************************)
(* A function that always gives the same answer makes no sort run forever, *)
(* be it an order or not.                                                  *)
(***************************************************************************)
SortEnds == (\A q \in DOMAIN less : Cardinality(less[q]) = 1) ~> pc \in {"done", "error", "invalid order function"}
=============================================================================
