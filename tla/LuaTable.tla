------------------------------ MODULE LuaTable ------------------------------
(***************************************************************************)
(* The tables of the Lua core (ltable.c): an array part for the keys 1 to  *)
(* sizearray, and a hash part, a chained scatter table with Brent's        *)
(* variation whose size is a power of two.  One table, a program that      *)
(* assigns to it and loops over it, and the collector, which takes the     *)
(* keys of empty entries for dead (lgc.c) and empties those of weak tables.*)
(***************************************************************************)
EXTENDS Integers, FiniteSetsExt

CONSTANTS Ints, Names, Objects,  \* keys: integers, strings, other objects
          nil, Idle,              \* no value; no loop
          Hash,                  \* what the main position of a key is made of
          MaxInt,                \* MAX_INT
          Narrays, Nhashes       \* the sizes a table is created with

VARIABLES t,       \* the table
          cursor,  \* where a loop is: Idle, nil at its start, or a key
          visited  \* what it has visited

vars == <<t, cursor, visited>>

Keys == Ints \cup Names \cup Objects
\* Each key has one value of its own, told apart from those of other keys.
ValueOf(k) == <<k>>

\* Ints are the numbers that fit an int: with others it is as with objects.
ASSUME TableAssumption ==
    /\ IsFiniteSet(Keys)
    /\ MaxInt \in Nat
    /\ Ints \subseteq {i \in Int : i <= MaxInt}
    /\ (Names \cup Objects) \cap Int = {} /\ Names \cap Objects = {}
    /\ Hash \in [Keys -> Nat]
    /\ nil \notin Keys /\ Idle \notin Keys \cup {nil}
    /\ \A k \in Keys : ValueOf(k) # nil
    /\ Narrays \subseteq Nat /\ Nhashes \subseteq Nat

---------------------------------------------------------------------------
(***************************************************************************)
(* Nodes are numbered from 0, NULL is -1, and a table holds the keys, the  *)
(* values and the links of its nodes.  A table without a hash part has the *)
(* dummy node, which nothing matches and nothing is put into: size is 0.   *)
(***************************************************************************)
NULL == -1
Nodes(h) == 0 .. h.size - 1
sizenode(h) == IF h.size = 0 THEN 1 ELSE h.size

\* hashmod avoids powers of two, hashpow2 is for strings; 0 may be -0.
hashmod(h, n) == n % (IF sizenode(h) = 1 THEN 1 ELSE sizenode(h) - 1)
mainposition(h, k) == IF k = 0 THEN 0
                      ELSE IF k \in Names THEN Hash[k] % sizenode(h)
                      ELSE hashmod(h, Hash[k])

\* The nodes from n on, by the links next: enough steps.
From(next, n) ==
    LET nodes[m \in Nat] ==
            [x \in DOMAIN next \cup {NULL} |-> IF x = NULL THEN {} ELSE
                 {x} \cup IF m = 0 THEN {} ELSE nodes[m - 1][next[x]]]
    IN  nodes[Cardinality(DOMAIN next)][n]
First(next, S) == IF S = {} THEN NULL ELSE CHOOSE x \in S : \A y \in S \ {x} : y \in From(next, x)

\* The first node with key k of its chain, dead keys looked at or not.
Seek(h, k, dead) == First(h.next, {x \in Nodes(h) :
                        /\ h.key[x] = k /\ (dead \/ ~h.dead[x])
                        /\ x \in From(h.next, mainposition(h, k))})
NodeOf(h, k)     == Seek(h, k, FALSE)
InArray(h, k)    == k \in Ints /\ 1 <= k /\ k <= h.sizearray

\* luaH_get, with luaH_getnum and luaH_getstr.
luaH_get(h, k) == IF InArray(h, k) THEN h.array[k]
                  ELSE LET n == NodeOf(h, k) IN IF n = NULL THEN nil ELSE h.val[n]

---------------------------------------------------------------------------
(***************************************************************************)
(* Sizes                                                                   *)
(***************************************************************************)
twoto[x \in Nat] == IF x = 0 THEN 1 ELSE 2 * twoto[x - 1]
ceillog2(x) == Min({i \in 0 .. x : x <= twoto[i]})

setnodevector(h, size) ==
    LET sz == IF size = 0 THEN 0 ELSE twoto[ceillog2(size)]
        All(x) == [i \in 0 .. sz - 1 |-> x]
    IN  [h EXCEPT !.size = sz, !.key = All(nil), !.dead = All(FALSE), !.val = All(nil),
                  !.next = All(NULL), !.lastfree = sz]
setarrayvector(h, size) ==
    [h EXCEPT !.array = [i \in 1 .. size |-> IF i <= h.sizearray THEN @[i] ELSE nil],
              !.sizearray = size]
NoTable == [sizearray |-> 0, array |-> <<>>, size |-> 0, key |-> <<>>, dead |-> <<>>,
            val |-> <<>>, next |-> <<>>, lastfree |-> 0]
luaH_new(narray, nhash) == setnodevector(setarrayvector(NoTable, narray), nhash)

\* numusearray, numusehash and countint: keys in use, and those of them that
\* could be in the array part.
HashKeys(h) == {h.key[n] : n \in {x \in Nodes(h) : h.val[x] # nil}}
UsedKeys(h) == {i \in 1 .. h.sizearray : h.array[i] # nil} \cup HashKeys(h)
Candidates(keys) == {k \in keys \cap Ints : k > 0}

\* computesizes: the largest size of which more than half would be in use.
\* a mutant of computesizes: half is enough
HalfInUse(ints) ==
    Max({0} \cup {twoto[i] : i \in {j \in 0 .. Cardinality(ints) :
                     /\ twoto[j] \div 2 < Cardinality(ints)
                     /\ \E k \in ints : twoto[j] \div 2 < k /\ k <= twoto[j]
                     /\ Cardinality({k \in ints : k <= twoto[j]}) >= twoto[j] \div 2}})
computesizes(ints) ==
    Max({0} \cup {twoto[i] : i \in {j \in 0 .. Cardinality(ints) :
                     /\ twoto[j] \div 2 < Cardinality(ints)
                     /\ \E k \in ints : twoto[j] \div 2 < k /\ k <= twoto[j]
                     /\ Cardinality({k \in ints : k <= twoto[j]}) > twoto[j] \div 2}})

---------------------------------------------------------------------------
(***************************************************************************)
(* Insertion                                                               *)
(***************************************************************************)
\* getfreepos: the next free place below lastfree; a dead key is not free.
Frees(h) == {i \in 0 .. h.lastfree - 1 : h.key[i] = nil}

\* newkey, when a free place n was found for a collision at mp: a colliding
\* node that is not in its own main position moves there, otherwise the new
\* key goes there.
\* a mutant of Displaced: nobody moves
NobodyMoves(h, mp, n) ==
    [at |-> n, table |-> [h EXCEPT !.lastfree = n, !.next[n] = h.next[mp], !.next[mp] = n]]
Displaced(h, mp, n) ==
    LET othern == mainposition(h, h.key[mp])
        prev   == CHOOSE x \in From(h.next, othern) : h.next[x] = mp
    IN  IF othern # mp
        THEN [at |-> mp, table |-> [h EXCEPT !.lastfree = n,
                   !.key[n] = h.key[mp], !.dead[n] = h.dead[mp], !.val[n] = h.val[mp], !.val[mp] = nil,
                   !.next[prev] = n, !.next[n] = h.next[mp], !.next[mp] = NULL]]
        ELSE [at |-> n, table |-> [h EXCEPT !.lastfree = n, !.next[n] = h.next[mp], !.next[mp] = n]]

newkey(h, k, v) ==
    LET mp == mainposition(h, k)
        d  == IF h.val[mp] = nil THEN [at |-> mp, table |-> h]
              ELSE Displaced(h, mp, Max(Frees(h)))
    IN  [d.table EXCEPT !.key[d.at] = k, !.dead[d.at] = FALSE, !.val[d.at] = v]
\* luaH_set where there is room for k.
Fits(h, k) == \/ InArray(h, k)
              \/ NodeOf(h, k) # NULL
              \/ h.size > 0 /\ h.val[mainposition(h, k)] = nil
              \/ Frees(h) # {}
Put(h, k, v) == IF InArray(h, k) THEN [h EXCEPT !.array[k] = v]
                ELSE IF NodeOf(h, k) # NULL THEN [h EXCEPT !.val[NodeOf(h, k)] = v]
                ELSE newkey(h, k, v)

\* What the array part loses goes into the hash part, then what was there,
\* from its end; there is room for it.
Old(h, i) == IF i <= h.sizearray THEN [key |-> i, val |-> h.array[i]]
             ELSE LET n == h.sizearray + h.size - i IN [key |-> h.key[n], val |-> h.val[n]]
resize(h, nasize, nhsize) ==
    LET filled[i \in 0 .. h.sizearray + h.size] ==
            IF i = 0 THEN setarrayvector(setnodevector(h, nhsize), nasize)
            ELSE LET old == Old(h, i)
                 IN  IF old.val = nil \/ (i <= h.sizearray /\ i <= nasize) THEN filled[i - 1]
                     ELSE Put(filled[i - 1], old.key, old.val)
    IN  filled[h.sizearray + h.size]
luaH_resizearray(h, nasize) == resize(h, nasize, h.size)
rehash(h, k) ==
    LET keys == UsedKeys(h) \cup {k}
        na   == computesizes(Candidates(keys))
    IN  resize(h, na, Cardinality({j \in keys : ~(j \in Ints /\ 1 <= j /\ j <= na)}))
\* t[k] = v, which may have to make the table larger.
luaH_set(h, k, v) == IF Fits(h, k) THEN Put(h, k, v) ELSE Put(rehash(h, k), k, v)

---------------------------------------------------------------------------
(***************************************************************************)
(* Traversal.  Elements are numbered, those of the array part first.       *)
(***************************************************************************)
\* a mutant of findindex: dead keys are not recognised
LiveOnly(h, k) == IF k = nil THEN -1 ELSE IF InArray(h, k) THEN k - 1
                  ELSE IF NodeOf(h, k) = NULL THEN -2 ELSE NodeOf(h, k) + h.sizearray
\* -2 is the error "invalid key to 'next'".
findindex(h, k) ==
    IF k = nil THEN -1
    ELSE IF InArray(h, k) THEN k - 1
    ELSE LET n == Seek(h, k, TRUE) IN IF n = NULL THEN -2 ELSE n + h.sizearray
KeyAt(h, i) == IF i < h.sizearray THEN i + 1 ELSE h.key[i - h.sizearray]
ValAt(h, i) == IF i < h.sizearray THEN h.array[i + 1] ELSE h.val[i - h.sizearray]
\* a mutant of luaH_next: in the hash part it begins with the second node
SkipsNode(h, k) ==
    LET at   == findindex(h, k)
        left == {i \in 0 .. h.sizearray + h.size - 1 : i > at /\ i # h.sizearray /\ ValAt(h, i) # nil}
    IN  IF left = {} THEN -1 ELSE Min(left)
\* luaH_next: the number of the next element, or -1.
luaH_next(h, k) ==
    LET at   == findindex(h, k)
        left == {i \in 0 .. h.sizearray + h.size - 1 : i > at /\ ValAt(h, i) # nil}
    IN  IF left = {} THEN -1 ELSE Min(left)

---------------------------------------------------------------------------
(***************************************************************************)
(* The border of the operator #                                            *)
(***************************************************************************)
getnum(h, j) == IF j \in Ints THEN luaH_get(h, j) ELSE nil
\* Of these searches, enough rounds.
binary(h, i, j) ==
    LET halved[n \in 0 .. j - i] ==
            IF n = 0 THEN [i |-> i, j |-> j]
            ELSE LET b == halved[n - 1]
                     m == (b.i + b.j) \div 2
                 IN  IF b.j - b.i <= 1 THEN b
                     ELSE IF getnum(h, m) = nil THEN [b EXCEPT !.j = m] ELSE [b EXCEPT !.i = m]
    IN  halved[j - i].i
linear(h) == Min({i \in 1 .. MaxInt + 1 : getnum(h, i) = nil}) - 1
unbound_search(h, j) ==
    LET doubled[n \in 0 .. MaxInt] ==
            IF n = 0 THEN [i |-> j, j |-> j + 1]
            ELSE LET b == doubled[n - 1]
                 IN  IF getnum(h, b.j) = nil \/ 2 * b.j > MaxInt THEN b ELSE [i |-> b.j, j |-> 2 * b.j]
        b == doubled[MaxInt]
    IN  IF getnum(h, b.j) = nil THEN binary(h, b.i, b.j) ELSE linear(h)
\* a mutant of luaH_getn: the array part is taken for full
ArrayFull(h) == IF h.size = 0 THEN h.sizearray ELSE unbound_search(h, h.sizearray)
luaH_getn(h) == LET j == h.sizearray
                IN  IF j > 0 /\ h.array[j] = nil THEN binary(h, 0, j)
                    ELSE IF h.size = 0 THEN j ELSE unbound_search(h, j)

---------------------------------------------------------------------------
Init == /\ \E narray \in Narrays, nhash \in Nhashes : t = luaH_new(narray, nhash)
        /\ cursor = Idle /\ visited = {}

\* An assignment.  In a loop, only to fields that exist (the reference
\* manual of next), which may be cleared.
Assign(k) == \E v \in {nil, ValueOf(k)} :
    /\ cursor # Idle => luaH_get(t, k) # nil
    /\ t' = luaH_set(t, k, v)
    /\ UNCHANGED <<cursor, visited>>

\* OP_SETLIST with the values of a call: the array part is made large enough
\* at once, and the values go there.
SetList(n) ==
    /\ cursor = Idle /\ n > 0
    /\ LET large == IF n > t.sizearray THEN luaH_resizearray(t, n) ELSE t
       IN  t' = [large EXCEPT !.array = [i \in DOMAIN @ |-> IF i <= n THEN ValueOf(i) ELSE @[i]]]
    /\ UNCHANGED <<cursor, visited>>

\* traversetable and cleartable of the collector: weak entries lose their
\* values, and the keys of empty entries are dead, strings too.
Collect == \E cleared \in SUBSET (Objects \cap HashKeys(t)) :
    LET Dying(n) == t.key[n] \in Names \cup Objects /\ (t.val[n] = nil \/ t.key[n] \in cleared)
    IN  /\ t' = [t EXCEPT !.dead = [n \in Nodes(t) |-> @[n] \/ Dying(n)],
                          !.val  = [n \in Nodes(t) |-> IF Dying(n) THEN nil ELSE @[n]]]
        /\ UNCHANGED <<cursor, visited>>

Begin == /\ cursor = Idle
         /\ cursor' = nil /\ visited' = {}
         /\ UNCHANGED t
Advance == /\ cursor # Idle
           /\ findindex(t, cursor) # -2
           /\ \E i \in {luaH_next(t, cursor)} :
                 /\ cursor' = IF i = -1 THEN Idle ELSE KeyAt(t, i)
                 /\ visited' = IF i = -1 THEN {} ELSE visited \cup {KeyAt(t, i)}
           /\ UNCHANGED t
Leave == /\ cursor # Idle
         /\ cursor' = Idle /\ visited' = {}
         /\ UNCHANGED t

Next == \/ \E k \in Keys : Assign(k)
        \/ \E n \in {i \in Ints : 1 .. i \subseteq Ints} : SetList(n)
        \/ Collect \/ Begin \/ Advance \/ Leave
\* A loop that has begun goes on.
Spec == Init /\ [][Next]_vars /\ WF_vars(Advance)

---------------------------------------------------------------------------
(***************************************************************************)
(* Properties                                                              *)
(***************************************************************************)
\* The program sees a map, whatever the collisions: the table implements
\* LuaMap.  A step of a loop visits an entry of those left, and ends the loop
\* only when none is left; only a break may leave some.
content  == [k \in Keys |-> luaH_get(t, k)]
todo     == IF cursor = Idle THEN {} ELSE {k \in Keys \ visited : luaH_get(t, k) # nil}
Map      == INSTANCE LuaMap WITH looping <- cursor # Idle
Changed  == {k \in Keys : luaH_get(t, k) # luaH_get(t', k)}
LoopStep == Map!End \/ (cursor' \in Keys /\ Map!Visit(cursor'))
MapStep  == \/ Map!Begin \/ Map!Leave \/ LoopStep
            \/ \E k \in Changed : Map!Assign(k, luaH_get(t', k))
            \/ \E n \in Ints : Map!AssignList([i \in 1 .. n |-> ValueOf(i)])
            \/ Changed \subseteq Objects /\ Map!Clear(Changed)
IsMap    == Map!Init /\ [][MapStep]_(Map!vars) /\ [][Advance => LoopStep]_vars

\* "A main invariant of these tables is that, if an element is not in its
\* main position, then the colliding element is in its own main position."
\* (ltable.c)  The element is then in the chain of that one, so that every
\* entry the loops see is the one luaH_get finds.
MainPosition ==
    \A n \in Nodes(t) :
        LET k  == t.key[n]
            mp == mainposition(t, k)
        IN  t.val[n] # nil =>
               /\ NodeOf(t, k) = n
               /\ n # mp /\ t.val[mp] # nil => mainposition(t, t.key[mp]) = mp
               /\ ~InArray(t, k)

\* # gives a border: the value before it is there, the one after it is not.
Border == LET n == luaH_getn(t)
          IN  /\ n > 0 => getnum(t, n) # nil
              /\ getnum(t, n + 1) = nil

\* When an assignment changes the sizes, the array part gets the largest power
\* of two of which more than half the slots are in use, by the new key too,
\* and the hash part has room for the rest.
InUse(h, k)    == {j \in Keys : j = k \/ luaH_get(h, j) # nil}
BestSize(keys) == Max({0} \cup {n \in {twoto[i] : i \in 0 .. MaxInt} :
                                   2 * Cardinality({j \in keys \cap Ints : 1 <= j /\ j <= n}) > n})
Resized == t'.sizearray # t.sizearray \/ t'.size # t.size
ArrayWellUsed ==
    [][Resized => \A k \in Keys : Assign(k) =>
          /\ t'.sizearray = BestSize(InUse(t', k))
          /\ \A j \in InUse(t', k) : InArray(t', j) \/ NodeOf(t', j) # NULL]_vars

\* A loop ends.
LoopEnds == cursor # Idle ~> cursor = Idle
=============================================================================
