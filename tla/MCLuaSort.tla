----------------------------- MODULE MCLuaSort -----------------------------
(***************************************************************************)
(* Three groups: arrays of up to six elements with functions that are      *)
(* orders, or would be but for nan; all functions of two elements and nil, *)
(* with arrays of four and five; functions that answer at random.          *)
(***************************************************************************)
EXTENDS LuaSort

MCValues == 1..3
Function(f(_, _), others) ==
    [q \in Anything \X Anything |-> IF nil \in {q[1], q[2]} THEN others ELSE IF f(q[1], q[2]) THEN {"yes"} ELSE {"no"}]
Ranked(rank) == Function(LAMBDA x, y : rank[x] < rank[y], Answers)
lua_lessthan == Function(LAMBDA x, y : x < y /\ 2 \notin {x, y}, {"error"})    \* 2 is nan
ArraysOf(S, lengths) == UNION {[1..m -> S] : m \in lengths}
Sorts(arrays, functions) == [array : arrays, less : functions]

Small == 1..2 \cup {nil}
Fixed(f) == [q \in Anything \X Anything |-> IF 3 \in {q[1], q[2]} THEN {"error"} ELSE f[q]]
Erratic  == [q \in Anything \X Anything |-> Answers]
MCInputs ==
    Sorts(ArraysOf(MCValues, 0..6), {Ranked(rank) : rank \in {<<1, 2, 3>>, <<1, 2, 1>>}} \cup {lua_lessthan})
    \cup Sorts(ArraysOf(1..2, {4}) \cup {<<1, 2, 2, 1, 2>>}, {Fixed(f) : f \in [Small \X Small -> {{"yes"}, {"no"}}]})
    \cup Sorts({<<1, 2, 3, 1>>, <<1, 2, 3, 2, 1>>}, {Erratic})
=============================================================================
