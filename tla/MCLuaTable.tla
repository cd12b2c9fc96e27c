----------------------------- MODULE MCLuaTable -----------------------------
EXTENDS LuaTable
CONSTANTS name1, object1
\* In a hash part of size 2, everything collides but name1; in one of size 4, the
\* integers 1 and 4 with object1, which may be put where name1 and 2 belong.
MCHash == [k \in {1, 2, 4, name1, object1} |-> CASE k = 2 -> 2 [] k = 4 -> 6 [] OTHER -> 3]
=============================================================================
