------------------------------- MODULE LuaMap -------------------------------
(***************************************************************************)
(* What a Lua table promises to the program: a map from keys to values,    *)
(* and loops with next that visit each entry once, as long as the program  *)
(* assigns to no field that does not exist.                                *)
(***************************************************************************)
CONSTANTS Keys, nil

VARIABLES content,  \* the value of each key, nil for most
          todo,     \* in a loop, the keys it has not visited
          looping

vars == <<content, todo, looping>>

Init == /\ content = [k \in Keys |-> nil]
        /\ todo = {} /\ looping = FALSE

Present == {k \in Keys : content[k] # nil}

Assign(k, v) == /\ looping => content[k] # nil
                /\ content' = [content EXCEPT ![k] = v]
                /\ todo' = IF v = nil THEN todo \ {k} ELSE todo
                /\ UNCHANGED looping
\* A list of values at the end of a constructor, for the keys 1 to n.
AssignList(V) == /\ ~looping
                 /\ content' = [k \in Keys |-> IF k \in DOMAIN V THEN V[k] ELSE content[k]]
                 /\ UNCHANGED <<todo, looping>>
\* The collector empties entries of weak tables.
Clear(K) == /\ content' = [k \in Keys |-> IF k \in K THEN nil ELSE content[k]]
            /\ todo' = todo \ K
            /\ UNCHANGED looping

Begin == /\ ~looping /\ looping' = TRUE
         /\ todo' = Present
         /\ UNCHANGED content
Visit(k) == /\ k \in todo
            /\ todo' = todo \ {k}
            /\ UNCHANGED <<content, looping>>
End == /\ looping /\ todo = {}
       /\ looping' = FALSE
       /\ UNCHANGED <<content, todo>>
\* A break.
Leave == /\ looping /\ looping' = FALSE
         /\ todo' = {}
         /\ UNCHANGED content
=============================================================================
