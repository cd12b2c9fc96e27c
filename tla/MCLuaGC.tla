------------------------------ MODULE MCLuaGC -------------------------------
(***************************************************************************)
(* A small instance of LuaGC.  The heaps are states a program reaches      *)
(* before the first collection.                                            *)
(***************************************************************************)
EXTENDS LuaGC, TLC

CONSTANTS o1, o2, o3

\* The fields that an object has are given, the others are empty.
Fresh == [tt |-> "free", meta |-> nil, attr |-> {}, key |-> nil, val |-> nil, upval |-> nil,
          thread |-> nil, level |-> 0, stack |-> <<>>, text |-> 0]
Thread(values)    == [Fresh EXCEPT !.tt = "thread", !.stack = values]
Table(says, m, k, v) == [Fresh EXCEPT !.tt = "table", !.meta = m, !.attr = says, !.key = k, !.val = v]
Userdata(m)       == [Fresh EXCEPT !.tt = "userdata", !.meta = m]
Function(u)       == [Fresh EXCEPT !.tt = "function", !.upval = u]
OpenUpval(t, n)   == [Fresh EXCEPT !.tt = "upval", !.thread = t, !.level = n]

\* the main thread's stack, the value of the only global, other objects
Heap(values, global, others) ==
    LET obj == Main :> Thread(values) @@ Globals :> Table({}, nil, IF global = nil THEN nil ELSE number, global)
               @@ others @@ [a \in Addr |-> Fresh]
    IN  [field \in DOMAIN Fresh |-> [a \in Addr |-> obj[a][field]]]

MCHeaps == {
    Heap(<<>>, nil, <<>>),
    \* a weak table in a global that has a userdata as its key or value
    Heap(<<o3>>, o1, o1 :> Table({}, o2, o3, number) @@ o2 :> Table({"k", "gc"}, nil, nil, nil)
                     @@ o3 :> Userdata(o2)),
    Heap(<<o3>>, o1, o1 :> Table({}, o2, number, o3) @@ o2 :> Table({"v"}, nil, nil, nil)
                     @@ o3 :> Userdata(nil)),
    \* a userdata with a finalizer
    Heap(<<o1>>, nil, o1 :> Userdata(o2) @@ o2 :> Table({"gc"}, nil, nil, nil)),
    \* a closure over a variable of the main thread, and of a coroutine
    Heap(<<number>>, o1, o1 :> Function(o2) @@ o2 :> OpenUpval(Main, 1)),
    Heap(<<o1>>, o2, o1 :> Thread(<<number>>) @@ o2 :> Function(o3) @@ o3 :> OpenUpval(o1, 1))}
MCAttributes == {{}, {"gc"}}
=============================================================================
