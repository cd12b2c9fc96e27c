------------------------------ MODULE LuaDump ------------------------------
(***************************************************************************)
(* Compiled functions as files (ldump.c, lundump.c): string.dump and luac  *)
(* write them, the loader reads them and checks the code.                  *)
(*                                                                         *)
(* A chunk is a sequence of tokens, each what one call of DumpBlock        *)
(* writes: where one begins and ends is what writer and reader have to     *)
(* agree on.  The function is stripped, as by luac -s: no names, no lines. *)
(* S is the reader: what is still to be read, the last value, the error.   *)
(***************************************************************************)
EXTENDS LuaCheck

luaU_header == <<"header", <<"ESC Lua", 81, 0, 1, 4, 8, 4, 8, 0>>>>    \* sizes of a 64-bit machine
types       == <<"nil", "boolean", "lightuserdata", "number", "string">>
VARARG      == [HASARG |-> 1, ISVARARG |-> 2, NEEDSARG |-> 4]

DumpChar(y)   == <<<<"char", ((y + 128) % 256) - 128>>>>
DumpInt(x)    == <<<<"int", x>>>>
DumpNumber(x) == <<<<"lua_Number", x>>>>
DumpNULL      == <<<<"size_t", 0>>>>
DumpString(s) == <<<<"size_t", Len(s) + 1>>, <<"string", s>>>>
DumpVector(v) == DumpInt(Len(v)) \o IF v = <<>> THEN <<>> ELSE <<<<"vector", v>>>>

DumpConstant(o) ==
    DumpChar(SelectInSeq(types, LAMBDA t : t = o[1]) - 1)
    \o CASE o[1] = "nil"     -> <<>>
         [] o[1] = "boolean" -> DumpChar(IF o[2] THEN 1 ELSE 0)
         [] o[1] = "number"  -> DumpNumber(o[2])
         [] o[1] = "string"  -> DumpString(o[2])

DumpAll(Dump(_), items) == DumpInt(Len(items)) \o FlattenSeq([i \in DOMAIN items |-> Dump(items[i])])
DumpDebug               == DumpInt(0) \o DumpInt(0) \o DumpInt(0)

RECURSIVE DumpFunction(_)
DumpFunction(f) ==
    DumpNULL \o DumpInt(0) \o DumpInt(0)
    \o DumpChar(f.nups) \o DumpChar(f.numparams)
    \o DumpChar(MapThenSumSet(LAMBDA g : VARARG[g], f.is_vararg)) \o DumpChar(f.maxstacksize)
    \o DumpVector(f.code) \o DumpAll(DumpConstant, f.k) \o DumpAll(DumpFunction, f.p) \o DumpDebug

luaU_dump(f) == <<luaU_header>> \o DumpFunction(f)

---------------------------------------------------------------------------
Error(S, why) == IF S.why = "" THEN [S EXCEPT !.why = why] ELSE S
Loaded(S, v)  == [S EXCEPT !.v = v]

\* What is read as something else than was written makes no sense.
LoadVar(S, type) ==
    IF S.why # "" THEN S
    ELSE IF S.in = <<>> THEN Error(S, "unexpected end")
    ELSE IF Head(S.in)[1] # type THEN Error(S, "not a " \o type)
    ELSE [S EXCEPT !.in = Tail(@), !.v = Head(S.in)[2]]

LoadChar(S)   == LoadVar(S, "char")
LoadByte(S)   == LET T == LoadChar(S) IN IF T.why = "" THEN Loaded(T, T.v % 256) ELSE T
LoadInt(S)    == LET T == LoadVar(S, "int") IN IF T.why = "" /\ T.v < 0 THEN Error(T, "bad integer") ELSE T
LoadString(S) == LET T == LoadVar(S, "size_t") IN IF T.why = "" /\ T.v = 0 THEN T ELSE LoadVar(T, "string")
LoadVector(S) == LET T == LoadInt(S) IN IF T.why = "" /\ T.v = 0 THEN Loaded(T, <<>>) ELSE LoadVar(T, "vector")

\* A count, and as many things.
LoadAll(Load(_), S) ==
    LET n == LoadInt(S)
        Next1(T, i) == Eagerly(Load(T), LAMBDA U : Loaded(U, Append(T.v, U.v)))
    IN  IF n.why # "" THEN n ELSE FoldLeft(Next1, Loaded(n, <<>>), [i \in 1..n.v |-> i])

LoadConstant(S) ==
    LET T == LoadChar(S)
        V == CASE T.v = 1 -> LoadChar(T) [] T.v = 3 -> LoadVar(T, "lua_Number") [] T.v = 4 -> LoadString(T)
    IN  IF T.why # "" THEN T
        ELSE IF T.v = 0 THEN Loaded(T, <<"nil">>)
        ELSE IF T.v \notin {1, 3, 4} THEN Error(T, "bad constant")
        ELSE Loaded(V, <<types[T.v + 1], IF T.v = 1 THEN V.v # 0 ELSE V.v>>)

LoadDebug(S) == LoadAll(LoadString, LoadAll(LAMBDA T : LoadInt(LoadInt(LoadString(T))), LoadVector(S)))

RECURSIVE LoadFunction(_)
LoadFunction(S) ==
    LET nups   == LoadByte(LoadInt(LoadInt(LoadString(S))))
        params == LoadByte(nups)
        vararg == LoadByte(params)
        stack  == LoadByte(vararg)
        code   == LoadVector(stack)
        k      == LoadAll(LoadConstant, code)
        p      == LoadAll(LoadFunction, k)
        end    == LoadDebug(p)
        f      == [code |-> code.v, k |-> k.v, p |-> p.v, nups |-> nups.v, numparams |-> params.v,
                   is_vararg |-> {g \in DOMAIN VARARG : (vararg.v \div VARARG[g]) % 2 = 1}, maxstacksize |-> stack.v]
    IN  IF end.why # "" THEN end
        ELSE IF ~luaG_checkcode(f) THEN Error(end, "bad code") ELSE Loaded(end, f)

LoadHeader(S) == LET T == LoadVar(S, "header")
                 IN  IF T.why = "" /\ T.v # luaU_header[2] THEN Error(T, "bad header") ELSE T

luaU_undump(chunk) == LoadFunction(LoadHeader([in |-> chunk, v |-> 0, why |-> ""]))
=============================================================================
