------------------------------ MODULE LuaCheck ------------------------------
(***************************************************************************)
(* The checker of compiled code (precheck, checkArgMode, symbexec and      *)
(* luaG_checkcode of ldebug.c, with the modes of lopcodes.c).  The parser  *)
(* asserts that it accepts every function, the virtual machine relies on   *)
(* what it says.                                                           *)
(***************************************************************************)
EXTENDS LuaCode

Arithmetics == {"ADD", "SUB", "MUL", "MOD"}
Jumping     == {"JMP", "FORLOOP", "FORPREP"}
BisR == {"MOVE", "LOADNIL", "GETTABLE", "SELF", "UNM", "NOT", "LEN", "CONCAT", "TEST", "TESTSET"}
BisK == Arithmetics \cup {"LOADK", "GETGLOBAL", "SETGLOBAL", "SETTABLE", "EQ", "LT", "LE"}
BisN == {"TFORLOOP", "CLOSE"}
CisR == {"CONCAT"}
CisK == Arithmetics \cup {"GETTABLE", "SETTABLE", "SELF", "EQ", "LT", "LE"}
CisN == {"MOVE", "LOADNIL", "GETUPVAL", "SETUPVAL", "UNM", "NOT", "LEN", "RETURN", "CLOSE", "VARARG"}

luaG_checkopenop(i) == i.op \in {"CALL", "TAILCALL", "RETURN", "SETLIST"} /\ i.b = 0

precheck(p) == /\ p.numparams + Cardinality(p.is_vararg \cap {"HASARG"}) <= p.maxstacksize
               /\ "NEEDSARG" \in p.is_vararg => "HASARG" \in p.is_vararg
               /\ p.code # <<>> /\ Last(p.code).op = "RETURN"

checkreg(p, r) == r < p.maxstacksize
checkRK(p, r)  == IF ISK(r) THEN r - BITRK < Len(p.k) ELSE checkreg(p, r)
checkArgMode(p, i) ==
    /\ i.op \in BisR => checkreg(p, i.b)
    /\ i.op \in CisR => checkreg(p, i.c)
    /\ i.op \in {"LOADK", "GETGLOBAL", "SETGLOBAL"} => i.b < Len(p.k)
    /\ i.op \in BisK \ {"LOADK", "GETGLOBAL", "SETGLOBAL"} => checkRK(p, i.b)
    /\ i.op \in CisK => checkRK(p, i.c)
    /\ (i.op \in BisN => i.b = 0) /\ (i.op \in CisN => i.c = 0)

\* The instruction i is code[at + 1]; what follows it is code[at + 2].
CheckOperands(p, i) ==
    /\ i.op \in {"GETUPVAL", "SETUPVAL"} => i.b < p.nups
    /\ i.op \in {"GETGLOBAL", "SETGLOBAL"} => p.k[i.b + 1][1] = "string"
    /\ i.op = "SELF" => checkreg(p, i.a + 1)
    /\ i.op = "CONCAT" => i.b < i.c
    /\ i.op = "TFORLOOP" => i.c >= 1 /\ checkreg(p, i.a + 2 + i.c)
    /\ i.op \in {"FORLOOP", "FORPREP"} => checkreg(p, i.a + 3)
    /\ i.op \in {"CALL", "TAILCALL"} => (i.b # 0 => checkreg(p, i.a + i.b - 1)) /\ (i.c > 1 => checkreg(p, i.a + i.c - 2))
    /\ i.op = "RETURN" => (i.b > 1 => checkreg(p, i.a + i.b - 2))
    /\ i.op = "SETLIST" => (i.b > 0 => checkreg(p, i.a + i.b))
    /\ i.op = "VARARG" => /\ "ISVARARG" \in p.is_vararg /\ "NEEDSARG" \notin p.is_vararg
                          /\ checkreg(p, i.a + i.b - 2)
CheckFollowing(p, at, i) ==
    LET n == Len(p.code)
        next == p.code[at + 2]
    IN  /\ i.op \in Jumping => /\ at + 1 + i.b \in 0 .. n - 1
                               /\ at + 1 + i.b > 0 => LET d == p.code[at + 1 + i.b] IN ~(d.op = "SETLIST" /\ d.c = 0)
        /\ testTMode(i.op) => at + 2 < n /\ next.op = "JMP"
        /\ i.op = "LOADBOOL" /\ i.c = 1 => at + 2 < n /\ (next.op = "SETLIST" => next.c # 0)
        /\ i.op \in {"CALL", "TAILCALL"} /\ i.c = 0 => luaG_checkopenop(next)
        /\ i.op = "VARARG" /\ i.b = 0 => luaG_checkopenop(next)
        /\ i.op = "SETLIST" /\ i.c = 0 => at + 1 < n - 1
        /\ i.op = "CLOSURE" => /\ i.b < Len(p.p) /\ at + p.p[i.b + 1].nups < n
                               /\ \A j \in 1 .. p.p[i.b + 1].nups : p.code[at + 1 + j].op \in {"GETUPVAL", "MOVE"}

luaG_checkcode(p) ==
    /\ precheck(p)
    /\ \A at \in 0 .. Len(p.code) - 1 :
          LET i == p.code[at + 1]
          IN  i.op # "data" => /\ checkreg(p, i.a) /\ checkArgMode(p, i)
                               /\ CheckOperands(p, i) /\ CheckFollowing(p, at, i)
=============================================================================
