------------------------------ MODULE LuaCode ------------------------------
(***************************************************************************)
(* The code generator of Lua (lcode.c).                                    *)
(*                                                                         *)
(* A function state fs is a record; every operation maps it to the next    *)
(* one.  fs.e is the expression at hand.  An expression that is a test     *)
(* leaves its jumps on the lists t and f, whose links are the jumps' own   *)
(* offsets: a list is known by the place of its first jump.  fs.jpc is the *)
(* list of the jumps to the next instruction, which may still change.      *)
(* fs.ok says whether the assertions of the code have held so far.         *)
(***************************************************************************)
EXTENDS Integers, Sequences, SequencesExt

CONSTANTS MAXINDEXRK, MAXARG_C, LFIELDS_PER_FLUSH

NO_JUMP == -1
NO_REG  == 255
BITRK   == 256
LUA_MULTRET == -1
RKASK(i) == i + BITRK
ISK(r)   == r >= BITRK

CREATE_ABC(o, a, b, c) == [op |-> o, a |-> a, b |-> b, c |-> c]
testTMode(o) == o \in {"EQ", "LT", "LE", "TEST", "TESTSET", "TFORLOOP"}

init_exp(k, i) == [k |-> k, info |-> i, aux |-> NO_REG, t |-> NO_JUMP, f |-> NO_JUMP]
hasjumps(e)    == e.t # e.f
isnumeral(e)   == e.k = "KNUM" /\ e.t = NO_JUMP /\ e.f = NO_JUMP
hasmultret(e)  == e.k \in {"CALL", "VARARG"}
RK(e) == IF e.k = "K" THEN RKASK(e.info) ELSE e.info

pc(fs)            == Len(fs.code)
On(fs, e)         == [fs EXCEPT !.e = e]
Asserted(fs, p)     == [fs EXCEPT !.ok = @ /\ p]
getcode(fs)       == fs.code[fs.e.info + 1]
Inregister(fs, r) == [fs EXCEPT !.e.k = "NONRELOC", !.e.info = r]

\* F(v), where TLC computes v before F.
Eagerly(v, F(_)) == CHOOSE r \in {F(x) : x \in {v}} : TRUE

---------------------------------------------------------------------------
(***************************************************************************)
(* Lists of jumps                                                          *)
(***************************************************************************)
getjump(code, j) == IF code[j + 1].b = NO_JUMP THEN NO_JUMP ELSE j + 1 + code[j + 1].b
RECURSIVE Jumps(_, _)
Jumps(code, list) == IF list = NO_JUMP THEN <<>> ELSE <<list>> \o Jumps(code, getjump(code, list))

fixjump(fs, j, dest) == [fs EXCEPT !.code[j + 1].b = dest - (j + 1)]

\* luaK_concat: the list l2 is put at the end of l1.
Joined(l1, l2) == IF l1 = NO_JUMP THEN l2 ELSE l1
luaK_concat(fs, l1, l2) == IF l1 = NO_JUMP \/ l2 = NO_JUMP THEN fs
                           ELSE fixjump(fs, Last(Jumps(fs.code, l1)), l2)

\* The place of the test that the jump j depends on.
getjumpcontrol(code, j) == IF j >= 1 /\ testTMode(code[j].op) THEN j - 1 ELSE j
controls(code, list) == {code[getjumpcontrol(code, j) + 1].op : j \in ToSet(Jumps(code, list))}
need_value(code, list) == \E o \in controls(code, list) : o # "TESTSET"

patchtestreg(fs, node, reg) ==
    LET i == getjumpcontrol(fs.code, node) + 1
        x == fs.code[i]
    IN  IF x.op # "TESTSET" THEN fs
        ELSE [fs EXCEPT !.code[i] = IF reg # NO_REG /\ reg # x.b THEN [x EXCEPT !.a = reg]
                                    ELSE CREATE_ABC("TEST", x.b, 0, x.c)]
removevalues(fs, list) == FoldLeft(LAMBDA g, j : patchtestreg(g, j, NO_REG), fs, Jumps(fs.code, list))

\* Jumps that have a value to leave in reg go to vtarget, the others to dtarget.
patchlistaux(fs, list, vtarget, reg, dtarget) ==
    FoldLeft(LAMBDA g, j :
                 fixjump(patchtestreg(g, j, reg), j,
                         IF g.code[getjumpcontrol(g.code, j) + 1].op = "TESTSET" THEN vtarget ELSE dtarget),
             fs, Jumps(fs.code, list))
dischargejpc(fs) == [patchlistaux(fs, fs.jpc, pc(fs), NO_REG, pc(fs)) EXCEPT !.jpc = NO_JUMP]

luaK_code(fs, i) == [dischargejpc(fs) EXCEPT !.code = Append(@, i)]
luaK_codeABC(fs, o, a, b, c) == luaK_code(fs, CREATE_ABC(o, a, b, c))

luaK_getlabel(fs) == [fs EXCEPT !.lasttarget = pc(fs)]
luaK_patchtohere(fs, list) ==
    [luaK_concat(luaK_getlabel(fs), fs.jpc, list) EXCEPT !.jpc = Joined(fs.jpc, list)]
luaK_patchlist(fs, list, target) ==
    IF target = pc(fs) THEN luaK_patchtohere(fs, list)
    ELSE patchlistaux(Asserted(fs, target < pc(fs)), list, target, NO_REG, target)

\* The jump is at pc(fs); the jumps that were to come here go where it goes.
luaK_jump(fs) ==
    luaK_concat(luaK_codeABC([fs EXCEPT !.jpc = NO_JUMP], "JMP", 0, NO_JUMP, 0), pc(fs), fs.jpc)
\* The jump is at pc(fs) + 1.
condjump(fs, o, a, b, c) == luaK_jump(luaK_codeABC(fs, o, a, b, c))

luaK_ret(fs, first, nret) == luaK_codeABC(fs, "RETURN", first, nret + 1, 0)

---------------------------------------------------------------------------
(***************************************************************************)
(* Registers and constants                                                 *)
(***************************************************************************)
luaK_checkstack(fs, n)  == [fs EXCEPT !.maxstacksize = IF @ < fs.freereg + n THEN fs.freereg + n ELSE @]
luaK_reserveregs(fs, n) == [luaK_checkstack(fs, n) EXCEPT !.freereg = @ + n]
\* A mutant of freereg: the registers of variables are freed too.
freeany(fs, reg) == IF ISK(reg) THEN fs ELSE Asserted([fs EXCEPT !.freereg = @ - 1], reg = fs.freereg - 1)
freereg(fs, reg) == IF ISK(reg) \/ reg < fs.nactvar THEN fs
                    ELSE Asserted([fs EXCEPT !.freereg = @ - 1], reg = fs.freereg - 1)
freeexp(fs, e)   == IF e.k = "NONRELOC" THEN freereg(fs, e.info) ELSE fs

\* The constant v is added unless it is there; its index becomes e.info.
addk(fs, v) ==
    LET known == SelectInSeq(fs.k, LAMBDA x : x = v)
    IN  IF known # 0 THEN On(fs, [fs.e EXCEPT !.k = "K", !.info = known - 1])
        ELSE [fs EXCEPT !.k = Append(@, v), !.e.k = "K", !.e.info = Len(fs.k)]

\* A mutant of luaK_nil: the jumps that come to the instruction are forgotten.
nilalways(fs, from, n) ==
    LET previous == Last(fs.code)
    IN  IF pc(fs) = 0 /\ from >= fs.nactvar THEN fs
        ELSE IF pc(fs) > 0 /\ previous.op = "LOADNIL" /\ previous.a <= from /\ from <= previous.b + 1
        THEN [fs EXCEPT !.code[pc(fs)].b = IF @ < from + n - 1 THEN from + n - 1 ELSE @]
        ELSE luaK_codeABC(fs, "LOADNIL", from, from + n - 1, 0)
\* Two adjacent LOADNILs become one, unless a jump may come between them.
luaK_nil(fs, from, n) ==
    LET inblock  == pc(fs) > fs.lasttarget
        previous == Last(fs.code)
    IN  IF inblock /\ pc(fs) = 0 /\ from >= fs.nactvar THEN fs
        ELSE IF inblock /\ pc(fs) > 0 /\ previous.op = "LOADNIL"
                /\ previous.a <= from /\ from <= previous.b + 1
        THEN [fs EXCEPT !.code[pc(fs)].b = IF @ < from + n - 1 THEN from + n - 1 ELSE @]
        ELSE luaK_codeABC(fs, "LOADNIL", from, from + n - 1, 0)

---------------------------------------------------------------------------
(***************************************************************************)
(* Expressions become values in registers or operands                      *)
(***************************************************************************)
luaK_setreturns(fs, nresults) ==
    CASE fs.e.k = "CALL"   -> [fs EXCEPT !.code[fs.e.info + 1].c = nresults + 1]
      [] fs.e.k = "VARARG" ->
           luaK_reserveregs([fs EXCEPT !.code[fs.e.info + 1].b = nresults + 1,
                                       !.code[fs.e.info + 1].a = fs.freereg], 1)
      [] OTHER -> fs
luaK_setoneret(fs) ==
    CASE fs.e.k = "CALL"   -> Inregister(fs, getcode(fs).a)
      [] fs.e.k = "VARARG" -> [fs EXCEPT !.code[fs.e.info + 1].b = 2, !.e.k = "RELOCABLE"]
      [] OTHER -> fs

\* An instruction whose target register is set later.
Relocable(fs, o, b, c) == [luaK_codeABC(fs, o, 0, b, c) EXCEPT !.e.k = "RELOCABLE", !.e.info = pc(fs)]

luaK_dischargevars(fs) ==
    LET e == fs.e
    IN  CASE e.k = "LOCAL"   -> Inregister(fs, e.info)
          [] e.k = "UPVAL"   -> Relocable(fs, "GETUPVAL", e.info, 0)
          [] e.k = "GLOBAL"  -> Relocable(fs, "GETGLOBAL", e.info, 0)
          [] e.k = "INDEXED" -> Relocable(freereg(freereg(fs, e.aux), e.info), "GETTABLE", e.info, e.aux)
          [] OTHER -> luaK_setoneret(fs)

\* Where the value of e is not one of a jump, it is put into reg.
discharge2reg(fs, reg) ==
    LET d == luaK_dischargevars(fs)
        e == d.e
        Done(g) == Inregister(g, reg)
    IN  CASE e.k = "NIL" -> Done(luaK_nil(d, reg, 1))
          [] e.k \in {"FALSE", "TRUE"} -> Done(luaK_codeABC(d, "LOADBOOL", reg, IF e.k = "TRUE" THEN 1 ELSE 0, 0))
          [] e.k = "K"         -> Done(luaK_codeABC(d, "LOADK", reg, e.info, 0))
          [] e.k = "KNUM"      -> LET n == addk(d, <<"number", e.info>>)
                                  IN  Done(luaK_codeABC(n, "LOADK", reg, n.e.info, 0))
          [] e.k = "RELOCABLE" -> Done([d EXCEPT !.code[e.info + 1].a = reg])
          [] e.k = "NONRELOC"  -> Done(IF reg = e.info THEN d ELSE luaK_codeABC(d, "MOVE", reg, e.info, 0))
          [] OTHER -> Asserted(d, e.k \in {"VOID", "JMP"})
discharge2anyreg(fs) ==
    IF fs.e.k = "NONRELOC" THEN fs ELSE discharge2reg(luaK_reserveregs(fs, 1), fs.freereg)

code_label(fs, a, b, jump) == luaK_codeABC(luaK_getlabel(fs), "LOADBOOL", a, b, jump)

\* The jumps of the lists come to the end, over a LOADBOOL of their value
\* where they have none to leave.
exp2reg(fs, reg) ==
    LET d    == discharge2reg(fs, reg)
        jmp  == d.e.k = "JMP"
        j    == IF jmp THEN [luaK_concat(d, d.e.t, d.e.info) EXCEPT !.e.t = Joined(@, d.e.info)] ELSE d
        skip == IF jmp THEN j ELSE luaK_jump(j)
        load == luaK_patchtohere(code_label(code_label(skip, reg, 0, 1), reg, 1, 0),
                                 IF jmp THEN NO_JUMP ELSE pc(j))
        need == need_value(j.code, j.e.t) \/ need_value(j.code, j.e.f)
        g    == luaK_getlabel(IF need THEN load ELSE j)
        p_f  == IF need THEN pc(skip) ELSE NO_JUMP
        p_t  == IF need THEN pc(skip) + 1 ELSE NO_JUMP
        done == IF hasjumps(j.e)
                THEN patchlistaux(patchlistaux(g, j.e.f, pc(g), reg, p_f), j.e.t, pc(g), reg, p_t)
                ELSE j
    IN  On(done, init_exp("NONRELOC", reg))

luaK_exp2nextreg(fs) ==
    LET d == luaK_dischargevars(fs)
        g == luaK_reserveregs(freeexp(d, d.e), 1)
    IN  exp2reg(g, g.freereg - 1)
luaK_exp2anyreg(fs) ==
    LET d == luaK_dischargevars(fs)
    IN  IF d.e.k = "NONRELOC" /\ ~hasjumps(d.e) THEN d
        ELSE IF d.e.k = "NONRELOC" /\ d.e.info >= d.nactvar THEN exp2reg(d, d.e.info)
        ELSE luaK_exp2nextreg(d)
luaK_exp2val(fs) == IF hasjumps(fs.e) THEN luaK_exp2anyreg(fs) ELSE luaK_dischargevars(fs)

\* The operand is RK(e) of the result.
luaK_exp2RK(fs) ==
    LET v == luaK_exp2val(fs)
        room == Len(v.k) <= MAXINDEXRK
    IN  CASE v.e.k = "KNUM" /\ room  -> addk(v, <<"number", v.e.info>>)
          [] v.e.k = "TRUE" /\ room  -> addk(v, <<"boolean", TRUE>>)
          [] v.e.k = "FALSE" /\ room -> addk(v, <<"boolean", FALSE>>)
          [] v.e.k = "NIL" /\ room   -> addk(v, <<"nil">>)
          [] v.e.k = "K" /\ v.e.info <= MAXINDEXRK -> v
          [] OTHER -> luaK_exp2anyreg(v)

\* var = e
luaK_storevar(fs, var) ==
    CASE var.k = "LOCAL"  -> exp2reg(freeexp(fs, fs.e), var.info)
      [] var.k \in {"UPVAL", "GLOBAL"} ->
           LET g == luaK_exp2anyreg(fs)
               o == IF var.k = "UPVAL" THEN "SETUPVAL" ELSE "SETGLOBAL"
           IN  freeexp(luaK_codeABC(g, o, g.e.info, var.info, 0), g.e)
      [] var.k = "INDEXED" ->
           LET g == luaK_exp2RK(fs)
           IN  freeexp(luaK_codeABC(g, "SETTABLE", var.info, var.aux, RK(g.e)), g.e)

\* e:key, the function and its first argument in two registers.
luaK_self(fs, key) ==
    LET g == luaK_exp2anyreg(fs)
        r == luaK_reserveregs(freeexp(g, g.e), 2)
        k == luaK_exp2RK(On(r, key))
    IN  Inregister(freeexp(luaK_codeABC(k, "SELF", r.freereg - 2, g.e.info, RK(k.e)), k.e), r.freereg - 2)
luaK_indexed(fs, t) ==
    LET g == luaK_exp2RK(fs) IN On(g, [t EXCEPT !.k = "INDEXED", !.aux = RK(g.e)])

---------------------------------------------------------------------------
(***************************************************************************)
(* Tests                                                                   *)
(***************************************************************************)
invertjump(fs) ==
    LET i == getjumpcontrol(fs.code, fs.e.info) + 1
    IN  Asserted([fs EXCEPT !.code[i].a = 1 - @], testTMode(fs.code[i].op) /\ fs.code[i].op \notin {"TEST", "TESTSET"})

\* The jump is the last instruction of the result.
jumponcond(fs, cond) ==
    IF fs.e.k = "RELOCABLE" /\ getcode(fs).op = "NOT"
    THEN condjump([fs EXCEPT !.code = SubSeq(@, 1, Len(@) - 1)], "TEST", getcode(fs).b, 0, 1 - cond)
    ELSE LET g == discharge2anyreg(fs)
         IN  condjump(freeexp(g, g.e), "TESTSET", NO_REG, g.e.info, cond)

luaK_goiftrue(fs) ==
    LET d == luaK_dischargevars(fs)
        e == d.e
        g == CASE e.k \in {"K", "KNUM", "TRUE"} -> d
               [] e.k = "JMP" -> invertjump(d)
               [] OTHER -> jumponcond(d, 0)
        j == CASE e.k \in {"K", "KNUM", "TRUE"} -> NO_JUMP
               [] e.k = "JMP" -> e.info
               [] OTHER -> pc(g) - 1
    IN  [luaK_patchtohere(luaK_concat(g, e.f, j), e.t) EXCEPT !.e.f = Joined(e.f, j), !.e.t = NO_JUMP]
luaK_goiffalse(fs) ==
    LET d == luaK_dischargevars(fs)
        e == d.e
        g == IF e.k \in {"NIL", "FALSE", "JMP"} THEN d ELSE jumponcond(d, 1)
        j == CASE e.k \in {"NIL", "FALSE"} -> NO_JUMP
               [] e.k = "JMP" -> e.info
               [] OTHER -> pc(g) - 1
    IN  [luaK_patchtohere(luaK_concat(g, e.t, j), e.f) EXCEPT !.e.t = Joined(e.t, j), !.e.f = NO_JUMP]

codenot(fs) ==
    LET d == luaK_dischargevars(fs)
        g == CASE d.e.k \in {"NIL", "FALSE"}     -> [d EXCEPT !.e.k = "TRUE"]
               [] d.e.k \in {"K", "KNUM", "TRUE"} -> [d EXCEPT !.e.k = "FALSE"]
               [] d.e.k = "JMP" -> invertjump(d)
               [] OTHER -> LET r == discharge2anyreg(d) IN Relocable(freeexp(r, r.e), "NOT", r.e.info, 0)
    IN  [removevalues(removevalues(g, g.e.t), g.e.f) EXCEPT !.e.t = g.e.f, !.e.f = g.e.t]

---------------------------------------------------------------------------
(***************************************************************************)
(* Operators.  Numbers are integers, and nan is the result of % 0.         *)
(***************************************************************************)
Arith(o, x, y) == CASE o = "ADD" -> x + y [] o = "SUB" -> x - y [] o = "MUL" -> x * y
                    [] o = "MOD" /\ y > 0 -> x % y [] o = "MOD" /\ y < 0 -> -((-x) % (-y))
                    [] o = "UNM" -> -x

Foldable(o, e1, e2) == /\ isnumeral(e1) /\ isnumeral(e2)
                       /\ o \notin {"LEN", "CONCAT"} /\ (o = "MOD" => e2.info # 0)
constfolding(fs, o, e1, e2) == On(fs, [e1 EXCEPT !.info = Arith(o, @, e2.info)])

\* e1 o e, with e the expression at hand.
codearith(fs, o, e1) ==
    LET r2 == IF o \in {"UNM", "LEN"} THEN fs ELSE luaK_exp2RK(fs)
        o2 == IF o \in {"UNM", "LEN"} THEN 0 ELSE RK(r2.e)
        r1 == luaK_exp2RK(On(r2, e1))
        o1 == RK(r1.e)
        free == IF o1 > o2 THEN freeexp(freeexp(r1, r1.e), r2.e) ELSE freeexp(freeexp(r1, r2.e), r1.e)
    IN  IF Foldable(o, e1, fs.e) THEN constfolding(fs, o, e1, fs.e)
        ELSE Relocable(free, o, o1, o2)

codecomp(fs, o, cond, e1) ==
    LET r2 == luaK_exp2RK(fs)
        r1 == luaK_exp2RK(On(r2, e1))
        free == freeexp(freeexp(r1, r2.e), r1.e)
        swap == cond = 0 /\ o # "EQ"    \* a > b is b < a
        g == IF swap THEN condjump(free, o, 1, RK(r2.e), RK(r1.e)) ELSE condjump(free, o, cond, RK(r1.e), RK(r2.e))
    IN  [g EXCEPT !.e.k = "JMP", !.e.info = pc(free) + 1]

luaK_prefix(fs, o) ==
    LET zero == init_exp("KNUM", 0)
        Of(g) == codearith(On(g, zero), IF o = "-" THEN "UNM" ELSE "LEN", g.e)
    IN  CASE o = "not" -> codenot(fs)
          [] o = "-" /\ isnumeral(fs.e) -> Of(fs)
          [] OTHER -> Of(luaK_exp2anyreg(fs))

luaK_infix(fs, o) ==
    CASE o = "and" -> luaK_goiftrue(fs)
      [] o = "or"  -> luaK_goiffalse(fs)
      [] o = ".."  -> luaK_exp2nextreg(fs)
      [] o \in {"+", "-", "*", "%"} /\ isnumeral(fs.e) -> fs
      [] OTHER -> luaK_exp2RK(fs)

\* a .. (b .. c) is one instruction over a, b and c.
Concat(fs, e1) ==
    LET v == luaK_exp2val(fs)
    IN  IF v.e.k = "RELOCABLE" /\ getcode(v).op = "CONCAT"
        THEN [freeexp(Asserted(v, e1.info = getcode(v).b - 1), e1) EXCEPT
                 !.code[v.e.info + 1].b = e1.info, !.e = [e1 EXCEPT !.k = "RELOCABLE", !.info = v.e.info]]
        ELSE codearith(luaK_exp2nextreg(v), "CONCAT", e1)

luaK_posfix(fs, o, e1) ==
    LET d == luaK_dischargevars(fs)
    IN  CASE o = "and" -> [luaK_concat(Asserted(d, e1.t = NO_JUMP), d.e.f, e1.f) EXCEPT !.e.f = Joined(@, e1.f)]
          [] o = "or"  -> [luaK_concat(Asserted(d, e1.f = NO_JUMP), d.e.t, e1.t) EXCEPT !.e.t = Joined(@, e1.t)]
          [] o = ".."  -> Concat(fs, e1)
          [] o = "+"   -> codearith(fs, "ADD", e1)
          [] o = "-"   -> codearith(fs, "SUB", e1)
          [] o = "*"   -> codearith(fs, "MUL", e1)
          [] o = "%"   -> codearith(fs, "MOD", e1)
          [] o = "=="  -> codecomp(fs, "EQ", 1, e1)
          [] o = "~="  -> codecomp(fs, "EQ", 0, e1)
          [] o = "<"   -> codecomp(fs, "LT", 1, e1)
          [] o = "<="  -> codecomp(fs, "LE", 1, e1)
          [] o = ">"   -> codecomp(fs, "LT", 0, e1)
          [] o = ">="  -> codecomp(fs, "LE", 0, e1)

\* nelems items have been read, the last tostore of them are in registers.
luaK_setlist(fs, base, nelems, tostore) ==
    LET c == (nelems - 1) \div LFIELDS_PER_FLUSH + 1
        b == IF tostore = LUA_MULTRET THEN 0 ELSE tostore
        g == IF c <= MAXARG_C THEN luaK_codeABC(fs, "SETLIST", base, b, c)
             ELSE luaK_code(luaK_codeABC(fs, "SETLIST", base, b, 0), CREATE_ABC("data", 0, c, 0))
    IN  [Asserted(g, tostore # 0) EXCEPT !.freereg = base + 1]
=============================================================================
