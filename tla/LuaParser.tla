----------------------------- MODULE LuaParser -----------------------------
(***************************************************************************)
(* The parser of Lua (lparser.c), which generates code as it goes.  It is  *)
(* given statements as trees and expressions as sequences of operands and  *)
(* operators, so that priorities are its business and layout is not.       *)
(*                                                                         *)
(*   operand    <<"nil">> <<"true">> <<"false">> <<"number", n>>           *)
(*              <<"string", s>> <<"dots">> <<"name", n>> <<"paren", e>>    *)
(*              <<"index", operand, e>> <<"call", operand, es>>            *)
(*              <<"method", operand, name, es>> <<"table", fields>>        *)
(*              <<"function", parameters, hasdots, block>>                 *)
(*   operator   <<"op", o>>                                                *)
(*   field      <<"item", e>> <<"field", e, e>>                            *)
(*   statement  <<"local", names, es>> <<"assign", operands, es>>          *)
(*              <<"callstat", operand>> <<"do", block>> <<"while", e, b>>  *)
(*              <<"repeat", b, e>> <<"if", <<e, b>>s, b or none>>          *)
(*              <<"fornum", name, es, b>> <<"forlist", names, es, b>>      *)
(*              <<"localfunction", name, function>> <<"return", es>>       *)
(*              <<"funcstat", operand, isMethod, function>> <<"break">>    *)
(***************************************************************************)
EXTENDS LuaCheck

VOID == init_exp("VOID", 0)

open_func(prev) ==
    [code |-> <<>>, jpc |-> NO_JUMP, lasttarget |-> -1, freereg |-> 0, nactvar |-> 0, actvar |-> <<>>,
     k |-> <<>>, p |-> <<>>, maxstacksize |-> 2, numparams |-> 0, is_vararg |-> {}, upvalues |-> <<>>,
     bl |-> <<>>, prev |-> prev, toks |-> <<>>, e |-> VOID, ok |-> TRUE]

Proto(fs) == [code |-> fs.code, k |-> fs.k, p |-> fs.p, nups |-> Len(fs.upvalues), numparams |-> fs.numparams,
              is_vararg |-> fs.is_vararg, maxstacksize |-> fs.maxstacksize]

---------------------------------------------------------------------------
(***************************************************************************)
(* Variables                                                               *)
(***************************************************************************)
new_localvars(fs, names)   == [fs EXCEPT !.actvar = SubSeq(@, 1, fs.nactvar) \o names]
adjustlocalvars(fs, nvars) == [fs EXCEPT !.nactvar = @ + nvars]
removevars(fs, tolevel)    == [fs EXCEPT !.nactvar = tolevel]

searchvar(fs, n) == SelectLastInSeq(SubSeq(fs.actvar, 1, fs.nactvar), LAMBDA v : v = n) - 1

\* The block of the variable has to close it.
markupval(fs, level) ==
    LET b == SelectLastInSeq(fs.bl, LAMBDA x : x.nactvar <= level)
    IN  IF b = 0 THEN fs ELSE [fs EXCEPT !.bl[b].upval = TRUE]

indexupvalue(fs, v) ==
    LET i == SelectInSeq(fs.upvalues, LAMBDA u : u.k = v.k /\ u.info = v.info)
        g == IF i # 0 THEN fs ELSE [fs EXCEPT !.upvalues = Append(@, [k |-> v.k, info |-> v.info])]
    IN  On(g, init_exp("UPVAL", IF i # 0 THEN i - 1 ELSE Len(fs.upvalues)))

RECURSIVE singlevaraux(_, _, _)
singlevaraux(fs, n, base) ==
    LET v  == searchvar(fs, n)
        up == singlevaraux(fs.prev[1], n, FALSE)
    IN  IF v >= 0 THEN On(IF base THEN fs ELSE markupval(fs, v), init_exp("LOCAL", v))
        ELSE IF fs.prev = <<>> \/ up.e.k = "GLOBAL" THEN On(fs, init_exp("GLOBAL", NO_REG))
        ELSE indexupvalue([fs EXCEPT !.prev = <<up>>], up.e)
codestring(fs, s) == addk(On(fs, init_exp("K", 0)), <<"string", s>>)
singlevar(fs, n) ==
    LET g == singlevaraux(fs, n, TRUE)
        c == codestring(g, n)
    IN  IF g.e.k = "GLOBAL" THEN On(c, init_exp("GLOBAL", c.e.info)) ELSE g

---------------------------------------------------------------------------
(***************************************************************************)
(* Blocks                                                                  *)
(***************************************************************************)
enterblock(fs, isbreakable) ==
    Asserted([fs EXCEPT !.bl = Append(@, [breaklist |-> NO_JUMP, isbreakable |-> isbreakable,
                                          nactvar |-> fs.nactvar, upval |-> FALSE])],
             fs.freereg = fs.nactvar)
leaveblock(fs) ==
    LET bl == Last(fs.bl)
        g  == removevars([fs EXCEPT !.bl = SubSeq(@, 1, Len(@) - 1)], bl.nactvar)
        c  == IF bl.upval THEN luaK_codeABC(g, "CLOSE", bl.nactvar, 0, 0) ELSE g
    IN  luaK_patchtohere([Asserted(c, ~(bl.isbreakable /\ bl.upval)) EXCEPT !.freereg = bl.nactvar], bl.breaklist)

\* The variables of the blocks that the break leaves are closed before.
breakstat(fs) ==
    LET i == SelectLastInSeq(fs.bl, LAMBDA b : b.isbreakable)
        upval == \E j \in i + 1 .. Len(fs.bl) : fs.bl[j].upval
        c == IF upval THEN luaK_codeABC(fs, "CLOSE", fs.bl[i].nactvar, 0, 0) ELSE fs
    IN  [luaK_concat(luaK_jump(c), fs.bl[i].breaklist, pc(c)) EXCEPT !.bl[i].breaklist = Joined(@, pc(c))]

adjust_assign(fs, nvars, nexps) ==
    LET extra  == nvars - nexps
        more   == IF extra < -1 THEN 0 ELSE extra + 1    \* includes the call itself
        open   == luaK_setreturns(fs, more)
        closed == IF fs.e.k = "VOID" THEN fs ELSE luaK_exp2nextreg(fs)
    IN  IF hasmultret(fs.e) THEN (IF more > 1 THEN luaK_reserveregs(open, more - 1) ELSE open)
        ELSE IF extra > 0 THEN luaK_nil(luaK_reserveregs(closed, extra), closed.freereg, extra)
        ELSE closed

pushclosure(fs, func) ==
    LET c == Relocable([fs EXCEPT !.p = Append(@, Proto(func)), !.e = VOID], "CLOSURE", Len(fs.p), 0)
    IN  FoldLeft(LAMBDA g, u : luaK_codeABC(g, IF u.k = "LOCAL" THEN "MOVE" ELSE "GETUPVAL", 0, u.info, 0),
                 c, func.upvalues)

close_func(fs) == LET g == luaK_ret(removevars(fs, 0), 0, 0) IN Asserted(g, g.bl = <<>> /\ luaG_checkcode(Proto(g)))

\* An old style vararg function has a parameter arg besides, and makes a
\* table for it unless the function has dots in its text.
parlist(fs, params, hasdots) ==
    LET names == params \o (IF hasdots THEN <<"arg">> ELSE <<>>)
        g == adjustlocalvars(new_localvars(fs, names), Len(names))
    IN  luaK_reserveregs([g EXCEPT !.numparams = Len(params) + fs.nactvar,
                                   !.is_vararg = IF hasdots THEN {"HASARG", "ISVARARG", "NEEDSARG"} ELSE {}],
                         g.nactvar)

---------------------------------------------------------------------------
(***************************************************************************)
(* Expressions                                                             *)
(***************************************************************************)
priority == [o \in {"+", "-", "*", "%", "..", "==", "~=", "<", "<=", ">", ">=", "and", "or"} |->
               CASE o \in {"+", "-"} -> [left |-> 6, right |-> 6]
                 [] o \in {"*", "%"} -> [left |-> 7, right |-> 7]
                 [] o = ".."  -> [left |-> 5, right |-> 4]
                 [] o = "and" -> [left |-> 2, right |-> 2]
                 [] o = "or"  -> [left |-> 1, right |-> 1]
                 [] OTHER     -> [left |-> 3, right |-> 3]]
UNARY_PRIORITY == 8

RECURSIVE subexpr(_, _), Operators(_, _), simpleexp(_, _), primaryexp(_, _), explist(_, _), funcargs(_, _),
          constructor(_, _), body(_, _, _), statement(_, _), chunk(_, _)

Skip(fs) == [fs EXCEPT !.toks = Tail(@)]
expr(fs, x) == [subexpr([fs EXCEPT !.toks = x], 0) EXCEPT !.toks = fs.toks]
subexpr(fs, limit) ==
    LET t == Head(fs.toks)
    IN  Operators(IF t[1] = "op" THEN luaK_prefix(subexpr(Skip(fs), UNARY_PRIORITY), t[2])
                  ELSE simpleexp(Skip(fs), t), limit)
\* The operators that follow, while their priorities are higher than limit.
Operators(fs, limit) ==
    LET o == Head(fs.toks)[2]
        v == luaK_infix(Skip(fs), o)
    IN  IF fs.toks = <<>> \/ priority[o].left <= limit THEN fs
        ELSE Operators(luaK_posfix(subexpr(v, priority[o].right), o, v.e), limit)

simpleexp(fs, x) ==
    CASE x[1] = "nil"      -> On(fs, init_exp("NIL", 0))
      [] x[1] = "true"     -> On(fs, init_exp("TRUE", 0))
      [] x[1] = "false"    -> On(fs, init_exp("FALSE", 0))
      [] x[1] = "number"   -> On(fs, init_exp("KNUM", x[2]))
      [] x[1] = "string"   -> codestring(fs, x[2])
      [] x[1] = "dots"     -> [luaK_codeABC([fs EXCEPT !.is_vararg = @ \ {"NEEDSARG"}], "VARARG", 0, 1, 0)
                                 EXCEPT !.e = init_exp("VARARG", pc(fs))]
      [] x[1] = "table"    -> constructor(fs, x[2])
      [] x[1] = "function" -> body(fs, x, FALSE)
      [] OTHER             -> primaryexp(fs, x)

primaryexp(fs, x) ==
    CASE x[1] = "name"   -> singlevar(fs, x[2])
      [] x[1] = "paren"  -> luaK_dischargevars(expr(fs, x[2]))
      [] x[1] = "index"  -> LET t == luaK_exp2anyreg(primaryexp(fs, x[2]))
                            IN  luaK_indexed(luaK_exp2val(expr(t, x[3])), t.e)
      [] x[1] = "method" -> LET o == primaryexp(fs, x[2])
                                key == codestring(o, x[3])
                            IN  funcargs(luaK_self(On(key, o.e), key.e), x[4])
      [] x[1] = "call"   -> funcargs(luaK_exp2nextreg(primaryexp(fs, x[2])), x[3])

\* The last expression is left open, the others are in registers.
explist(fs, xs) ==
    CASE xs = <<>>   -> On(fs, VOID)
      [] Len(xs) = 1 -> expr(fs, xs[1])
      [] Len(xs) > 1 -> Eagerly(luaK_exp2nextreg(expr(fs, Head(xs))), LAMBDA g : explist(g, Tail(xs)))

funcargs(fs, xs) ==
    LET base == fs.e.info
        args == luaK_setreturns(explist(fs, xs), LUA_MULTRET)
        open == hasmultret(args.e)
        g == IF open \/ args.e.k = "VOID" THEN args ELSE luaK_exp2nextreg(args)
        nparams == IF open THEN LUA_MULTRET ELSE g.freereg - (base + 1)
    IN  [luaK_codeABC(Asserted(g, fs.e.k = "NONRELOC"), "CALL", base, nparams + 1, 2) EXCEPT
            !.e = init_exp("CALL", pc(g)), !.freereg = base + 1]

\* cc is the state of a constructor; cc.v the last list item read.
recfield(cc, key, val, table) ==
    LET k == luaK_exp2RK(luaK_exp2val(expr(cc.fs, key)))
        v == luaK_exp2RK(expr(k, val))
    IN  [cc EXCEPT !.nh = @ + 1,
                   !.fs = [luaK_codeABC(v, "SETTABLE", table, RK(k.e), RK(v.e)) EXCEPT !.freereg = cc.fs.freereg]]
listfield(cc, x) ==
    LET g == expr(cc.fs, x) IN [fs |-> g, v |-> g.e, na |-> cc.na + 1, nh |-> cc.nh, tostore |-> cc.tostore + 1]
closelistfield(cc, table) ==
    LET g == luaK_exp2nextreg(On(cc.fs, cc.v))
        full == cc.tostore = LFIELDS_PER_FLUSH
    IN  IF cc.v.k = "VOID" THEN cc
        ELSE [cc EXCEPT !.v = VOID, !.tostore = IF full THEN 0 ELSE @,
                        !.fs = IF full THEN luaK_setlist(g, table, cc.na, cc.tostore) ELSE g]
lastlistfield(cc, table) ==
    LET open == luaK_setreturns(On(cc.fs, cc.v), LUA_MULTRET)
        closed == IF cc.v.k = "VOID" THEN cc.fs ELSE luaK_exp2nextreg(On(cc.fs, cc.v))
    IN  IF cc.tostore = 0 THEN cc
        ELSE IF hasmultret(cc.v)
        THEN [cc EXCEPT !.fs = luaK_setlist(open, table, cc.na, LUA_MULTRET), !.na = @ - 1]
        ELSE [cc EXCEPT !.fs = luaK_setlist(closed, table, cc.na, cc.tostore)]
constructor(fs, fields) ==
    LET t == luaK_exp2nextreg(On(luaK_codeABC(fs, "NEWTABLE", 0, 0, 0), init_exp("RELOCABLE", pc(fs))))
        Field(cc, x) == IF x[1] = "item" THEN listfield(cc, x[2]) ELSE recfield(cc, x[2], x[3], t.e.info)
        cc == lastlistfield(FoldLeft(LAMBDA c, x : Field(closelistfield(c, t.e.info), x),
                                     [fs |-> t, v |-> VOID, na |-> 0, nh |-> 0, tostore |-> 0], fields),
                            t.e.info)
    IN  [cc.fs EXCEPT !.e = t.e, !.code[pc(fs) + 1].b = cc.na, !.code[pc(fs) + 1].c = cc.nh]

body(fs, x, needself) ==
    LET new  == open_func(<<fs>>)
        self == IF needself THEN adjustlocalvars(new_localvars(new, <<"self">>), 1) ELSE new
        func == close_func(chunk(parlist(self, x[2], x[3]), x[4]))
    IN  pushclosure(Asserted(func.prev[1], func.ok), func)

---------------------------------------------------------------------------
(***************************************************************************)
(* Statements                                                              *)
(***************************************************************************)
block(fs, b) ==
    LET g == chunk(enterblock(fs, FALSE), b)
    IN  leaveblock(Asserted(g, Last(g.bl).breaklist = NO_JUMP))

\* The local v was used as the table or the key of an earlier variable of
\* the same assignment, which shall use a copy of it.
check_conflict(lh, v) ==
    LET fs == lh.fs
        Safe(r) == IF r = v.info THEN fs.freereg ELSE r
        conflict == \E i \in DOMAIN lh.vars : lh.vars[i].k = "INDEXED" /\ v.info \in {lh.vars[i].info, lh.vars[i].aux}
    IN  IF ~conflict THEN lh
        ELSE [fs |-> luaK_reserveregs(luaK_codeABC(fs, "MOVE", fs.freereg, v.info, 0), 1),
              vars |-> [i \in DOMAIN lh.vars |-> IF lh.vars[i].k # "INDEXED" THEN lh.vars[i]
                           ELSE [lh.vars[i] EXCEPT !.info = Safe(@), !.aux = Safe(@)]]]
Target(lh, x) ==
    LET g == primaryexp(lh.fs, x)
        c == IF g.e.k = "LOCAL" THEN check_conflict([lh EXCEPT !.fs = g], g.e) ELSE [lh EXCEPT !.fs = g]
    IN  [c EXCEPT !.vars = Append(@, g.e)]

\* The last variable gets the last expression as it is, the others what is
\* in the last register in use.
assignment(fs, xs, es) ==
    LET lh == FoldLeft(Target, [fs |-> fs, vars |-> <<>>], xs)
        n  == Len(xs)
        v  == explist(lh.fs, es)
        adjusted == adjust_assign(v, n, Len(es))
        equal == n = Len(es)
        right == IF equal THEN luaK_storevar(luaK_setoneret(v), lh.vars[n])
                 ELSE [adjusted EXCEPT !.freereg = IF Len(es) > n THEN @ - (Len(es) - n) ELSE @]
        Store(g, var) == luaK_storevar(On(g, init_exp("NONRELOC", g.freereg - 1)), var)
    IN  FoldRight(LAMBDA var, g : Store(g, var), SubSeq(lh.vars, 1, IF equal THEN n - 1 ELSE n), right)

\* The list of the jumps taken when the condition is false becomes e.f.
cond(fs, x) ==
    LET g == expr(fs, x) IN luaK_goiftrue(IF g.e.k = "NIL" THEN [g EXCEPT !.e.k = "FALSE"] ELSE g)

whilestat(fs, x, b) ==
    LET c == cond(luaK_getlabel(fs), x)
        g == block(enterblock(c, TRUE), b)
    IN  luaK_patchtohere(leaveblock(luaK_patchlist(luaK_jump(g), pc(g), pc(fs))), c.e.f)

repeatstat(fs, b, x) ==
    LET inner == enterblock(enterblock(luaK_getlabel(fs), TRUE), FALSE)
        c == cond(chunk(inner, b), x)
        simple == luaK_patchlist(leaveblock(c), c.e.f, pc(fs))
        again == leaveblock(luaK_patchtohere(breakstat(c), c.e.f))
        full == luaK_patchlist(luaK_jump(again), pc(again), pc(fs))
    IN  leaveblock(IF Last(c.bl).upval THEN full ELSE simple)

forbody(fs, base, b, nvars, isnum) ==
    LET g == adjustlocalvars(fs, 3)
        prep == IF isnum THEN luaK_codeABC(g, "FORPREP", base, NO_JUMP, 0) ELSE luaK_jump(g)
        scope == luaK_reserveregs(adjustlocalvars(enterblock(prep, FALSE), nvars), nvars)
        done == luaK_patchtohere(leaveblock(block(scope, b)), pc(g))
    IN  IF isnum THEN luaK_patchlist(luaK_codeABC(done, "FORLOOP", base, NO_JUMP, 0), pc(done), pc(g) + 1)
        ELSE luaK_patchlist(condjump(done, "TFORLOOP", base, 0, nvars), pc(done) + 1, pc(g) + 1)
exp1(fs, x) == luaK_exp2nextreg(expr(fs, x))
fornum(fs, name, xs, b) ==
    LET g == FoldLeft(exp1, new_localvars(fs, <<"(for index)", "(for limit)", "(for step)", name>>), xs)
        one == addk(g, <<"number", 1>>)
        step == IF Len(xs) = 3 THEN g ELSE luaK_reserveregs(luaK_codeABC(one, "LOADK", one.freereg, one.e.info, 0), 1)
    IN  forbody(step, fs.freereg, b, 1, TRUE)
forlist(fs, names, xs, b) ==
    LET g == explist(new_localvars(fs, <<"(for generator)", "(for state)", "(for control)">> \o names), xs)
    IN  forbody(luaK_checkstack(adjust_assign(g, 3, Len(xs)), 3), fs.freereg, b, Len(names), FALSE)

test_then_block(fs, clause) == LET c == cond(fs, clause[1]) IN On(block(c, clause[2]), c.e)
\* g.e.f is the list of the jumps of the last condition, esc the one of the
\* jumps over what follows.
ifstat(fs, clauses, else) ==
    LET Escape(s) == [fs |-> luaK_patchtohere(luaK_concat(luaK_jump(s.fs), s.esc, pc(s.fs)), s.fs.e.f),
                      esc |-> Joined(s.esc, pc(s.fs))]
        Elseif(s, clause) == LET t == Escape(s) IN [t EXCEPT !.fs = test_then_block(t.fs, clause)]
        last == FoldLeft(Elseif, [fs |-> test_then_block(fs, Head(clauses)), esc |-> NO_JUMP], Tail(clauses))
        out  == Escape(last)
    IN  IF else # <<>> THEN luaK_patchtohere(block(out.fs, else[1]), out.esc)
        ELSE luaK_patchtohere(luaK_concat(last.fs, last.esc, last.fs.e.f), Joined(last.esc, last.fs.e.f))

localfunc(fs, name, x) ==
    LET g == adjustlocalvars(luaK_reserveregs(new_localvars(fs, <<name>>), 1), 1)
    IN  luaK_storevar(body(g, x, FALSE), init_exp("LOCAL", fs.freereg))
localstat(fs, names, xs) ==
    adjustlocalvars(adjust_assign(explist(new_localvars(fs, names), xs), Len(names), Len(xs)), Len(names))
funcstat(fs, x, needself, f) == LET v == primaryexp(fs, x) IN luaK_storevar(body(v, f, needself), v.e)

retstat(fs, xs) ==
    LET v == explist(fs, xs)
        m == luaK_setreturns(v, LUA_MULTRET)
        tail == v.e.k = "CALL" /\ Len(xs) = 1
        t == IF tail THEN Asserted([m EXCEPT !.code[m.e.info + 1].op = "TAILCALL"], getcode(m).a = fs.nactvar) ELSE m
        one == luaK_exp2anyreg(v)
        all == luaK_exp2nextreg(v)
    IN  CASE xs = <<>> -> luaK_ret(fs, 0, 0)
          [] hasmultret(v.e) -> luaK_ret(t, fs.nactvar, LUA_MULTRET)
          [] ~hasmultret(v.e) /\ Len(xs) = 1 -> luaK_ret(one, one.e.info, 1)
          [] ~hasmultret(v.e) /\ Len(xs) > 1 ->
               luaK_ret(Asserted(all, Len(xs) = all.freereg - fs.nactvar), fs.nactvar, Len(xs))

statement(fs, s) ==
    CASE s[1] = "local"    -> localstat(fs, s[2], s[3])
      [] s[1] = "assign"   -> assignment(fs, s[2], s[3])
      [] s[1] = "callstat" -> LET g == primaryexp(fs, s[2]) IN [g EXCEPT !.code[g.e.info + 1].c = 1]
      [] s[1] = "do"       -> block(fs, s[2])
      [] s[1] = "while"    -> whilestat(fs, s[2], s[3])
      [] s[1] = "repeat"   -> repeatstat(fs, s[2], s[3])
      [] s[1] = "if"       -> ifstat(fs, s[2], s[3])
      [] s[1] = "fornum"   -> leaveblock(fornum(enterblock(fs, TRUE), s[2], s[3], s[4]))
      [] s[1] = "forlist"  -> leaveblock(forlist(enterblock(fs, TRUE), s[2], s[3], s[4]))
      [] s[1] = "localfunction" -> localfunc(fs, s[2], s[3])
      [] s[1] = "funcstat" -> funcstat(fs, s[2], s[3], s[4])
      [] s[1] = "return"   -> retstat(fs, s[2])
      [] s[1] = "break"    -> breakstat(fs)

chunk(fs, b) ==
    LET Ended(h) == [Asserted(h, h.maxstacksize >= h.freereg /\ h.freereg >= h.nactvar) EXCEPT !.freereg = h.nactvar]
    IN  IF b = <<>> THEN fs ELSE Eagerly(statement(fs, Head(b)), LAMBDA h : chunk(Ended(h), Tail(b)))

\* The main function, as a prototype, and whether all assertions held.
luaY_parser(b) ==
    LET fs == close_func(chunk([open_func(<<>>) EXCEPT !.is_vararg = {"ISVARARG"}], b))
    IN  [f |-> Proto(fs), ok |-> fs.ok /\ fs.nactvar = 0 /\ fs.upvalues = <<>>]
=============================================================================
