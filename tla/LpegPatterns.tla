---------------------------- MODULE LpegPatterns ----------------------------
(***************************************************************************)
(* The functions Lua calls to build patterns (lpeg.c): literals, operators *)
(* and captures, each an operator from the patterns it is given to the     *)
(* pattern it returns, or to Failed(message) where it raises an error.     *)
(***************************************************************************)
EXTENDS LpegCode, TLC

\* any(n): n characters, in counts that fit the instruction's byte.
RECURSIVE AnyCode(_)
AnyCode(n) == IF n > UCHAR_MAX
              THEN <<setinstaux("any", 0, UCHAR_MAX)>> \o AnyCode(n - UCHAR_MAX)
              ELSE <<setinstaux("any", 0, n)>>
any(n) == Pattern(AnyCode(n), <<>>)

True  == Pattern(<<>>, <<>>)
False == Pattern(<<setinst("fail", 0)>>, <<>>)

\* getpatt: what a string, a number, a boolean or a function stands for.
String(s) == Pattern([i \in DOMAIN s |-> Char(s[i])], <<>>)
Number(n) ==
    IF n = 0 THEN True
    ELSE IF n > 0 THEN any(n)
    ELSE IF -n <= UCHAR_MAX
    THEN Pattern(<<setinstaux("any", 2, -n), setinst("fail", 0)>>, <<>>)
    ELSE LET rest   == AnyCode(-n - UCHAR_MAX)
             offset == 2 + Len(rest)
         IN  Pattern(<<setinstaux("any", offset + 1, UCHAR_MAX),
                       setinstaux("choice", offset, UCHAR_MAX)>>
                     \o rest \o <<setinst("failtwice", 0)>>, <<>>)
Function(f) == Pattern(<<setinstcap("opencap", 1, "runtime", 0),
                         setinstcap("closert", 0, "close", 0)>>, <<f>>)
set_l(set)  == IF Cardinality(set) = 1 THEN String(SetToSeq(set))
               ELSE Pattern(<<Check(set)>>, <<>>)
nter_l(name) == Pattern(<<setinst("opencall", 1)>>, <<name>>)

---------------------------------------------------------------------------
\* p1 * p2
concat_l(p1, p2) ==
    CASE isfail(p1) \/ issucc(p2) -> p1
      [] ~(isfail(p1) \/ issucc(p2)) /\ (isfail(p2) \/ issucc(p1)) -> p2
      [] OTHER ->
           IF isany(p1) /\ isany(p2) THEN any(p1.code[1].aux + p2.code[1].aux)
           ELSE optimizecaptures(Finish(addpatt(addpatt(newpatt, p1), p2)))

\* p1 - p2: what matches p1 where p2 does not match.
diff_l(p1, p2) ==
    LET l2  == Len(p2.code) - 1
        st1 == tocharset(p1.code)
        st2 == tocharset(p2.code)
    IN  IF st1.tag = "ISCHARSET" /\ st2.tag = "ISCHARSET"
        THEN Pattern(<<Check(st1.cs \ st2.cs)>>, <<>>)
        ELSE IF isheadfail(p2)
        THEN Finish(addpatt(addinst(check2test(addpatt(newpatt, p2), 1, l2 + 1),
                                    setinst("fail", 0)), p1))
        ELSE LET choice == addinst(newpatt, setinst("choice", 1 + l2 + 1))
                 p == addpatt(addinst(addpatt(choice, p2), setinst("failtwice", 0)), p1)
             IN  [code |-> optimizechoice(Append(p.code, IEnd), 1), k |-> p.k]

\* -p: succeeds, consuming nothing, where p does not match.
unm_l(p) == CASE isfail(p) -> True
              [] issucc(p) -> False
              [] OTHER     -> diff_l(True, p)

\* the frame of the two predicates that look at p without moving.
Predicate(before, p) ==
    LET l1     == Len(p.code) - 1
        choice == addinst(newpatt, setinst("choice", Len(before) + 1 + l1 + 1))
        opened == [choice EXCEPT !.code = @ \o before]
        closed == addinst(addpatt(opened, p), setinst("backcommit", 2))
    IN  Finish(addinst(closed, setinst("fail", 0)))

\* #p: succeeds, consuming nothing, where p matches.
pattand_l(p) ==
    CASE isfail(p) \/ issucc(p) -> p
      [] ~(isfail(p) \/ issucc(p)) /\ tocharset(p.code).tag = "ISCHARSET" ->
            Pattern(Append(Body(p), setinstaux("back", 0, 1)), <<>>)
      [] OTHER -> Predicate(<<>>, p)

\* B(p, n): p matches n characters back.
pattbehind(p, n) ==
    CASE \E i \in DOMAIN p.code : p.code[i].op = "opencall" ->
            Failed("lookbehind pattern cannot contain non terminals")
      [] isfail(p) \/ issucc(p) -> p
      [] OTHER ->
           IF n = 1 /\ tocharset(p.code).tag = "ISCHARSET"
           THEN Pattern(<<setinstaux("back", 0, 1)>> \o Body(p), <<>>)
           ELSE Predicate(<<setinstaux("back", 0, n)>>, p)

---------------------------------------------------------------------------
(***************************************************************************)
(* p1 + p2.  The alternatives of p1 are taken apart again: each decides on *)
(* its own whether it can be a test and a jump, or must be a choice.       *)
(***************************************************************************)
\* the length of the first alternative of the code c (without its "end")
\* when c is a union, or 0.
firstpart(c) ==
    LET head == Append(c, IEnd)[1]
        e == head.off
        ends(ops) == /\ c[e].op \in ops
                     /\ e - 1 + c[e].off = Len(c)
    IN  CASE istest(head) -> IF ends({"jmp", "commit"}) THEN e ELSE 0
          [] head.op = "choice" -> IF ends({"commit"}) THEN e ELSE 0
          [] OTHER -> 0

\* can what the first alternative's test lets through start the second?
interfere(c, sp, st2) ==
    /\ \E i \in 1..sp : c[i].op \notin NOFAIL
    /\ \/ st2.tag = "NOINFO"
       \/ c[1].op = "any"
       \/ st2.cs \cap c[1].set # {}

\* c2 is the second pattern's code, already corrected for the joined table.
basicUnion(c1, c2, st2) ==
    LET st1 == tocharset(Append(c1, IEnd))
        l1  == Len(c1)
        l2  == Len(c2)
        p1  == Pattern(c1, <<>>)
    IN  IF st1.tag = "ISCHARSET" /\ st2.tag = "ISCHARSET"
        THEN <<Check(st1.cs \cup st2.cs)>>
        ELSE IF exclusive(st1, st2) \/ isheadfail(p1)
        THEN [c1 EXCEPT ![1].off = l1 + 1] \o <<setinst("jmp", l2 + 1)>> \o c2
        ELSE optimizechoice(<<setinst("choice", 1 + l1 + 1)>> \o c1
                            \o <<setinst("commit", 1 + l2)>> \o c2, 1)

RECURSIVE separateparts(_, _, _)
separateparts(c1, c2, st2) ==
    LET sp    == firstpart(c1)
        first == SubSeq(c1, 1, sp)
        rest  == separateparts(SubSeq(c1, sp + 1, Len(c1)), c2, st2)
    IN  IF sp = 0 THEN basicUnion(c1, c2, st2)
        ELSE IF c1[sp].op = "commit" \/ ~interfere(c1, sp, st2)
        THEN [first EXCEPT ![sp].off = Len(rest) + 1] \o rest
        ELSE \* back to a choice, which takes one more instruction
             <<[c1[1] EXCEPT !.off = @ + 1], setinstaux("choice", sp, 1)>>
             \o SubSeq(c1, 2, sp - 1) \o <<setinst("commit", Len(rest) + 1)>> \o rest

union_l(p1, p2) ==
    CASE isfail(p1) -> p2
      [] ~isfail(p1) /\ (isfail(p2) \/ issucc(p1)) -> p1
      [] OTHER ->
           LET second == addpatt([code |-> <<>>, k |-> p1.k], p2)
           IN  Pattern(separateparts(Body(p1), second.code, tocharset(p2.code)), second.k)

---------------------------------------------------------------------------
(***************************************************************************)
(* p^n: at least n times, or at most -n times.                             *)
(***************************************************************************)
RECURSIVE Repeated(_, _, _)
Repeated(acc, p, n) == IF n = 0 THEN acc ELSE Repeated(addpatt(acc, p), p, n - 1)

repeatcharset(p, cs, n) == Finish(addinst(Repeated(newpatt, p, n), Span(cs)))

repeatheadfail(p, n) ==
    LET l1  == Len(p.code) - 1
        all == Repeated(newpatt, p, n + 1)
    IN  Finish(addinst(check2test(all, n * l1 + 1, l1 + 1), setinst("jmp", -l1)))

\* a mutant of repeats: any body is repeated
RepeatsUnverified(p, n) ==
    LET l1 == Len(p.code) - 1
    IN  Finish(addinst(addpatt(addinst(Repeated(newpatt, p, n), setinst("choice", 1 + l1 + 1)), p),
                       setinst("partialcommit", -l1)))
repeats(p, n) ==
    LET l1     == Len(p.code) - 1
        answer == verify(p.code, 1, <<>>, l1 + 1, <<>>, p.k)
        loop   == addpatt(addinst(Repeated(newpatt, p, n), setinst("choice", 1 + l1 + 1)), p)
    IN  CASE answer = "no"  -> Finish(addinst(loop, setinst("partialcommit", -l1)))
          [] answer = "yes" -> Failed("loop body may accept empty string")
          [] OTHER          -> Failed(answer)

optionalheadfail(p, n) ==
    LET l1  == Len(p.code) - 1
        all == Repeated(newpatt, p, n)
    IN  Finish([all EXCEPT !.code = [i \in DOMAIN @ |->
            IF i % l1 = 1 \/ l1 = 1 THEN [@[i] EXCEPT !.off = n * l1 - (i - 1)] ELSE @[i]]])

\* a mutant of Optional: the last repetition leaves the choice pending
LastStaysPartial(acc, p, n) == Repeated(acc, [p EXCEPT !.code = Body(p) \o <<setinst("partialcommit", 1), IEnd>>], n)
RECURSIVE Optional(_, _, _)
Optional(acc, p, n) ==
    IF n = 0 THEN acc
    ELSE Optional(addinst(addpatt(acc, p),
                          IF n = 1 THEN setinst("commit", 1) ELSE setinst("partialcommit", 1)),
                  p, n - 1)
optionals(p, n) ==
    LET choice == addinst(newpatt, setinst("choice", 1 + n * Len(p.code)))
    IN  [Finish(Optional(choice, p, n)) EXCEPT !.code = optimizechoice(@, 1)]

star_l(p, n) ==
    LET st   == tocharset(p.code)
        loop == IF isheadfail(p) THEN repeatheadfail(p, n) ELSE repeats(p, n)
    IN  CASE n >= 0 /\ st.tag = "ISCHARSET" -> repeatcharset(p, st.cs, n)
          [] n >= 0 /\ st.tag # "ISCHARSET" ->
                IF IsFailed(loop) THEN loop ELSE optimizejumps(optimizecaptures(loop))
          [] OTHER -> IF isheadfail(p) THEN optionalheadfail(p, -n) ELSE optionals(p, -n)

---------------------------------------------------------------------------
(***************************************************************************)
(* Captures                                                                *)
(***************************************************************************)
\* the label of a capture goes into the pattern's table; none is <<>>.
label(values) == IF values = <<>> THEN 0 ELSE 1

\* capture_aux: one instruction after a pattern of checks alone, a pair
\* around any other.
capture_aux(p, kind, values) ==
    LET l1   == Len(p.code) - 1
        lc   == skipchecks(p.code, 1, 0)
        acc  == [code |-> <<>>, k |-> values]
        open == addinst(acc, setinstcap("opencap", label(values), kind, 0))
    IN  IF lc = l1
        THEN Finish(addinst(addpatt(acc, p),
                 setinstcap("fullcap", label(values), kind, Steps(p.code, 1, lc))))
        ELSE optimizecaptures(Finish(addinst(addpatt(open, p),
                 setinstcap("closecap", 0, "close", 0))))

capture_l(p)     == capture_aux(p, "simple", <<>>)
tcapture_l(p)    == capture_aux(p, "table", <<>>)
capsubst_l(p)    == capture_aux(p, "subst", <<>>)
\* p / v: the kind of capture follows from the kind of v.
rcapture_l(p, v) == capture_aux(p, CASE v[1] = "function" -> "function"
                                     [] v[1] = "map"      -> "query"
                                     [] v[1] = "format"   -> "string", <<v>>)
fold_l(p, f)     == capture_aux(p, "fold", <<f>>)
group_l(p, name) == capture_aux(p, "group", IF name = <<>> THEN <<>> ELSE <<name>>)

position_l    == Pattern(<<setinstcap("emptycap", 0, "position", 0)>>, <<>>)
backref_l(name) == Pattern(<<setinstcap("emptycapidx", 1, "backref", 0)>>, <<name>>)
argcap_l(n)   == Pattern(<<setinstcap("emptycap", n, "arg", 0)>>, <<>>)
capconst_l(values) ==
    LET n      == Len(values)
        consts == [i \in 1..n |-> setinstcap("emptycapidx", i, "const", 0)]
    IN  Pattern(IF n <= 1 THEN consts
                ELSE <<setinstcap("opencap", 0, "group", 0)>> \o consts
                     \o <<setinstcap("closecap", 0, "close", 0)>>, values)
matchtime_l(p, f) ==
    LET acc == [code |-> <<setinstcap("opencap", 1, "runtime", 0)>>, k |-> <<f>>]
    IN  optimizecaptures(Finish(addinst(addpatt(acc, p), setinstcap("closert", 0, "close", 0))))

---------------------------------------------------------------------------
(***************************************************************************)
(* fix_l: a grammar.  rules is a sequence of [name, p], in the order in    *)
(* which lua_next yields them; init names the first rule.                  *)
(***************************************************************************)
\* where each rule starts: after the call of the first and the jump over all.
RECURSIVE Positions(_, _)
Positions(rules, at) ==
    IF rules = <<>> THEN <<>>
    ELSE (Head(rules).name :> at) @@ Positions(Tail(rules), at + Len(Head(rules).p.code))

fix_l(rules, init) ==
    LET pos   == Positions(rules, 3)
        total == FoldLeft(LAMBDA n, r : n + Len(r.p.code), 0, rules) + 2
        start == [code |-> <<setinst("call", 0), setinst("jmp", total - 1)>>, k |-> <<>>]
        all   == Finish(FoldLeft(LAMBDA acc, r : addinst(addpatt(acc, r.p), setinst("ret", 0)),
                                 start, rules))
        Verdict(r) == checkrule(all.code, pos[r.name], pos[r.name] + Len(r.p.code) - 1,
                                pos, all.k)
        verdicts == [i \in DOMAIN rules |-> Verdict(rules[i])]
        bad      == {i \in DOMAIN rules : verdicts[i] # "ok"}
        undefined == {i \in DOMAIN all.code :
                        all.code[i].op = "opencall" /\ all.k[all.code[i].off] \notin DOMAIN pos}
        Call(i) == LET to == pos[all.k[all.code[i].off]] - i
                   IN  IF all.code[target(all.code, i + 1)].op = "ret"
                       THEN setinst("jmp", to) ELSE setinst("call", to)
        closed  == [i \in DOMAIN all.code |->
                        CASE i = 1 -> setinst("call", pos[init] - 1)
                          [] all.code[i].op = "opencall" -> Call(i)
                          [] OTHER -> all.code[i]]
    IN  CASE bad # {} -> Failed(verdicts[Min(bad)])
          [] bad = {} /\ (undefined # {} \/ init \notin DOMAIN pos) ->
                Failed("rule is not defined")
          [] OTHER -> optimizejumps([code |-> closed, k |-> all.k])
=============================================================================
