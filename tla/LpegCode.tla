------------------------------ MODULE LpegCode ------------------------------
(***************************************************************************)
(* The compiler of the parsing library (lpeg.c): the constructors that Lua *)
(* calls to build a pattern, each of which joins the code of its operands. *)
(*                                                                         *)
(* A pattern is a record [code, k]: the list of instructions, the last of  *)
(* which is "end", and the table of Lua values its instructions refer to   *)
(* (the environment of the userdata).  Offsets are relative, as in the     *)
(* source; an instruction takes one place whatever its operand (a set of   *)
(* characters takes several in the source).  A constructor that raises an  *)
(* error is modelled by Failed(message).                                   *)
(***************************************************************************)
EXTENDS Integers, Sequences, SequencesExt, FiniteSets, FiniteSetsExt

CONSTANTS Chars,      \* the characters of patterns and subjects
          UCHAR_MAX,  \* the largest count an instruction's byte can hold
          MAXOFF,     \* the furthest a capture is moved across checks
          MAXBACKVER  \* size of the verifier's stack

ASSUME LpegSizes == /\ UCHAR_MAX \in Nat \ {0} /\ MAXOFF \in Nat
                    /\ MAXOFF < UCHAR_MAX   \* a full capture's size fits its byte
                    /\ MAXBACKVER \in Nat \ {0}

Instruction(op, off, aux, set, kind) ==
    [op |-> op, off |-> off, aux |-> aux, set |-> set, kind |-> kind]
setinstaux(op, off, aux) == Instruction(op, off, aux, {}, "none")
setinst(op, off)         == setinstaux(op, off, 0)
setinstcap(op, idx, kind, n) == Instruction(op, idx, n, {}, kind)
Check(set)  == Instruction("set", 0, 0, set, "none")
Char(c)     == Instruction("char", 0, 0, {c}, "none")
Span(set)   == Instruction("span", 0, 0, set, "none")
IEnd        == setinst("end", 0)

\* opproperties
CHECKS   == {"any", "char", "set"}
JUMPS    == CHECKS \cup {"choice", "jmp", "call", "commit", "partialcommit",
                         "backcommit"}
NOFAIL   == {"span", "jmp", "fullcap", "emptycap", "emptycapidx", "opencap",
             "closecap"}
MOVABLE  == {"emptycap", "emptycapidx", "opencap", "closecap"}
FENVOFF  == {"opencall", "fullcap", "emptycapidx", "opencap", "closecap",
             "closert"}
CAPTURES == {"fullcap", "emptycap", "emptycapidx", "opencap", "closecap",
             "closert"}

isjmp(i)      == i.op \in JUMPS /\ i.off # 0
isfixcheck(i) == i.op \in CHECKS /\ i.off = 0
istest(i)     == i.op \in CHECKS /\ i.off # 0
ismovablecap(i) == i.op \in MOVABLE /\ i.aux < MAXOFF
op_step(i)    == IF i.op = "any" THEN i.aux ELSE 1

Failed(message) == [code |-> <<>>, k |-> <<>>, error |-> message]
IsFailed(p)     == "error" \in DOMAIN p
Pattern(code, k) == [code |-> Append(code, IEnd), k |-> k]

Body(p) == Front(p.code)
isfail(p) == p.code[1].op = "fail"
issucc(p) == p.code[1].op = "end"
isany(p)  == p.code[1].op = "any" /\ p.code[2].op = "end"

---------------------------------------------------------------------------
(***************************************************************************)
(* Joining two patterns: the table of values of the result, and the code   *)
(* of the second with its references into that table corrected.            *)
(***************************************************************************)
\* The source compares the two tables by identity; tables of equal contents
\* are one here.
jointable(k, k1) == IF k1 = <<>> \/ k1 = k THEN k ELSE k \o k1

Corrected(code, corr) ==
    [i \in DOMAIN code |->
        IF code[i].op \in FENVOFF /\ code[i].off # 0
        THEN [code[i] EXCEPT !.off = @ + corr] ELSE code[i]]

\* addpatt: the code of p1 appended to what the new pattern has so far.
addpatt(acc, p1) ==
    LET corr == IF p1.k = <<>> \/ p1.k = acc.k THEN 0 ELSE Len(acc.k)
    IN  [code |-> acc.code \o Corrected(Body(p1), corr),
         k    |-> jointable(acc.k, p1.k)]

addinst(acc, i) == [acc EXCEPT !.code = Append(@, i)]
newpatt         == [code |-> <<>>, k |-> <<>>]
Finish(acc)     == Pattern(acc.code, acc.k)
check2test(acc, i, n) == [acc EXCEPT !.code[i].off = n]

---------------------------------------------------------------------------
(***************************************************************************)
(* Optimizations                                                           *)
(***************************************************************************)
Steps(p, i, m) == FoldLeft(LAMBDA n, x : n + op_step(x), 0, SubSeq(p, i, i + m - 1))

\* skipchecks: how many checks from i on a capture can be moved across.
skipchecks(p, i, up) ==
    Max({m \in 0..(Len(p) - i) : /\ \A j \in i..(i + m - 1) : isfixcheck(p[j])
                                 /\ Steps(p, i, m) <= MAXOFF - up})

\* rotate: the slice lo..hi of p, n places to the left.
rotate(p, lo, hi, n) ==
    SubSeq(p, 1, lo - 1) \o SubSeq(p, lo + n, hi) \o SubSeq(p, lo, lo + n - 1)
        \o SubSeq(p, hi + 1, Len(p))

\* optimizecaptures: captures move behind the checks that follow them, which
\* fail more cheaply; they remember by how much (aux).  Never over a target
\* of a jump.
RECURSIVE OptCaptures(_, _, _)
OptCaptures(p, i, limit) ==
    IF p[i].op = "end" THEN p
    ELSE IF isjmp(p[i]) /\ i + p[i].off >= limit
    THEN OptCaptures(p, i + 1, i + p[i].off + 1)
    ELSE IF ~(i >= limit /\ ismovablecap(p[i]) /\ isfixcheck(p[i + 1]))
    THEN OptCaptures(p, i + 1, limit)
    ELSE LET start  == Min({j \in limit..i : \A h \in j..i : ismovablecap(p[h])})
             maxoff == Max({p[h].aux : h \in start..i})
             checks == skipchecks(p, i + 1, maxoff)
             n      == Steps(p, i + 1, checks)
             moved  == [j \in DOMAIN p |-> IF j \in start..i
                                           THEN [p[j] EXCEPT !.aux = @ + n] ELSE p[j]]
         IN  IF n = 0 THEN OptCaptures(p, i + 1, limit)
             ELSE OptCaptures(rotate(moved, start, i + checks, i - start + 1),
                              i + checks + 1, limit)
optimizecaptures(p) == [p EXCEPT !.code = OptCaptures(@, 1, 1)]

RECURSIVE target(_, _)
target(p, i) == IF p[i].op = "jmp" THEN target(p, i + p[i].off) ELSE i

optimizejumps(p) ==
    [p EXCEPT !.code = [i \in DOMAIN p.code |->
        IF isjmp(p.code[i])
        THEN [p.code[i] EXCEPT !.off = target(p.code, i + @) - i] ELSE p.code[i]]]

\* optimizechoice: a choice whose alternative starts with a check does the
\* check first, and then remembers the place before it.
\* a mutant of optimizechoice: the choice is resumed behind the check
ChoiceForgetsCheck(p, i) ==
    IF ~isfixcheck(p[i + 1]) THEN p
    ELSE [p EXCEPT ![i] = [p[i + 1] EXCEPT !.off = p[i].off],
                   ![i + 1] = [p[i] EXCEPT !.off = @ - 1]]
optimizechoice(p, i) ==
    IF ~isfixcheck(p[i + 1]) THEN p
    ELSE [p EXCEPT ![i]     = [p[i + 1] EXCEPT !.off = p[i].off],
                   ![i + 1] = [p[i] EXCEPT !.aux = op_step(p[i + 1]), !.off = @ - 1]]

\* isheadfail: only the first instruction can fail, and it is a check.
isheadfail(p) == /\ isfixcheck(p.code[1])
                 /\ \A i \in 2..(Len(p.code) - 1) : p.code[i].op \in NOFAIL

\* tocharset: what is known of the characters a pattern can start with.
tocharset(code) ==
    IF ~isfixcheck(code[1]) THEN [tag |-> "NOINFO", cs |-> {}]
    ELSE [tag |-> IF code[2].op = "end" /\ op_step(code[1]) = 1
                  THEN "ISCHARSET" ELSE "VALIDSTARTS",
          cs  |-> IF code[1].op = "any" THEN Chars ELSE code[1].set]

exclusive(st1, st2) == /\ st1.tag # "NOINFO" /\ st2.tag # "NOINFO"
                       /\ st1.cs \cap st2.cs = {}

---------------------------------------------------------------------------
(***************************************************************************)
(* The verifier: can the code from p to e be run without consuming input?  *)
(* It runs the code on a stack of its own, and backtracks at every check.  *)
(* "yes", "no", or the error it raises.  pos gives where the rules of a     *)
(* grammar start (<<>> while the pattern is not part of a grammar).        *)
(***************************************************************************)
RECURSIVE verify(_, _, _, _, _, _)
VerifyFail(op, back, e, pos, k) ==
    LET choices == {i \in DOMAIN back : back[i].s = "choice"}
    IN  IF choices = {} THEN "no"
        ELSE verify(op, back[Max(choices)].p, SubSeq(back, 1, Max(choices) - 1), e, pos, k)

verify(op, p, back, e, pos, k) ==
    LET i       == op[p]
        Go(q, b) == verify(op, q, b, e, pos, k)
        Jump(b)  == Go(p + i.off, b)
        Fail     == VerifyFail(op, back, e, pos, k)
        Push(q, s, next) == IF Len(back) >= MAXBACKVER
                            THEN "too many pending calls/choices"
                            ELSE Go(next, Append(back, [p |-> q, s |-> s]))
    IN
    IF p = e THEN "yes"
    ELSE CASE i.op = "ret" -> Go(Last(back).p, Front(back))
           [] i.op = "choice" -> Push(p + i.off, "choice", p + 1)
           [] i.op = "call" -> Push(p + 1, "call", p + i.off)
           [] i.op = "opencall" ->
                IF pos = <<>> THEN Fail       \* verified when the grammar is fixed
                ELSE IF \E j \in DOMAIN back : back[j] = [p |-> p + 1, s |-> "call"]
                THEN "left recursive"
                ELSE IF k[i.off] \notin DOMAIN pos THEN "rule is not defined"
                ELSE Push(p + 1, "call", pos[k[i.off]])
           [] i.op \in {"backcommit", "commit"} -> Jump(Front(back))
           [] i.op = "partialcommit" ->
                IF i.off > 0 THEN Jump(back)
                ELSE IF pos = <<>> THEN "assert" ELSE Go(p + 1, Front(back))
           [] i.op = "back" ->
                IF i.aux = 1 /\ isfixcheck(op[p + 1]) THEN Go(p + 2, back)
                ELSE Go(p + op[p - 1].off, Front(back))
           [] i.op \in CHECKS ->
                IF op[p + 1].op = "back" THEN Go(p + 2, back)
                ELSE IF i.off = 0 THEN Fail ELSE Jump(back)
           [] i.op = "jmp" -> Jump(back)
           [] i.op = "fail" -> IF p > 1 /\ op[p - 1].op = "backcommit"
                               THEN Go(p + 1, back)   \* an "and" predicate
                               ELSE Fail
           [] i.op \in {"failtwice", "closert"} -> Fail
           [] i.op \in {"span"} \cup (CAPTURES \ {"closert"}) -> Go(p + 1, back)

Verdicts == {"yes", "no"}

\* checkrule: every loop of a rule with a call in it, then the rule itself.
checkrule(op, from, to, pos, k) ==
    LET loops == {i \in from..to : op[i].op = "partialcommit" /\ op[i].off < 0}
        suspect == {i \in loops : \E j \in from..i :
                       op[j].op = "opencall" /\ i + op[i].off <= j}
        bodies == {verify(op, i + op[i].off, <<>>, i, pos, k) : i \in suspect}
        whole  == verify(op, from, <<>>, to, pos, k)
        errors == (bodies \cup {whole}) \ Verdicts
    IN  IF "yes" \in bodies THEN "possible infinite loop"
        ELSE IF errors # {} THEN CHOOSE x \in errors : TRUE ELSE "ok"
=============================================================================
