-------------------------------- MODULE Lpeg --------------------------------
(***************************************************************************)
(* The parsing machine of lpeg.c.  A program builds a pattern with the     *)
(* constructors of LpegPatterns, then calls match: the machine runs the    *)
(* code over a subject with a stack of pending choices and calls, and a    *)
(* list of captures whose values LpegCaptures computes at the end.         *)
(*                                                                         *)
(* expr is an auxiliary variable: the expression the pattern was built     *)
(* from, whose meaning Peg gives.                                          *)
(***************************************************************************)
EXTENDS LpegPatterns

CONSTANTS Starters,     \* expressions a program starts from
          Operands,     \* expressions a constructor is given next to the pattern
          Labels,       \* [kind, label] of the captures the program uses
          Repetitions,  \* the n of p^n
          MaxBuild,     \* bound: constructors called before match
          Subjects,     \* subjects of match
          Inits,        \* third argument of match
          Args,         \* further arguments of match
          INITBACK,     \* first size of the stack
          MAXBACK,      \* its largest size (setmaxstack)
          INITCAPSIZE,  \* first size of the list of captures
          MAXSTRCAPS,
          Fuel          \* bound: calls of rules the reference follows

ASSUME MachineSizes == /\ INITBACK \in Nat \ {0} /\ MAXBACK \in Nat /\ MAXBACK >= INITBACK
                       /\ INITCAPSIZE \in Nat \ {0}

VARIABLES patt, expr, built, flaws, phase,      \* the program's pattern
          subj, start, s, p, stack, stacklimit, \* the machine
          caps, capsize, result

program == <<patt, expr, built, flaws>>
subject == <<subj, start>>
machine == <<subject, s, p, stack, stacklimit, caps, capsize>>
vars    == <<program, phase, machine, result>>

C == INSTANCE LpegCaptures

\* What a Lua function returns when it is called while matching: a boolean
\* or a position first, then values.  Five functions stand for all.
Answer(f, args, pos) ==
    CASE f[2] = "yes"    -> [first |-> "true",  at |-> 0,       vals |-> <<>>]
      [] f[2] = "no"     -> [first |-> "false", at |-> 0,       vals |-> <<>>]
      [] f[2] = "skip"   -> [first |-> "num",   at |-> pos + 2, vals |-> <<>>]
      [] f[2] = "back"   -> [first |-> "num",   at |-> pos,     vals |-> <<>>]
      [] f[2] = "values" -> [first |-> "true",  at |-> 0,       vals |-> <<<<"call", f, args>>>> \o args]

Ref == INSTANCE Peg

\* the pattern of an operand, built by the same constructors
RECURSIVE Compile(_)
Capture(q, kind, l) ==
    CASE kind = "simple" -> capture_l(q)   [] kind = "table" -> tcapture_l(q)
      [] kind = "subst"  -> capsubst_l(q)  [] kind = "fold"  -> fold_l(q, l)
      [] kind = "group"  -> group_l(q, l)  [] OTHER -> rcapture_l(q, l)
Leaf(kind, l) ==
    CASE kind = "position" -> position_l   [] kind = "backref" -> backref_l(l)
      [] kind = "arg" -> argcap_l(l)       [] kind = "const" -> capconst_l(<<l>>)
Compile(e) ==
    CASE e[1] = "string" -> String(e[2])   [] e[1] = "number" -> Number(e[2])
      [] e[1] = "true" -> True             [] e[1] = "false" -> False
      [] e[1] = "set" -> set_l(e[2])       [] e[1] = "var" -> nter_l(e[2])
      [] e[1] = "seq" -> concat_l(Compile(e[2]), Compile(e[3]))
      [] e[1] = "alt" -> union_l(Compile(e[2]), Compile(e[3]))
      [] e[1] = "diff" -> diff_l(Compile(e[2]), Compile(e[3]))
      [] e[1] = "and" -> pattand_l(Compile(e[2]))
      [] e[1] = "behind" -> pattbehind(Compile(e[2]), e[3])
      [] e[1] = "star" -> star_l(Compile(e[2]), e[3])
      [] e[1] = "leaf" -> Leaf(e[2], e[3])
      [] e[1] = "cap" -> Capture(Compile(e[3]), e[2], e[4])
      [] e[1] = "match" -> IF e[2] = <<"true">> THEN Function(e[3])
                           ELSE matchtime_l(Compile(e[2]), e[3])

Init == /\ \E e \in Starters : expr = e /\ patt = Compile(e)
        /\ built = 0 /\ flaws = {} /\ phase = "building"
        /\ subj = <<>> /\ start = 0 /\ s = 0 /\ p = 0 /\ stack = <<>> /\ stacklimit = 0
        /\ caps = <<>> /\ capsize = 0 /\ result = <<"none">>

---------------------------------------------------------------------------
(***************************************************************************)
(* Building: the constructors, called with the pattern built so far.       *)
(***************************************************************************)
Construct(q, e) ==
    /\ phase = "building" /\ built < MaxBuild
    /\ built' = built + 1
    /\ patt' = q /\ expr' = e
    /\ phase' = IF IsFailed(q) THEN "refused" ELSE "building"
    /\ UNCHANGED <<machine, result>>
Build(q, e) == Construct(q, e) /\ UNCHANGED flaws

\* flaws (auxiliary): concat_l took an optional "any" for one that must match.
OptionalAny(q)   == isany(q) /\ q.code[1].off # 0
Concatenate(q1, q2, e) ==
    /\ Construct(concat_l(q1, q2), e)
    /\ flaws' = IF isany(q1) /\ isany(q2) /\ (OptionalAny(q1) \/ OptionalAny(q2))
                THEN flaws \cup {"optional any"} ELSE flaws
Concat == \E e \in Operands : \/ Concatenate(patt, Compile(e), <<"seq", expr, e>>)
                              \/ Concatenate(Compile(e), patt, <<"seq", e, expr>>)
Union  == \E e \in Operands : \/ Build(union_l(patt, Compile(e)), <<"alt", expr, e>>)
                              \/ Build(union_l(Compile(e), patt), <<"alt", e, expr>>)
Diff   == \E e \in Operands : \/ Build(diff_l(patt, Compile(e)), <<"diff", expr, e>>)
                              \/ Build(diff_l(Compile(e), patt), <<"diff", e, expr>>)
Unm    == Build(unm_l(patt), <<"diff", <<"true">>, expr>>)
And    == Build(pattand_l(patt), <<"and", expr>>)
\* Bound: no look behind with the empty pattern, which the source defines to
\* succeed anywhere ("<true == true").
Behind == phase = "building" /\ ~issucc(patt) /\ \E n \in 1..2 : Build(pattbehind(patt, n), <<"behind", expr, n>>)
\* Bound: the program repeats no pattern with a match-time capture; the
\* verifier takes it that they consume ("be liberal in this case"), and a
\* repetition of one that does not goes on for ever.
Star   == /\ \A i \in DOMAIN patt.code : patt.code[i].op # "closert"
          /\ \E n \in Repetitions : Build(star_l(patt, n), <<"star", expr, n>>)
Cap    == \E l \in Labels : Build(Capture(patt, l[1], l[2]), <<"cap", l[1], expr, l[2]>>)
MatchTime == \E name \in {"yes", "no", "skip", "back", "values"} :
                LET f == <<"function", name>>
                IN  Build(matchtime_l(patt, f), <<"match", expr, f>>)
\* a grammar of the pattern (rule S) and an operand (rule A), in either order
\* flaws also has the left recursion that the verifier let through.
S == <<"rule", "S">>
A == <<"rule", "A">>
Grammar ==
    \E e \in Operands :
        LET rules == <<[name |-> S, p |-> patt], [name |-> A, p |-> Compile(e)]>>
            asts  == [x \in {S, A} |-> IF x = S THEN expr ELSE e]
        IN  /\ \E order \in {rules, <<rules[2], rules[1]>>} :
                    Construct(fix_l(order, S), <<"grammar", asts, S>>)
            /\ flaws' = IF Ref!LeftRecursive(asts) THEN flaws \cup {"left recursion"} ELSE flaws

---------------------------------------------------------------------------
(***************************************************************************)
(* Matching: matchl, then one action per instruction.                      *)
(***************************************************************************)
GIVEUP == 0    \* the place of the instruction below the stack
CALL   == -1   \* the position in the stack's entry of a call
Pending(q, at, level) == [p |-> q, s |-> at, caplevel |-> level]

\* where the third argument says to start
StartAt(ii, l) == IF ii > 0 THEN (IF ii <= l THEN ii - 1 ELSE l)
                  ELSE (IF -ii <= l THEN l + ii ELSE 0)

\* Bound: only grammars that are not left recursive are matched.
Match == /\ phase = "building" /\ "left recursion" \notin flaws
         /\ \A i \in DOMAIN patt.code : patt.code[i].op # "opencall"
         /\ \E text \in Subjects, ii \in Inits :
              /\ subj' = text
              /\ start' = StartAt(ii, Len(text))
              /\ s' = start'
              /\ stack' = <<Pending(GIVEUP, start', 0)>>
         /\ phase' = "matching"
         /\ p' = 1 /\ stacklimit' = INITBACK
         /\ caps' = <<>> /\ capsize' = INITCAPSIZE
         /\ UNCHANGED <<program, result>>

Inst == patt.code[p]
At(op) == phase = "matching" /\ p # GIVEUP /\ Inst.op = op
Stop(why, r) == phase' = why /\ result' = r /\ UNCHANGED <<program, machine>>
Goto(q) == p' = q
Running == UNCHANGED <<program, phase, subject, result>>

\* fail: calls on top of the stack go, the choice below them is resumed.
Backtrack(st) ==
    LET top == Max({i \in DOMAIN st : st[i].s # CALL})
    IN  /\ s' = st[top].s
        /\ p' = st[top].p
        /\ stack' = SubSeq(st, 1, top - 1)
        /\ caps' = SubSeq(caps, 1, st[top].caplevel)
        /\ UNCHANGED <<stacklimit, capsize>>
        /\ Running

\* A check goes on behind what it matched, or to its offset, or fails.
CondFailed == IF Inst.off # 0
              THEN /\ Goto(p + Inst.off)
                   /\ UNCHANGED <<s, stack, stacklimit, caps, capsize>> /\ Running
              ELSE Backtrack(stack)
Advance(n) == /\ s' = s + n /\ Goto(p + 1)
              /\ UNCHANGED <<stack, stacklimit, caps, capsize>> /\ Running

IAny  == At("any") /\ IF Inst.aux <= Len(subj) - s THEN Advance(Inst.aux) ELSE CondFailed
IChar == /\ At("char") \/ At("set")
         /\ IF s < Len(subj) /\ subj[s + 1] \in Inst.set THEN Advance(1) ELSE CondFailed
IBack == At("back") /\ IF Inst.aux > s THEN Backtrack(stack) ELSE Advance(-Inst.aux)
ISpan == /\ At("span")
         /\ Advance(Max({n \in 0..(Len(subj) - s) :
                            \A i \in 1..n : subj[s + i] \in Inst.set}))
IFail == At("fail") /\ Backtrack(stack)
IFailTwice == At("failtwice") /\ Backtrack(Front(stack))

\* doublestack: the stack grows to its largest size, then an error is raised.
Push(entry, q) ==
    IF Len(stack) = stacklimit /\ stacklimit >= MAXBACK
    THEN Stop("overflow", <<"error">>)
    ELSE /\ stack' = Append(stack, entry)
         /\ stacklimit' = IF Len(stack) = stacklimit THEN Min({2 * stacklimit, MAXBACK})
                          ELSE stacklimit
         /\ Goto(q)
         /\ UNCHANGED <<s, caps, capsize>> /\ Running

IChoice == At("choice") /\ Push(Pending(p + Inst.off, s - Inst.aux, Len(caps)), p + 1)
ICall   == At("call") /\ Push(Pending(p + 1, CALL, 0), p + Inst.off)

IJmp == At("jmp") /\ Goto(p + Inst.off)
        /\ UNCHANGED <<s, stack, stacklimit, caps, capsize>> /\ Running
IRet == At("ret") /\ Goto(Last(stack).p) /\ stack' = Front(stack)
        /\ UNCHANGED <<s, stacklimit, caps, capsize>> /\ Running
\* a mutant of ICommit: the choice is not popped
CommitKeepsChoice == /\ At("commit") /\ Goto(p + Inst.off)
                     /\ UNCHANGED <<s, stack, stacklimit, caps, capsize>> /\ Running
ICommit == At("commit") /\ stack' = Front(stack) /\ Goto(p + Inst.off)
           /\ UNCHANGED <<s, stacklimit, caps, capsize>> /\ Running
IPartialCommit ==
    /\ At("partialcommit")
    /\ stack' = Append(Front(stack), Pending(Last(stack).p, s, Len(caps)))
    /\ Goto(p + Inst.off)
    /\ UNCHANGED <<s, stacklimit, caps, capsize>> /\ Running
IBackCommit ==
    /\ At("backcommit")
    /\ s' = Last(stack).s
    /\ caps' = SubSeq(caps, 1, Last(stack).caplevel)
    /\ stack' = Front(stack) /\ Goto(p + Inst.off)
    /\ UNCHANGED <<stacklimit, capsize>> /\ Running

\* a capture is added; doublecap keeps room for one more.
\* a mutant of Added: the list grows one entry too late
AddedLate(list) == /\ caps' = list
                   /\ capsize' = IF Len(list) > capsize THEN 2 * Len(list) ELSE capsize
                   /\ Goto(p + 1)
Added(list) == /\ caps' = list
               /\ capsize' = IF Len(list) >= capsize THEN 2 * Len(list) ELSE capsize
               /\ Goto(p + 1)
AddCapture(kind, siz) == Added(Append(caps, C!Entry(s - Inst.aux, Inst.off, kind, siz)))

IOpenCapture  == At("opencap") /\ AddCapture(Inst.kind, 0)
                 /\ UNCHANGED <<s, stack, stacklimit>> /\ Running
IEmptyCapture == /\ At("emptycap") \/ At("emptycapidx")
                 /\ AddCapture(Inst.kind, 1)
                 /\ UNCHANGED <<s, stack, stacklimit>> /\ Running
IFullCapture  == At("fullcap") /\ AddCapture(Inst.kind, Inst.aux + 1)
                 /\ UNCHANGED <<s, stack, stacklimit>> /\ Running
\* the last entry, still open and short, is completed in place.
\* a mutant of ICloseCapture: the last entry is closed even if it is closed
ClosesLast ==
    /\ At("closecap")
    /\ LET top == Len(caps)
       IN  IF s - Inst.aux - caps[top].s < UCHAR_MAX
           THEN /\ caps' = [caps EXCEPT ![top].siz = s - Inst.aux - caps[top].s + 1]
                /\ Goto(p + 1) /\ UNCHANGED capsize
           ELSE AddCapture("close", 1)
    /\ UNCHANGED <<s, stack, stacklimit>> /\ Running
ICloseCapture ==
    /\ At("closecap")
    /\ LET top    == Len(caps)
           length == s - Inst.aux - caps[top].s
       IN  IF caps[top].siz = 0 /\ length < UCHAR_MAX
           THEN /\ caps' = [caps EXCEPT ![top].siz = length + 1]
                /\ Goto(p + 1) /\ UNCHANGED capsize
           ELSE AddCapture("close", 1)
    /\ UNCHANGED <<s, stack, stacklimit>> /\ Running

\* The function of a match-time capture is called with the values of what it
\* encloses, which are then dropped; what it returns takes their place.
X(list) == [caps |-> list, k |-> patt.k, subj |-> subj, args |-> Args]
Called(args, open, a) ==
    LET res    == IF a.first = "true" THEN s ELSE a.at - 1
        n      == Len(a.vals)
        dyn    == [i \in 1..n |-> C!Entry(IF i = 1 THEN caps[open].s ELSE res, a.vals[i], "runtime",
                                          IF i = 1 THEN 0 ELSE 1)]
        before == SubSeq(caps, 1, open - 1)
    IN  CASE args.err -> Stop("done", <<"error">>)
          [] ~args.err /\ a.first = "false" -> Backtrack(stack)
          [] OTHER ->
               IF res \notin s..Len(subj) THEN Stop("done", <<"error">>)
               ELSE /\ s' = res
                    /\ IF n = 0 THEN caps' = before /\ Goto(p + 1) /\ UNCHANGED capsize
                       ELSE Added(before \o dyn \o <<C!Entry(res, 0, "close", 1)>>)
                    /\ UNCHANGED <<stack, stacklimit>> /\ Running
ICloseRunTime ==
    /\ At("closert")
    /\ \E cap \in {C!runtimecap(X(Append(caps, C!Entry(s, 0, "close", 1))))} :
          \E a \in {Answer(patt.k[caps[cap.open].idx], cap.args.v, s)} :
             Called(cap.args, cap.open, a)

IGiveup == phase = "matching" /\ p = GIVEUP /\ Stop("done", <<"nil">>)
IEnd_   == At("end") /\ Stop("done", <<"match", s>>)

\* What matchl returns: after a match, the values of the captures.
Delivered(got) == IF got.err THEN <<"error">> ELSE <<"match", s, got.v>>
Returned == IF result[1] # "match" THEN result
            ELSE Delivered(C!getcaptures(X(Append(caps, C!Entry(0, 0, "close", 1))), s))

Step == \/ IAny \/ IChar \/ IBack \/ ISpan \/ IFail \/ IFailTwice \/ IChoice \/ ICall \/ IJmp
        \/ IRet \/ ICommit \/ IPartialCommit \/ IBackCommit \/ IOpenCapture \/ IEmptyCapture
        \/ IFullCapture \/ ICloseCapture \/ ICloseRunTime \/ IGiveup \/ IEnd_

Next == \/ Concat \/ Union \/ Diff \/ Unm \/ And \/ Behind \/ Star \/ Cap \/ MatchTime
        \/ Grammar \/ Match \/ Step

\* match runs until it returns: while the machine is matching a step can be
\* taken, and one is (no instruction leaves everything as it was).
Fairness == []<>(phase # "matching") \/ []<><<phase = "matching">>_vars
Spec == Init /\ [][Next]_vars /\ Fairness

---------------------------------------------------------------------------
(***************************************************************************)
(* Properties                                                              *)
(***************************************************************************)
Meaning == Ref!Outcome(expr, [subj |-> subj, args |-> Args, rules |-> <<>>, fuel |-> Fuel], start)

\* The outcome of match, the values of its captures included, is what the
\* expression means: the optimizations of the constructors (tests, moved
\* captures, joined alternatives, tail calls) cannot be observed.  Patterns
\* in which concat_l merged an optional "any" are left out; they are what
\* EveryMatchMeansPeg is about.
MatchMeansPeg == phase = "done" /\ "optional any" \notin flaws => Returned = Meaning

\* concat_l (lpeg.c, "p1; p2;"): the code of a concatenation matches what one
\* pattern and then the other match, whatever they are.
EveryMatchMeansPeg == phase = "done" => Returned = Meaning

\* The assertions of the machine: a commit finds a choice on the stack, a
\* return a call, the end of the pattern only the entry of the caller.
StackDiscipline ==
    phase = "matching" =>
        IF p = GIVEUP THEN stack = <<>>
        ELSE CASE Inst.op \in {"commit", "partialcommit", "backcommit"} ->
                      Len(stack) > 1 /\ Last(stack).s # CALL
               [] Inst.op = "failtwice" -> Len(stack) > 1
               [] Inst.op = "ret" -> Len(stack) > 1 /\ Last(stack).s = CALL
               [] Inst.op = "end" -> Len(stack) = 1
               [] OTHER -> Len(stack) >= 1 /\ stack[1].p = GIVEUP

\* The machine reads and writes inside its arrays only: the subject, the
\* code, the stack of choices, and the list of captures, which has room for
\* one more entry since the machine writes it before it looks at the size.
InBounds ==
    phase = "matching" =>
        /\ start \in 0..Len(subj) /\ s \in 0..Len(subj)
        /\ p = GIVEUP \/ p \in DOMAIN patt.code
        /\ Len(stack) <= stacklimit /\ stacklimit <= MAXBACK
        /\ Len(caps) < capsize

\* While the machine runs every close entry has its open entry before it; at
\* the end of the pattern none is left open.
Opens(list) == Cardinality({i \in DOMAIN list : ~C!isclosecap(list[i]) /\ ~C!isfullcap(list[i])})
Closes(list) == Cardinality({i \in DOMAIN list : C!isclosecap(list[i])})
CapturesNested ==
    phase = "matching" =>
        /\ \A i \in 0..Len(caps) : Closes(SubSeq(caps, 1, i)) <= Opens(SubSeq(caps, 1, i))
        /\ p # GIVEUP /\ Inst.op = "end" => Closes(caps) = Opens(caps)

\* While a choice is pending no step changes the captures it would go back
\* to, not even the completion of an open entry in place.
PendingCapturesKept ==
    [][\A i \in DOMAIN stack :
          (i \in DOMAIN stack' /\ stack'[i] = stack[i] /\ stack[i].s # CALL)
             => SubSeq(caps', 1, stack[i].caplevel) = SubSeq(caps, 1, stack[i].caplevel)]_vars

\* Every match ends: the constructors refuse the loops that would consume
\* nothing for ever.
MatchEnds == phase = "matching" ~> phase # "matching"
=============================================================================
