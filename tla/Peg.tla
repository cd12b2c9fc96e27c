-------------------------------- MODULE Peg ---------------------------------
(***************************************************************************)
(* What patterns mean: the reference that the compiled patterns of lpeg.c   *)
(* are checked against.  A pattern is an expression (a tagged tuple), a    *)
(* match a tree of captures.  Nothing here knows of instructions, of jumps *)
(* or of the flat list of captures.                                        *)
(*                                                                         *)
(* Eval(e, g, i, prev) matches the expression e from i on: g holds the     *)
(* subject g.subj, the arguments g.args, the rules in force g.rules and     *)
(* the number of calls left g.fuel (none left: no match); prev is the      *)
(* captures a back reference can see.  The result is [r, pos, caps] with r *)
(* "ok", "fail" or "err".                                                  *)
(***************************************************************************)
EXTENDS Integers, Sequences, SequencesExt, FiniteSets, TLC

CONSTANTS MAXSTRCAPS,
          Answer(_, _, _)   \* what a function called while matching returns

Ok(pos, caps) == [r |-> "ok", pos |-> pos, caps |-> caps]
Fail          == [r |-> "fail", pos |-> 0, caps |-> <<>>]
Err           == [r |-> "err", pos |-> 0, caps |-> <<>>]
If(b, pos)    == IF b THEN Ok(pos, <<>>) ELSE Fail

Node(kind, label, from, to, kids) ==
    [kind |-> kind, label |-> label, from |-> from, to |-> to, kids |-> kids]

---------------------------------------------------------------------------
(***************************************************************************)
(* The values of a tree of captures.  Values(n, prev, g) is [v, err].      *)
(***************************************************************************)
Cut(g, i, j) == <<"str", SubSeq(g.subj, i + 1, j)>>
IsTextual(v) == v[1] \in {"str", "num"}
Spelled(v)     == IF v[1] = "num" THEN <<ToString(v[2])>> ELSE v[2]

RECURSIVE Values(_, _, _), Each(_, _, _)
Each(kids, prev, g) ==
    IF kids = <<>> THEN <<>>
    ELSE <<Values(Head(kids), prev, g)>> \o Each(Tail(kids), Append(prev, Head(kids)), g)
All(rs)    == FoldLeft(LAMBDA t, r : t \o r.v, <<>>, rs)
Wrong(rs)  == \E j \in DOMAIN rs : rs[j].err
Whole(n, g) == Cut(g, n.from, n.to)
OrWhole(vs, n, g) == IF vs = <<>> THEN <<Whole(n, g)>> ELSE vs
IsNamed(n) == n.kind = "group" /\ n.label # <<>>

\* the first value as text; text is <<>> and none TRUE when there is no value
FirstText(r) == [text |-> IF r.v # <<>> /\ IsTextual(r.v[1]) THEN Spelled(r.v[1]) ELSE <<>>,
                 none |-> r.v = <<>>,
                 err  |-> r.err \/ (r.v # <<>> /\ ~IsTextual(r.v[1]))]

\* the captures %1, %2, ... of a string capture, in the order they open;
\* simple captures are entered, others are not.
RECURSIVE Numbered(_, _)
Numbered(kids, prev) ==
    IF kids = <<>> THEN <<>>
    ELSE LET n == Head(kids)
         IN  <<<<n, prev>>>>
             \o (IF n.kind = "simple" THEN Numbered(n.kids, prev) ELSE <<>>)
             \o Numbered(Tail(kids), Append(prev, n))

Values(n, prev, g) ==
    LET rs  == Each(n.kids, prev, g)
        vs  == All(rs)
        Is(v) == [v |-> v, err |-> Wrong(rs)]
        Bad == [v |-> <<>>, err |-> TRUE]
    IN
    CASE n.kind = "position" -> Is(<<<<"num", n.from + 1>>>>)
      [] n.kind = "const"    -> Is(<<n.label>>)
      [] n.kind = "arg"      -> IF n.label > Len(g.args) THEN Bad ELSE Is(<<g.args[n.label]>>)
      [] n.kind = "simple"   -> Is(<<Whole(n, g)>> \o vs)
      [] n.kind = "values"   -> Is(n.label)
      [] n.kind = "list"     -> Is(vs)
      [] n.kind = "group"    -> IF IsNamed(n) THEN [v |-> <<>>, err |-> FALSE]
                                ELSE Is(OrWhole(vs, n, g))
      [] n.kind = "function" -> Is(<<<<"call", n.label, OrWhole(vs, n, g)>>>>)
      [] n.kind = "query"    -> Is(IF OrWhole(vs, n, g)[1] = n.label[2]
                                   THEN <<n.label[3]>> ELSE <<>>)
      [] n.kind = "backref"  ->
            LET same == {j \in DOMAIN prev : IsNamed(prev[j]) /\ prev[j].label = n.label}
                last == CHOOSE j \in same : \A h \in same : h <= j
            IN  IF same = {} THEN Bad
                ELSE Values([prev[last] EXCEPT !.label = <<>>], SubSeq(prev, 1, last - 1), g)
      [] n.kind = "table"    ->
            LET named == {j \in DOMAIN n.kids : IsNamed(n.kids[j])}
                inner(j) == Values([n.kids[j] EXCEPT !.label = <<>>],
                                   prev \o SubSeq(n.kids, 1, j - 1), g)
                names == {n.kids[j].label : j \in named}
                lastof(x) == CHOOSE j \in named :
                                /\ n.kids[j].label = x
                                /\ \A h \in named : n.kids[h].label = x => h <= j
            IN  [v |-> <<<<"table", vs,
                           IF names = {} THEN <<>> ELSE [x \in names |-> inner(lastof(x)).v[1]]>>>>,
                 err |-> Wrong(rs) \/ \E j \in named : inner(j).err]
      [] n.kind = "fold"     ->
            IF n.kids = <<>> \/ rs[1].v = <<>> THEN Bad
            ELSE Is(<<FoldLeft(LAMBDA acc, r : <<"call", n.label, <<acc>> \o r.v>>,
                               rs[1].v[1], Tail(rs))>>)
      [] n.kind = "subst"    ->
            LET texts == [j \in DOMAIN rs |-> FirstText(rs[j])]
                start(j) == IF j = 0 THEN n.from
                            ELSE IF texts[j].none THEN n.kids[j].from ELSE n.kids[j].to
                text(j) == Spelled(Cut(g, start(j - 1),
                                     IF j > Len(rs) THEN n.to ELSE n.kids[j].from))
                           \o (IF j > Len(rs) THEN <<>> ELSE texts[j].text)
            IN  [v |-> <<<<"str", FoldLeft(LAMBDA t, j : t \o text(j), <<>>,
                                           [j \in 1..(Len(rs) + 1) |-> j])>>>>,
                 err |-> \E j \in DOMAIN texts : texts[j].err]
      [] n.kind = "string"   ->
            LET nth == Numbered(n.kids, prev)
                Item(it) ==
                    IF it[1] = "char" THEN [text |-> <<it[2]>>, none |-> FALSE, err |-> FALSE]
                    ELSE IF it[2] = 0
                    THEN [text |-> Spelled(Whole(n, g)), none |-> FALSE, err |-> FALSE]
                    ELSE IF it[2] > Len(nth) \/ it[2] >= MAXSTRCAPS
                    THEN [text |-> <<>>, none |-> FALSE, err |-> TRUE]
                    ELSE LET m == nth[it[2]]
                         IN  IF m[1].kind = "simple"
                             THEN [text |-> Spelled(Whole(m[1], g)), none |-> FALSE, err |-> FALSE]
                             ELSE FirstText(Values(m[1], m[2], g))
                items == [j \in DOMAIN n.label[2] |-> Item(n.label[2][j])]
            IN  [v |-> <<<<"str", FoldLeft(LAMBDA t, it : t \o it.text, <<>>, items)>>>>,
                 err |-> \E j \in DOMAIN items : items[j].err \/ items[j].none]

---------------------------------------------------------------------------
(***************************************************************************)
(* Matching                                                                *)
(***************************************************************************)
Has(g, i, s)  == /\ i + Len(s) <= Len(g.subj)
                 /\ SubSeq(g.subj, i + 1, i + Len(s)) = s

RECURSIVE Eval(_, _, _, _)
Then(r1, e2, g, prev) ==
    IF r1.r # "ok" THEN r1
    ELSE LET r2 == Eval(e2, g, r1.pos, prev \o r1.caps)
         IN  IF r2.r = "ok" THEN Ok(r2.pos, r1.caps \o r2.caps) ELSE r2

\* as many as possible, at most max, counted by the fuel when there is no
\* such limit
RECURSIVE Greedy(_, _, _, _, _)
Greedy(r1, e, g, prev, max) ==
    IF r1.r # "ok" \/ max = 0 THEN r1
    ELSE LET r2 == Eval(e, g, r1.pos, prev \o r1.caps)
         IN  CASE r2.r = "err"  -> r2
               [] r2.r = "fail" -> r1
               [] r2.r = "ok"   -> Greedy(Ok(r2.pos, r1.caps \o r2.caps), e, g, prev, max - 1)

RECURSIVE Times(_, _, _, _, _)
Times(r1, e, g, prev, n) ==
    IF n = 0 THEN r1 ELSE Times(Then(r1, e, g, prev), e, g, prev, n - 1)

Captured(r, n) == IF r.r = "ok" THEN Ok(r.pos, <<n>>) ELSE r

Eval(e, g, i, prev) ==
    CASE e[1] = "string" -> If(Has(g, i, e[2]), i + Len(e[2]))
      [] e[1] = "number" -> IF e[2] >= 0 THEN If(i + e[2] <= Len(g.subj), i + e[2])
                            ELSE If(i - e[2] > Len(g.subj), i)
      [] e[1] = "true"   -> Ok(i, <<>>)
      [] e[1] = "false"  -> Fail
      [] e[1] = "set"    -> If(i < Len(g.subj) /\ g.subj[i + 1] \in e[2], i + 1)
      [] e[1] = "var"    -> IF e[2] \notin DOMAIN g.rules \/ g.fuel = 0 THEN Fail
                            ELSE Eval(g.rules[e[2]], [g EXCEPT !.fuel = @ - 1], i, prev)
      [] e[1] = "grammar" -> Eval(<<"var", e[3]>>, [g EXCEPT !.rules = e[2]], i, prev)
      [] e[1] = "seq"    -> Then(Eval(e[2], g, i, prev), e[3], g, prev)
      [] e[1] = "alt"    -> LET ra == Eval(e[2], g, i, prev)
                            IN  IF ra.r = "fail" THEN Eval(e[3], g, i, prev) ELSE ra
      [] e[1] = "diff"   -> LET rd == Eval(e[3], g, i, prev)
                            IN  IF rd.r = "err" THEN rd
                                ELSE IF rd.r = "ok" THEN Fail ELSE Eval(e[2], g, i, prev)
      [] e[1] = "and"    -> LET rn == Eval(e[2], g, i, prev)
                            IN  IF rn.r = "ok" THEN Ok(i, <<>>) ELSE rn
      [] e[1] = "behind" -> IF e[3] > i THEN Fail
                            ELSE LET rb == Eval(e[2], g, i - e[3], prev)
                                 IN  IF rb.r = "ok" THEN Ok(i, <<>>) ELSE rb
      [] e[1] = "star"   ->
            IF e[3] >= 0
            THEN Greedy(Times(Ok(i, <<>>), e[2], g, prev, e[3]), e[2], g, prev, Len(g.subj) + 1)
            ELSE Greedy(Ok(i, <<>>), e[2], g, prev, -e[3])
      [] e[1] = "leaf"   -> Ok(i, <<Node(e[2], e[3], i, i, <<>>)>>)
      [] e[1] = "cap"    -> LET rc == Eval(e[3], g, i, prev)
                            IN  Captured(rc, Node(e[2], e[4], i, rc.pos, rc.caps))
      [] e[1] = "match"  ->
            LET rm    == Eval(e[2], g, i, prev)
                args == Values(Node("group", <<>>, i, rm.pos, rm.caps), prev, g)
                a    == Answer(e[3], args.v, rm.pos)
                pos  == IF a.first = "true" THEN rm.pos ELSE a.at - 1
            IN  IF rm.r # "ok" THEN rm
                ELSE CASE args.err -> Err
                       [] ~args.err /\ a.first = "false" -> Fail
                       [] OTHER -> IF pos \notin rm.pos..Len(g.subj) THEN Err
                                   ELSE Ok(pos, IF a.vals = <<>> THEN <<>>
                                                ELSE <<Node("values", a.vals, pos, pos, <<>>)>>)

---------------------------------------------------------------------------
(***************************************************************************)
(* Left recursion: a rule that can call itself before it has consumed      *)
(* anything.  n is the rules that can match without consuming.             *)
(***************************************************************************)
RECURSIVE Nullable(_, _), LeftCalls(_, _)
Nullable(e, n) ==
    CASE e[1] \in {"set", "false"} -> FALSE
      [] e[1] = "string" -> e[2] = <<>>
      [] e[1] = "number" -> e[2] <= 0
      [] e[1] = "var"    -> e[2] \in n
      [] e[1] = "seq"    -> Nullable(e[2], n) /\ Nullable(e[3], n)
      [] e[1] = "alt"    -> Nullable(e[2], n) \/ Nullable(e[3], n)
      [] e[1] \in {"diff", "match"} -> Nullable(e[2], n)
      [] e[1] = "star"   -> e[3] <= 0 \/ Nullable(e[2], n)
      [] e[1] = "cap"    -> Nullable(e[3], n)
      [] OTHER           -> TRUE

LeftCalls(e, n) ==
    CASE e[1] = "var" -> {e[2]}
      [] e[1] = "seq" -> LeftCalls(e[2], n) \cup (IF Nullable(e[2], n) THEN LeftCalls(e[3], n) ELSE {})
      [] e[1] \in {"alt", "diff"} -> LeftCalls(e[2], n) \cup LeftCalls(e[3], n)
      [] e[1] \in {"and", "behind", "star", "match"} -> LeftCalls(e[2], n)
      [] e[1] = "cap" -> LeftCalls(e[3], n)
      [] OTHER -> {}

RECURSIVE Closed(_, _, _)
\* the rules found in as many rounds as there are rules
NullRules(rules) == LET More(n) == {x \in DOMAIN rules : Nullable(rules[x], n)}
                    IN  FoldLeft(LAMBDA n, x : More(n), {}, [j \in 1..Cardinality(DOMAIN rules) |-> j])
Closed(rules, n, found) ==
    LET more == found \cup UNION {LeftCalls(rules[x], n) : x \in found \cap DOMAIN rules}
    IN  IF more = found THEN found ELSE Closed(rules, n, more)
LeftRecursive(rules) ==
    LET n == NullRules(rules)
    IN  \E x \in DOMAIN rules : x \in Closed(rules, n, LeftCalls(rules[x], n))

\* the outcome of lpeg.match: no match, an error, or the values
ValuesOf(r, g, i) == Values(Node("list", <<>>, i, r.pos, r.caps), <<>>, g)
Given(r, all) ==
    CASE r.r = "fail" -> <<"nil">>
      [] r.r = "err" \/ (r.r = "ok" /\ all.err) -> <<"error">>
      [] OTHER -> <<"match", r.pos, IF all.v = <<>> THEN <<<<"num", r.pos + 1>>>> ELSE all.v>>
Concluded(r, g, i) == Given(r, ValuesOf(r, g, i))
Outcome(e, g, i)   == Concluded(Eval(e, g, i, <<>>), g, i)
=============================================================================
