---------------------------- MODULE LpegCaptures ----------------------------
(***************************************************************************)
(* The values of a match (lpeg.c): the matcher leaves a flat list of       *)
(* entries [s, idx, kind, siz]; siz is 0 in an entry that a later "close"   *)
(* ends, and the length plus one in an entry that is complete by itself.   *)
(*                                                                         *)
(* x is what a conversion works on: the list x.caps, the values x.k of the *)
(* pattern, the subject x.subj and the extra arguments x.args.  A          *)
(* conversion of the entry i returns [v, n, err]: the values it pushes,    *)
(* the entry it has come to, and whether an error was raised on the way.   *)
(* Values are tagged tuples; <<"call", f, args>> is what f returned.       *)
(***************************************************************************)
EXTENDS Integers, Sequences, SequencesExt, TLC

CONSTANT MAXSTRCAPS   \* captures a string capture can refer to, the whole included

Entry(s, idx, kind, siz) == [s |-> s, idx |-> idx, kind |-> kind, siz |-> siz]
isclosecap(c) == c.kind = "close"
isfullcap(c)  == c.siz # 0
closeaddr(c)  == c.s + c.siz - 1

Text(x, from, to) == SubSeq(x.subj, from + 1, to)
Str(x, from, to)  == <<"str", Text(x, from, to)>>
Got(v, n, err)    == [v |-> v, n |-> n, err |-> err]
Env(x, idx)       == x.k[idx]

\* findopen: the entry that the close entry i ends.
RECURSIVE FindOpen(_, _, _)
FindOpen(caps, i, n) ==
    LET c == caps[i - 1]
    IN  IF isclosecap(c) THEN FindOpen(caps, i - 1, n + 1)
        ELSE IF isfullcap(c) THEN FindOpen(caps, i - 1, n)
        ELSE IF n = 0 THEN i - 1 ELSE FindOpen(caps, i - 1, n - 1)
findopen(caps, i) == FindOpen(caps, i, 0)

\* nextcap: the entry after the one at i and all it encloses.
RECURSIVE NextCap(_, _, _)
NextCap(caps, i, n) ==
    IF isclosecap(caps[i]) THEN (IF n = 0 THEN i + 1 ELSE NextCap(caps, i + 1, n - 1))
    ELSE NextCap(caps, i + 1, IF isfullcap(caps[i]) THEN n ELSE n + 1)
nextcap(caps, i) == IF isfullcap(caps[i]) THEN i + 1 ELSE NextCap(caps, i + 1, 0)

\* findback: the last complete group of that name before the entry i, not
\* inside another capture; 0 when there is none.
RECURSIVE findback(_, _, _)
findback(x, i, name) ==
    IF i = 1 THEN 0
    ELSE LET j == IF isclosecap(x.caps[i - 1]) THEN findopen(x.caps, i - 1) ELSE i - 1
             c == x.caps[j]
             complete == isclosecap(x.caps[i - 1]) \/ isfullcap(c)
         IN  IF complete /\ c.kind = "group" /\ c.idx # 0 /\ Env(x, c.idx) = name
             THEN j ELSE findback(x, j, name)

RECURSIVE pushcapture(_, _), addonestring(_, _), getstrcaps(_, _, _)

\* the values of the entries from i up to the next close.
RECURSIVE PushUntilClose(_, _)
PushUntilClose(x, i) ==
    IF isclosecap(x.caps[i]) THEN Got(<<>>, i, FALSE)
    ELSE LET first == pushcapture(x, i)
             rest  == PushUntilClose(x, first.n)
         IN  Got(first.v \o rest.v, rest.n, first.err \/ rest.err)

\* pushallvalues: what a capture encloses, or its whole text when that is
\* nothing; the whole text comes last when it is wanted anyway.
pushallvalues(x, i, addextra) ==
    LET c     == x.caps[i]
        inner == PushUntilClose(x, i + 1)
        whole == Str(x, c.s, x.caps[inner.n].s)
    IN  IF isfullcap(c) THEN Got(<<Str(x, c.s, closeaddr(c))>>, i + 1, FALSE)
        ELSE Got(IF addextra \/ inner.v = <<>> THEN Append(inner.v, whole) ELSE inner.v,
                 inner.n + 1, inner.err)

simplecap(x, i) ==
    LET all == pushallvalues(x, i, TRUE)
    IN  [all EXCEPT !.v = <<Last(@)>> \o Front(@)]

backrefcap(x, i) ==
    LET at == findback(x, i, Env(x, x.caps[i].idx))
    IN  IF at = 0 THEN Got(<<>>, i + 1, TRUE)
        ELSE [pushallvalues(x, at, FALSE) EXCEPT !.n = i + 1]

\* tablecap: values in the array part, named groups under their names (the
\* last of a name wins).
RECURSIVE TableFrom(_, _, _, _)
TableFrom(x, i, array, named) ==
    LET c == x.caps[i]
        group == pushallvalues(x, i, FALSE)
        value == pushcapture(x, i)
        Rest(r, a, m) == LET t == TableFrom(x, r.n, a, m) IN [t EXCEPT !.err = @ \/ r.err]
    IN  IF isclosecap(c) THEN Got(<<<<"table", array, named>>>>, i + 1, FALSE)
        ELSE IF c.kind = "group" /\ c.idx # 0
        THEN Rest(group, array, (Env(x, c.idx) :> group.v[1]) @@ named)
        ELSE Rest(value, array \o value.v, named)
tablecap(x, i) == IF isfullcap(x.caps[i]) THEN Got(<<<<"table", <<>>, <<>>>>>>, i + 1, FALSE)
                  ELSE TableFrom(x, i + 1, <<>>, <<>>)

\* querycap: the first value looked up in a table, here one with one key.
querycap(x, i) ==
    LET all == pushallvalues(x, i, FALSE)
        map == Env(x, x.caps[i].idx)
    IN  [all EXCEPT !.v = IF all.v[1] = map[2] THEN <<map[3]>> ELSE <<>>]

RECURSIVE FoldFrom(_, _, _, _)
FoldFrom(x, i, f, acc) ==
    IF isclosecap(x.caps[i]) THEN Got(<<acc>>, i + 1, FALSE)
    ELSE LET more == pushcapture(x, i)
             rest == FoldFrom(x, more.n, f, <<"call", f, <<acc>> \o more.v>>)
         IN  [rest EXCEPT !.err = @ \/ more.err]
foldcap(x, i) ==
    LET first == pushcapture(x, i + 1)
        rest  == FoldFrom(x, first.n, Env(x, x.caps[i].idx), first.v[1])
    IN  IF isfullcap(x.caps[i]) \/ isclosecap(x.caps[i + 1]) THEN Got(<<>>, i + 1, TRUE)
        ELSE IF first.v = <<>> THEN Got(<<>>, nextcap(x.caps, i), TRUE)
        ELSE [rest EXCEPT !.err = @ \/ first.err]

functioncap(x, i) ==
    LET all == pushallvalues(x, i, FALSE)
    IN  [all EXCEPT !.v = <<<<"call", Env(x, x.caps[i].idx), all.v>>>>]

\* Cruntime: the values the function returned while matching.
RECURSIVE Dynamic(_, _)
Dynamic(x, i) == IF isclosecap(x.caps[i]) THEN Got(<<>>, i + 1, FALSE)
                 ELSE LET rest == Dynamic(x, i + 1)
                      IN  [rest EXCEPT !.v = <<x.caps[i].idx>> \o @]

---------------------------------------------------------------------------
(***************************************************************************)
(* String and substitution captures build text.                            *)
(***************************************************************************)
IsText(v) == v[1] \in {"str", "num"}
TextOf(v) == IF v[1] = "num" THEN <<ToString(v[2])>> ELSE v[2]

\* getstrcaps: what %0, %1, ... of a string capture stand for: the text of
\* nested simple captures, the entry of any other; n is the next number.
RECURSIVE StrCapsUntilClose(_, _, _)
StrCapsUntilClose(x, i, cps) ==
    LET c == x.caps[i]
    IN  IF isclosecap(c) THEN [cps |-> cps, n |-> i + 1]
        ELSE IF Len(cps) >= MAXSTRCAPS THEN StrCapsUntilClose(x, nextcap(x.caps, i), cps)
        ELSE IF c.kind = "simple"
        THEN LET in == getstrcaps(x, i, cps) IN StrCapsUntilClose(x, in.n, in.cps)
        ELSE StrCapsUntilClose(x, nextcap(x.caps, i), Append(cps, <<"entry", i>>))
getstrcaps(x, i, cps) ==
    LET c    == x.caps[i]
        k    == Len(cps) + 1
        in   == IF isfullcap(c) THEN [cps |-> Append(cps, <<"text">>), n |-> i + 1]
                ELSE StrCapsUntilClose(x, i + 1, Append(cps, <<"text">>))
    IN  [in EXCEPT !.cps[k] = <<"text", Text(x, c.s, closeaddr(x.caps[in.n - 1]))>>]

\* stringcap: the items of the format one after the other.
stringcap(x, i) ==
    LET strs == getstrcaps(x, i, <<>>)
        Item(it) ==
            IF it[1] = "char" THEN Got(<<it[2]>>, 0, FALSE)
            ELSE IF it[2] >= Len(strs.cps) THEN Got(<<>>, 0, TRUE)
            ELSE LET cp == strs.cps[it[2] + 1]
                 IN  IF cp[1] = "text" THEN Got(cp[2], 0, FALSE)
                     ELSE LET one == addonestring(x, cp[2])
                          IN  Got(one.v, 0, one.err \/ one.none)
        pieces == [j \in DOMAIN Env(x, x.caps[i].idx)[2] |-> Item(Env(x, x.caps[i].idx)[2][j])]
    IN  Got(FoldLeft(LAMBDA t, p : t \o p.v, <<>>, pieces), strs.n,
            \E j \in DOMAIN pieces : pieces[j].err)

\* substcap: the text of the match with each nested capture replaced by its
\* first value, or kept when it has none.
RECURSIVE SubstFrom(_, _, _)
SubstFrom(x, i, curr) ==
    LET c    == x.caps[i]
        one  == addonestring(x, i)
        rest == SubstFrom(x, one.n, IF one.none THEN c.s ELSE closeaddr(x.caps[one.n - 1]))
    IN  IF isclosecap(c) THEN Got(Text(x, curr, c.s), i + 1, FALSE)
        ELSE Got(Text(x, curr, c.s) \o one.v \o rest.v, rest.n, one.err \/ rest.err)
substcap(x, i) ==
    LET c == x.caps[i]
    IN  IF isfullcap(c) THEN Got(Text(x, c.s, closeaddr(c)), i + 1, FALSE)
        ELSE SubstFrom(x, i + 1, c.s)

\* addonestring also says when the capture had no value at all.
One(r, none) == [v |-> r.v, n |-> r.n, err |-> r.err, none |-> none]
addonestring(x, i) ==
    CASE x.caps[i].kind = "string" -> One(stringcap(x, i), FALSE)
      [] x.caps[i].kind = "subst"  -> One(substcap(x, i), FALSE)
      [] OTHER ->
           LET all == pushcapture(x, i)
           IN  IF all.v = <<>> THEN One(all, TRUE)
               ELSE IF IsText(all.v[1]) THEN One([all EXCEPT !.v = TextOf(@[1])], FALSE)
               ELSE One(Got(<<>>, all.n, TRUE), FALSE)

AsString(r) == [r EXCEPT !.v = <<<<"str", @>>>>]

pushcapture(x, i) ==
    LET c == x.caps[i]
    IN  CASE c.kind = "position" -> Got(<<<<"num", c.s + 1>>>>, i + 1, FALSE)
          [] c.kind = "const"    -> Got(<<Env(x, c.idx)>>, i + 1, FALSE)
          [] c.kind = "arg"      -> IF c.idx > Len(x.args) THEN Got(<<>>, i + 1, TRUE)
                                    ELSE Got(<<x.args[c.idx]>>, i + 1, FALSE)
          [] c.kind = "simple"   -> simplecap(x, i)
          [] c.kind = "runtime"  -> Dynamic(x, i)
          [] c.kind = "string"   -> AsString(stringcap(x, i))
          [] c.kind = "subst"    -> AsString(substcap(x, i))
          [] c.kind = "group"    -> IF c.idx = 0 THEN pushallvalues(x, i, FALSE)
                                    ELSE Got(<<>>, nextcap(x.caps, i), FALSE)
          [] c.kind = "backref"  -> backrefcap(x, i)
          [] c.kind = "table"    -> tablecap(x, i)
          [] c.kind = "function" -> functioncap(x, i)
          [] c.kind = "query"    -> querycap(x, i)
          [] c.kind = "fold"     -> foldcap(x, i)
          [] c.kind = "list"     -> PushUntilClose(x, i + 1)

\* getcaptures: the values of the whole list, or the end r of the match.
Listed(x) == [x EXCEPT !.caps = <<Entry(0, 0, "list", 0)>> \o @]
OrPosition(all, r) == [all EXCEPT !.v = IF @ = <<>> THEN <<<<"num", r + 1>>>> ELSE @]
getcaptures(x, r)  == OrPosition(pushcapture(Listed(x), 1), r)

\* runtimecap: the arguments of the function of a match-time capture whose
\* open entry is at i, the close entry just added to the list being its last;
\* they are the values of a group.
runtimecap(x) ==
    LET open == findopen(x.caps, Len(x.caps))
    IN  [open |-> open,
         args |-> pushcapture([x EXCEPT !.caps[open].kind = "group", !.caps[open].idx = 0], open)]
=============================================================================
