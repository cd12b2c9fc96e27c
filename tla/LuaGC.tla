------------------------------- MODULE LuaGC --------------------------------
(***************************************************************************)
(* The incremental garbage collector of the Lua core (lgc.c), with the     *)
(* upvalues of lfunc.c and the string table of lstring.c.  A program acts  *)
(* on the stack of the running thread; a step of the collector may come    *)
(* between any two of its operations.                                      *)
(*                                                                         *)
(* An object lives at an address; each field of its struct is a function   *)
(* of the addresses.  A table has one node, a closure one upvalue.  The    *)
(* environments of closures and userdata are the table of globals, which   *)
(* is a root anyway.  The lists that link objects are sets: their order    *)
(* decides what is visited first, which here is any one of them.           *)
(***************************************************************************)
EXTENDS Integers, Sequences, FiniteSets

CONSTANTS Addr, nil, number,  \* addresses; two values that are no objects
          Main, Globals,      \* the main thread and the table of globals
          Kinds,              \* what the program creates
          Attributes,         \* what its metatables say
          NTexts,             \* texts of strings, each in a list of its own
          MaxStack,           \* bound: values on one stack
          MaxThreads,         \* bound: coroutines running at a time
          MaxOps,             \* bound: operations of the program
          Heaps               \* what it starts from, all white

Types  == {"free", "table", "userdata", "function", "upval", "thread", "string"}
Values == Addr \cup {nil, number}
Texts  == 1 .. NTexts
Sayings == {"k", "v", "gc"}   \* weak keys, weak values, a finalizer

ASSUME MemoryAssumption ==
    /\ IsFiniteSet(Addr) /\ nil \notin Addr /\ number \notin Addr /\ nil # number
    /\ {Main, Globals} \subseteq Addr /\ Main # Globals
    /\ Attributes \subseteq SUBSET Sayings
    /\ NTexts \in Nat \ {0}    \* the string table has at least one list

\* Heaps before the first collection: what a field refers to is there.
ASSUME HeapsAssumption == \A h \in Heaps :
    /\ h.tt \in [Addr -> Types] /\ h.tt[Main] = "thread" /\ h.tt[Globals] = "table"
    /\ h.meta \in [Addr -> Addr \cup {nil}] /\ h.attr \in [Addr -> SUBSET Sayings]
    /\ h.key \in [Addr -> Values] /\ h.val \in [Addr -> Values]
    /\ h.upval \in [Addr -> Addr \cup {nil}]
    /\ h.thread \in [Addr -> Addr \cup {nil}] /\ h.level \in [Addr -> Nat]
    /\ h.stack \in [Addr -> Seq(Values)] /\ h.text \in [Addr -> Nat]
    /\ \A a \in Addr :
          LET there(v) == v \in Addr => h.tt[v] \notin {"free", "upval"}
          IN  /\ h.tt[a] \in {"table", "userdata"} => h.meta[a] = nil \/ h.tt[h.meta[a]] = "table"
              /\ h.tt[a] = "table" => there(h.key[a]) /\ there(h.val[a])
              /\ h.tt[a] = "function" => h.upval[a] \in Addr /\ h.tt[h.upval[a]] = "upval"
              /\ h.tt[a] = "upval" /\ h.thread[a] = nil => there(h.val[a])
              /\ h.tt[a] = "upval" /\ h.thread[a] # nil => /\ h.tt[h.thread[a]] = "thread"
                                                         /\ h.level[a] \in DOMAIN h.stack[h.thread[a]]
              /\ h.tt[a] = "thread" => \A i \in DOMAIN h.stack[a] : there(h.stack[a][i])
              /\ h.tt[a] = "string" => h.text[a] \in Texts
    /\ \A a, b \in Addr : h.tt[a] = "string" /\ h.tt[b] = "string" /\ h.text[a] = h.text[b] => a = b

VARIABLES tt, mark,                \* the header of an object: type and colour
          meta, attr, key, val,    \* a table: metatable, what it says as one, its node;
                                   \* userdata have a metatable as well
          upval,                   \* a closure
          thread, level,           \* an open upvalue; a closed one has its value in val
          stack,                   \* a thread
          text,                    \* a string
          finalized, called,       \* userdata: marked as finalized; finalizer called
          rootgc, tmudata,         \* the lists of objects
          gray, grayagain, weak,   \* what is left to traverse
          gcstate, currentwhite,
          sweepstrgc, sweepgc,     \* lists of strings swept; objects still to be swept
          atomic,                  \* how far atomic has come
          running,                 \* threads, the last one runs
          full,                    \* inside luaC_fullgc
          ops                      \* operations so far

entries == <<meta, attr, key, val>>
upvals  == <<upval, thread, level>>
fields  == <<entries, upvals, stack, text, finalized, called>>
heads   == <<tt, mark>>
chains  == <<rootgc, tmudata>>
lists   == <<gray, grayagain, weak>>
sweeps  == <<gcstate, currentwhite, sweepstrgc, sweepgc, atomic>>
vars    == <<heads, fields, chains, lists, sweeps, running, full, ops>>

---------------------------------------------------------------------------
Whites == {"white0", "white1"}
Other(w) == IF w = "white0" THEN "white1" ELSE "white0"

iswhite(o) == mark[o] \in Whites
isblack(o) == mark[o] = "black"
isdead(o)  == mark[o] = Other(currentwhite)

L == running[Len(running)]
Objects == {a \in Addr : tt[a] # "free"}
InStack(t) == {stack[t][i] : i \in DOMAIN stack[t]}
\* the value of an upvalue is in a stack while it is open.
isopen(u) == tt[u] = "upval" /\ thread[u] # nil
UpvalValue(u) == IF isopen(u) THEN stack[thread[u]][level[u]] ELSE val[u]
OpenUpvals(t) == {u \in Addr : isopen(u) /\ thread[u] = t}
\* gfasttm: what the metatable says.
Meta(o) == IF meta[o] = nil THEN {} ELSE attr[meta[o]]

\* The first of a list, or the address that an allocation gets, if there is one.
First(set) == IF set = {} THEN {} ELSE {CHOOSE a \in set : TRUE}
\* f, with x for what is in the set.
With(f, set, x) == [a \in Addr |-> IF a \in set THEN x ELSE f[a]]

---------------------------------------------------------------------------
(***************************************************************************)
(* Marking: which of the values in a set are marked, when the colours are  *)
(* those of m, and what becomes of them.                                   *)
(***************************************************************************)
WhiteOf(m, set) == {o \in set \cap Addr : m[o] \in Whites}
\* Upvalues and userdata are marked with what they refer to (an upvalue
\* with its value, which may be a userdata, and that with its metatable).
Reached(m, set) ==
    LET us == {u \in WhiteOf(m, set) : tt[u] = "upval"}
        vs == set \cup {UpvalValue(u) : u \in us}
        ds == {d \in WhiteOf(m, vs) : tt[d] = "userdata"}
    IN  WhiteOf(m, vs \cup {meta[d] : d \in ds})
\* An open upvalue stays gray; others wait in the list of gray objects.
reallymarkobject(m, set) ==
    [a \in Addr |-> IF a \notin Reached(m, set) THEN m[a]
                    ELSE IF tt[a] = "userdata" \/ (tt[a] = "upval" /\ ~isopen(a)) THEN "black"
                    ELSE "gray"]
Queued(m, set) == {o \in Reached(m, set) : tt[o] \in {"table", "function", "thread"}}
\* g is what the list of gray objects has besides.
Mark(m, set, g) == mark' = reallymarkobject(m, set) /\ gray' = g \cup Queued(m, set)

\* A weak table waits for its entry to be cleared; a key without a value is
\* not kept, and no longer taken for the object it was.
mode(t) == Meta(t) \cap {"k", "v"}
traversetable(t) ==
    {meta[t]} \cup (IF "k" \in mode(t) \/ val[t] = nil THEN {} ELSE {key[t]})
              \cup (IF "v" \in mode(t) THEN {} ELSE {val[t]})
removeentries(set) == key' = [a \in Addr |-> IF a \in set /\ key[a] \in Addr THEN nil ELSE key[a]]

\* A thread is never left black: its stack changes without a barrier.
propagatemark(o) ==
    LET isweak == tt[o] = "table" /\ mode(o) # {}
        colour == IF isweak \/ tt[o] = "thread" THEN "gray" ELSE "black"
        refs   == CASE tt[o] = "table" -> traversetable(o)
                    [] tt[o] = "function" -> {upval[o]}
                    [] tt[o] = "thread" -> InStack(o)
    IN  /\ Mark([mark EXCEPT ![o] = colour], refs, gray \ {o})
        /\ grayagain' = IF tt[o] = "thread" THEN grayagain \cup {o} ELSE grayagain
        /\ weak' = IF isweak THEN weak \cup {o} ELSE weak
        /\ removeentries(IF tt[o] = "table" /\ val[o] = nil /\ mode(o) # {"k", "v"} THEN {o} ELSE {})

MarkRoot == /\ gcstate = "pause" \/ (full = "clearing" /\ gcstate = "finalize")
            /\ Mark(mark, {Main, Globals}, {})
            /\ grayagain' = {} /\ weak' = {}
            /\ gcstate' = "propagate"
            /\ full' = IF full = "clearing" THEN "marking" ELSE full
            /\ UNCHANGED <<tt, fields, chains, currentwhite, sweepstrgc, sweepgc, atomic, running, ops>>

\* A step of the mark phase, and of propagateall inside atomic.
Propagate == \E o \in First(gray) :
    /\ gcstate = "propagate"
    /\ propagatemark(o)
    /\ UNCHANGED <<tt, meta, attr, val, upvals, stack, text, finalized, called,
                   chains, sweeps, running, full, ops>>

---------------------------------------------------------------------------
(***************************************************************************)
(* The end of the mark phase is atomic for the program, which waits while  *)
(* the variable atomic is not "no".  Each part begins when propagateall    *)
(* has emptied the list of gray objects.                                   *)
(***************************************************************************)
AtomicPart(before, after) ==
    /\ gcstate = "propagate" /\ gray = {}
    /\ atomic = before /\ atomic' = after
    /\ UNCHANGED <<running, full, ops>>

\* remarkupvals: open upvalues, those of dead threads too.
RemarkUpvals ==
    /\ AtomicPart("no", "upvals")
    /\ Mark(mark, {UpvalValue(u) : u \in {x \in Addr : isopen(x) /\ mark[x] = "gray"}}, {})
    /\ UNCHANGED <<tt, fields, chains, grayagain, weak, gcstate, currentwhite, sweepstrgc, sweepgc>>
\* weak tables, and the running thread.
RemarkWeak ==
    /\ AtomicPart("upvals", "weak")
    /\ Mark(mark, {L}, weak)
    /\ weak' = {}
    /\ UNCHANGED <<tt, fields, chains, grayagain, gcstate, currentwhite, sweepstrgc, sweepgc>>
\* what a barrier made gray, and threads.
RemarkAgain ==
    /\ AtomicPart("weak", "again")
    /\ gray' = grayagain /\ grayagain' = {}
    /\ UNCHANGED <<heads, fields, chains, weak, gcstate, currentwhite, sweepstrgc, sweepgc>>

\* luaC_separateudata: userdata nobody has reached are marked as finalized,
\* those with a finalizer are queued for it and marked (marktmu).
Unreached == {o \in rootgc : tt[o] = "userdata" /\ iswhite(o) /\ o \notin finalized}
\* a mutant of markfinalized: the mark is forgotten
Unmarked(set) == finalized' = finalized
markfinalized(set) == finalized' = finalized \cup set
SeparateUdata ==
    LET queued == {o \in Unreached : "gc" \in Meta(o)}
    IN  /\ AtomicPart("again", "tmudata")
        /\ markfinalized(Unreached)
        /\ tmudata' = tmudata \cup queued
        /\ rootgc' = rootgc \ queued
        /\ Mark(With(mark, tmudata', currentwhite), tmudata', {})
        /\ UNCHANGED <<tt, entries, upvals, stack, text, called, grayagain, weak,
                       gcstate, currentwhite, sweepstrgc, sweepgc>>

\* iscleared: strings are values, never cleared; a userdata that is being
\* finalized is kept as a key but not as a value.
iscleared(v, iskey) ==
    /\ v \in Addr /\ tt[v] # "string"
    /\ iswhite(v) \/ (tt[v] = "userdata" /\ ~iskey /\ v \in finalized)
\* a mutant of Collected: entries are left
Uncleared == {}
Collected == {t \in weak : val[t] # nil /\ (iscleared(key[t], TRUE) \/ iscleared(val[t], FALSE))}
\* the strings that iscleared looks at.
StringEntries == {v \in Addr : /\ tt[v] = "string" /\ iswhite(v)
                               /\ \E t \in weak : /\ val[t] # nil
                                                  /\ v = key[t] \/ (v = val[t] /\ ~iscleared(key[t], TRUE))}
\* cleartable, and the white is flipped.
ClearWeak ==
    /\ AtomicPart("tmudata", "no")
    /\ mark' = With(mark, StringEntries, "gray")
    /\ val' = With(val, Collected, nil)
    /\ removeentries(Collected)
    /\ currentwhite' = Other(currentwhite)
    /\ sweepstrgc' = 0 /\ sweepgc' = rootgc
    /\ gcstate' = "sweepstring"
    /\ UNCHANGED <<tt, meta, attr, upvals, stack, text, finalized, called, chains, lists>>

Atomic == RemarkUpvals \/ RemarkWeak \/ RemarkAgain \/ SeparateUdata \/ ClearWeak

---------------------------------------------------------------------------
(***************************************************************************)
(* Sweeping                                                                *)
(***************************************************************************)
\* luaC_link puts an object before the first one of the list, where the
\* sweep has already been unless it has passed over no object yet.
ahead(set, list, left) == IF left = list THEN left \cup set ELSE left

\* luaF_close of the upvalues in a set: those that are kept take their
\* value along, and the list of objects gets them (luaC_linkupval).
\* a mutant of linkupvals: closed upvalues are in no list
NotLinked(kept, list) == rootgc' = list
linkupvals(kept, list) == rootgc' = list \cup kept
closeupvals(kept, freed) ==
    /\ val' = [a \in Addr |-> IF a \in kept THEN UpvalValue(a) ELSE IF a \in freed THEN nil ELSE val[a]]
    /\ thread' = With(thread, kept \cup freed, nil)
    /\ level' = With(level, kept \cup freed, 0)

\* Dead objects are freed, the others white again.
Swept(set, freed) == /\ tt' = With(tt, freed, "free")
                     /\ mark' = With(With(mark, set, currentwhite), freed, "white0")

SweepString ==
    LET list  == {a \in Objects : tt[a] = "string" /\ text[a] = sweepstrgc + 1}
        freed == {a \in list : isdead(a)}
    IN  /\ gcstate = "sweepstring"
        /\ Swept(list, freed)
        /\ text' = With(text, freed, 0)
        /\ sweepstrgc' = sweepstrgc + 1
        /\ gcstate' = IF sweepstrgc' >= NTexts THEN "sweep" ELSE gcstate
        /\ UNCHANGED <<entries, upvals, stack, finalized, called, chains, lists,
                       currentwhite, sweepgc, atomic, running, full, ops>>

\* One object of the list (the source sweeps up to GCSWEEPMAX).  The open
\* upvalues of a thread are swept with it; a dead thread closes them.  The
\* main thread is fixed.
Sweep == \E o \in First(sweepgc) :
    LET open  == OpenUpvals(o)
        freed == {x \in open \cup {o} : isdead(x) /\ x # Main}
        kept  == IF o \in freed THEN open \ freed ELSE {}
        list  == rootgc \ freed
    IN  /\ gcstate = "sweep"
        /\ Swept(open \cup {o}, freed)
        /\ meta' = With(meta, freed, nil) /\ attr' = With(attr, freed, {})
        /\ key' = With(key, freed, nil) /\ upval' = With(upval, freed, nil)
        /\ closeupvals(kept, freed)
        /\ stack' = With(stack, freed, <<>>)
        /\ finalized' = finalized \ freed /\ called' = called \ freed
        /\ linkupvals(kept, list)
        /\ sweepgc' = ahead(kept, list, sweepgc \ {o})
        /\ gcstate' = IF sweepgc' = {} THEN "finalize" ELSE gcstate
        /\ UNCHANGED <<text, tmudata, lists, currentwhite, sweepstrgc, atomic, running, full, ops>>

\* GCTM: a userdata goes back to the list of objects, and its finalizer, if
\* its metatable still has one, may store it in a global.
Finalize == \E u \in First(tmudata) :
    /\ gcstate = "finalize" /\ full # "clearing"
    /\ tmudata' = tmudata \ {u}
    /\ rootgc' = rootgc \cup {u}
    /\ mark' = [mark EXCEPT ![u] = currentwhite]
    /\ IF "gc" \in Meta(u)
       THEN /\ called' = called \cup {u}
            /\ \/ UNCHANGED <<key, val>>
               \/ /\ val[Globals] = nil \/ key[Globals] = number
                  /\ key' = [key EXCEPT ![Globals] = number]
                  /\ val' = [val EXCEPT ![Globals] = u]
       ELSE UNCHANGED <<called, key, val>>
    /\ UNCHANGED <<tt, meta, attr, upvals, stack, text, finalized, lists, sweeps, running, full, ops>>

EndCycle == /\ gcstate = "finalize" /\ tmudata = {} /\ full # "clearing"
            /\ gcstate' = "pause"
            /\ full' = "no"
            /\ UNCHANGED <<heads, fields, chains, lists, currentwhite, sweepstrgc, sweepgc, atomic,
                           running, ops>>

\* The collector's part of luaC_step and luaC_fullgc.
singlestep == MarkRoot \/ Propagate \/ Atomic \/ SweepString \/ Sweep \/ Finalize \/ EndCycle

\* luaC_fullgc: what has been marked is forgotten, a sweep makes all white,
\* then a whole cycle follows; the program waits.
FullGC ==
    /\ full = "no" /\ full' = "clearing"
    /\ atomic = "no"
    /\ ops < MaxOps /\ ops' = ops + 1
    /\ IF gcstate \in {"pause", "propagate"}
       THEN /\ gray' = {} /\ grayagain' = {} /\ weak' = {}
            /\ sweepstrgc' = 0 /\ sweepgc' = rootgc
            /\ gcstate' = "sweepstring"
       ELSE UNCHANGED <<lists, sweepstrgc, sweepgc, gcstate>>
    /\ UNCHANGED <<heads, fields, chains, currentwhite, atomic, running>>

---------------------------------------------------------------------------
(***************************************************************************)
(* The program                                                             *)
(***************************************************************************)
Room     == Len(stack[L]) < MaxStack
Free     == {a \in Addr : tt[a] = "free"}
Mutating == /\ full = "no" /\ atomic = "no"
            /\ ops < MaxOps /\ ops' = ops + 1
            /\ UNCHANGED <<tmudata, gcstate, currentwhite, sweepstrgc, atomic, full>>
Push(v)  == stack' = [stack EXCEPT ![L] = Append(@, v)]
\* A value is read and pushed.
Read(v)  == /\ Mutating /\ Room
            /\ Push(v)
            /\ UNCHANGED <<heads, entries, upvals, text, finalized, called, rootgc, lists, sweepgc, running>>

\* luaC_link: a new object is white and first in the list.
link(o)  == rootgc' = rootgc \cup {o} /\ sweepgc' = ahead({o}, rootgc, sweepgc)
Create(kind, o) == /\ Mutating /\ kind \in Kinds /\ Room
                   /\ tt' = [tt EXCEPT ![o] = kind]
                   /\ mark' = [mark EXCEPT ![o] = currentwhite]
                   /\ UNCHANGED <<lists, running>>
NewTable == \E o \in First(Free), says \in Attributes :
    /\ Create("table", o)
    /\ link(o) /\ Push(o)
    /\ meta' = [meta EXCEPT ![o] = nil] /\ attr' = [attr EXCEPT ![o] = says]
    /\ key' = [key EXCEPT ![o] = nil] /\ val' = [val EXCEPT ![o] = nil]
    /\ UNCHANGED <<upvals, text, finalized, called>>
\* Userdata come behind the main thread.
NewUdata == \E o \in First(Free) :
    /\ Create("userdata", o) /\ Push(o)
    /\ rootgc' = rootgc \cup {o}
    /\ \/ sweepgc' = sweepgc \cup {o} /\ gcstate \in {"sweepstring", "sweep"}
       \/ UNCHANGED sweepgc /\ Main \notin sweepgc
    /\ meta' = [meta EXCEPT ![o] = nil]
    /\ finalized' = finalized \ {o} /\ called' = called \ {o}
    /\ UNCHANGED <<attr, key, val, upvals, text>>
NewThread == \E o \in First(Free) :
    /\ Create("thread", o)
    /\ link(o)
    /\ stack' = [stack EXCEPT ![L] = Append(@, o), ![o] = <<>>]
    /\ UNCHANGED <<entries, upvals, text, finalized, called>>

\* A dead object that is found is white again, and alive.
\* a mutant of Resurrected: it stays dead
StaysDead(o) == mark
Resurrected(o) == IF isdead(o) THEN [mark EXCEPT ![o] = currentwhite] ELSE mark

\* a mutant of SameText: dead strings are passed over
SameTextAlive(s) == {a \in Objects : tt[a] = "string" /\ text[a] = s /\ ~isdead(a)}
SameText(s) == {a \in Objects : tt[a] = "string" /\ text[a] = s}
\* luaS_newlstr: a string that exists is used again.
NewString == \E s \in Texts :
    \/ \E o \in First(Free) :
       /\ SameText(s) = {}
       /\ Create("string", o) /\ Push(o)
       /\ text' = [text EXCEPT ![o] = s]
       /\ UNCHANGED <<entries, upvals, finalized, called, rootgc, sweepgc>>
    \/ \E a \in SameText(s) :
       /\ Mutating /\ "string" \in Kinds /\ Room
       /\ mark' = Resurrected(a) /\ Push(a)
       /\ UNCHANGED <<tt, entries, upvals, text, finalized, called, rootgc, lists, sweepgc, running>>

\* A closure over the local variable at level n of the stack: luaF_findupval
\* finds its open upvalue or makes one.
Closed(u, c, old) ==
    /\ tt' = [[tt EXCEPT ![u] = "upval"] EXCEPT ![c] = "function"]
    /\ mark' = [old EXCEPT ![c] = currentwhite]
    /\ upval' = [upval EXCEPT ![c] = u]
    /\ link(c) /\ Push(c)
    /\ UNCHANGED <<entries, text, finalized, called, lists, running>>
NewClosure == \E n \in DOMAIN stack[L] :
    LET found == {u \in OpenUpvals(L) : level[u] = n}
    IN  /\ Mutating /\ "function" \in Kinds /\ Room
        /\ \/ \E u \in found, c \in First(Free) :
              Closed(u, c, Resurrected(u)) /\ UNCHANGED <<thread, level>>
           \/ \E u \in First(Free) : \E c \in First(Free \ {u}) :
              /\ found = {}
              /\ Closed(u, c, [mark EXCEPT ![u] = currentwhite])
              /\ thread' = [thread EXCEPT ![u] = L]
              /\ level' = [level EXCEPT ![u] = n]

Tables == {t \in InStack(L) \cup {Globals} : t \in Addr /\ tt[t] = "table"}
Crossing(o, vs) == isblack(o) /\ \E v \in vs \cap Addr : iswhite(v)
\* luaC_barrierback: a black table that gets a white object is gray again.
\* a mutant of barriert: the table stays black
NoBarrier(t, vs) == UNCHANGED <<mark, grayagain>>
barriert(t, vs) == IF Crossing(t, vs)
                   THEN mark' = [mark EXCEPT ![t] = "gray"] /\ grayagain' = grayagain \cup {t}
                   ELSE UNCHANGED <<mark, grayagain>>
\* luaC_barrierf: the white object is marked, or the black one made white.
barrier(o, v) == IF ~Crossing(o, {v}) THEN UNCHANGED <<mark, gray>>
                 ELSE IF gcstate = "propagate" THEN Mark(mark, {v}, gray)
                 ELSE mark' = [mark EXCEPT ![o] = currentwhite] /\ UNCHANGED gray

\* t[k] = v (luaV_settable, lua_rawset).  Bound: one entry at a time.
SetTable == \E t \in Tables, k \in (InStack(L) \cup {number}) \ {nil}, v \in InStack(L) \cup {nil} :
    /\ Mutating
    /\ val[t] = nil \/ key[t] = k
    /\ v = nil => key[t] = k    \* nothing is added for a nil
    /\ key' = [key EXCEPT ![t] = k] /\ val' = [val EXCEPT ![t] = v]
    /\ barriert(t, IF key[t] = k THEN {v} ELSE {k, v})
    /\ UNCHANGED <<tt, meta, attr, upvals, stack, text, finalized, called, rootgc, gray, weak,
                   sweepgc, running>>
GetTable == \E t \in Tables : val[t] # nil /\ Read(val[t])
\* next: the key of an entry.
Next_ == \E t \in Tables : val[t] # nil /\ Read(key[t])
SetMetatable == \E o \in InStack(L) \cap Addr, mt \in (Tables \ {Globals}) \cup {nil} :
    /\ Mutating
    /\ meta[o] # mt /\ meta' = [meta EXCEPT ![o] = mt]
    /\ \/ tt[o] = "table" /\ barriert(o, {mt}) /\ UNCHANGED gray
       \/ tt[o] = "userdata" /\ barrier(o, mt) /\ UNCHANGED grayagain
    /\ UNCHANGED <<tt, attr, key, val, upvals, stack, text, finalized, called, rootgc, weak,
                   sweepgc, running>>

Closures == {c \in InStack(L) \cap Addr : tt[c] = "function"}
SetUpval == \E c \in Closures, v \in InStack(L) :
    LET u == upval[c]
    IN  /\ Mutating
        /\ IF isopen(u) THEN stack' = [stack EXCEPT ![thread[u]][level[u]] = v] /\ UNCHANGED val
                        ELSE val' = [val EXCEPT ![u] = v] /\ UNCHANGED stack
        /\ barrier(u, v)
        /\ UNCHANGED <<tt, meta, attr, key, upvals, text, finalized, called, rootgc, grayagain, weak,
                       sweepgc, running>>
GetUpval == \E c \in Closures : Read(UpvalValue(upval[c]))

\* The last local variable goes out of scope: luaF_close, then the stack
\* shrinks.  Dead upvalues are freed; a gray one is marked with its value,
\* or swept at once (luaC_linkupval).
Popped(s) == SubSeq(s, 1, Len(s) - 1)
Pop ==
    LET closing == {u \in OpenUpvals(L) : level[u] = Len(stack[L])}
        freed   == {u \in closing : isdead(u)}
        kept    == closing \ freed
        grays   == {u \in kept : mark[u] = "gray"}
    IN  /\ Mutating /\ stack[L] # <<>>
        /\ stack' = [stack EXCEPT ![L] = Popped(@)]
        /\ tt' = With(tt, freed, "free")
        /\ closeupvals(kept, freed)
        /\ linkupvals(kept, rootgc) /\ sweepgc' = ahead(kept, rootgc, sweepgc)
        /\ IF gcstate = "propagate"
           THEN Mark(With(mark, grays, "black"), {UpvalValue(u) : u \in grays}, gray)
           ELSE mark' = With(With(mark, grays, currentwhite), freed, "white0") /\ UNCHANGED gray
        /\ UNCHANGED <<meta, attr, key, upval, text, finalized, called, grayagain, weak, running>>

\* resume and yield hand a value over (lua_xmove).
Handed(to) == /\ stack[L] # <<>> /\ Len(stack[to]) < MaxStack
              /\ \A u \in OpenUpvals(L) : level[u] < Len(stack[L])
              /\ stack' = [stack EXCEPT ![L] = Popped(@), ![to] = Append(@, stack[L][Len(stack[L])])]
              /\ UNCHANGED <<heads, entries, upvals, text, finalized, called, rootgc, lists, sweepgc>>
\* The coroutine itself stays on the stack, an argument of resume that no
\* closure refers to.
Resume == \E t \in InStack(L) \cap Addr :
    /\ Mutating /\ tt[t] = "thread" /\ Len(running) <= MaxThreads
    /\ \A i \in DOMAIN running : running[i] # t
    /\ \E i \in 1 .. Len(stack[L]) - 1 : stack[L][i] = t /\ \A u \in OpenUpvals(L) : level[u] # i
    /\ Handed(t)
    /\ running' = Append(running, t)
Yield == /\ Mutating /\ Len(running) > 1
         /\ Handed(running[Len(running) - 1])
         /\ running' = Popped(running)

Program == \/ NewTable \/ NewUdata \/ NewThread \/ NewString \/ NewClosure \/ SetTable \/ GetTable
           \/ Next_ \/ SetMetatable \/ SetUpval \/ GetUpval \/ Pop \/ Resume \/ Yield \/ FullGC

\* lua_newstate makes the main thread, fixed, and the table of globals.
Init == /\ \E h \in Heaps :
              /\ tt = h.tt /\ meta = h.meta /\ attr = h.attr /\ key = h.key /\ val = h.val
              /\ upval = h.upval /\ thread = h.thread /\ level = h.level
              /\ stack = h.stack /\ text = h.text
        /\ mark = [a \in Addr |-> "white0"] /\ currentwhite = "white0"
        /\ finalized = {} /\ called = {}
        /\ rootgc = {a \in Objects : tt[a] # "string" /\ ~isopen(a)} /\ tmudata = {}
        /\ gray = {} /\ grayagain = {} /\ weak = {}
        /\ gcstate = "pause" /\ sweepstrgc = 0 /\ sweepgc = {} /\ atomic = "no"
        /\ running = <<Main>> /\ full = "no" /\ ops = 0

Next == Program \/ singlestep
\* The program goes on to allocate, so that luaC_checkGC calls luaC_step
\* again and again.  A collector's step, the only kind that leaves ops
\* alone, is possible in every state: this is its weak fairness.
Fairness == []<><<ops' = ops>>_vars

Spec == Init /\ [][Next]_vars /\ Fairness

---------------------------------------------------------------------------
(***************************************************************************)
(* Properties                                                              *)
(***************************************************************************)
\* The fields have their types; an object is in one list: that of objects,
\* that of userdata to be finalized, the string table or the open upvalues of
\* a thread; there is one string for a text.
TypeOK ==
    /\ tt \in [Addr -> Types] /\ mark \in [Addr -> Whites \cup {"gray", "black"}]
    /\ meta \in [Addr -> Addr \cup {nil}] /\ attr \in [Addr -> SUBSET Sayings]
    /\ key \in [Addr -> Values] /\ val \in [Addr -> Values]
    /\ upval \in [Addr -> Addr \cup {nil}]
    /\ thread \in [Addr -> Addr \cup {nil}] /\ level \in [Addr -> Nat]
    /\ stack \in [Addr -> Seq(Values)] /\ text \in [Addr -> Nat]
    /\ finalized \in SUBSET Addr /\ called \in SUBSET finalized
    /\ gcstate \in {"pause", "propagate", "sweepstring", "sweep", "finalize"}
    /\ atomic \in {"no", "upvals", "weak", "again", "tmudata"}
    /\ full \in {"no", "clearing", "marking"}
    /\ currentwhite \in Whites /\ sweepstrgc \in Nat
    /\ running \in Seq(Addr) /\ Len(running) > 0
    /\ tmudata \in SUBSET Addr /\ sweepgc \in SUBSET rootgc
    /\ gray \in SUBSET Addr /\ grayagain \in SUBSET Addr /\ weak \in SUBSET Addr
    /\ rootgc \cap tmudata = {}
    /\ rootgc \cup tmudata = {a \in Objects : tt[a] # "string" /\ ~isopen(a)}
    /\ \A a, b \in Objects : tt[a] = "string" /\ tt[b] = "string" /\ text[a] = text[b] => a = b

\* What an object refers to, and what keeps it refers to strongly.  An entry
\* without a value has no key: nothing looks at it.
Refs(o) == Addr \cap (CASE tt[o] = "table" -> {meta[o], val[o]} \cup (IF val[o] = nil THEN {} ELSE {key[o]})
                        [] tt[o] = "userdata" -> {meta[o]}
                        [] tt[o] = "function" -> {upval[o]}
                        [] tt[o] = "upval" -> {UpvalValue(o), thread[o]}
                        [] tt[o] = "thread" -> InStack(o)
                        [] OTHER -> {})
Strong(o) == CASE tt[o] = "table" -> Addr \cap (
                     {meta[o]} \cup (IF "k" \in Meta(o) \/ val[o] = nil THEN {} ELSE {key[o]})
                               \cup (IF "v" \in Meta(o) THEN {} ELSE {val[o]}))
               [] tt[o] = "upval" -> {UpvalValue(o)} \cap Addr
               [] OTHER -> Refs(o)
\* What the program can get at: the roots, what they keep, what that keeps
\* and so on, no further than there are addresses.
Roots == {Main, Globals} \cup {running[i] : i \in DOMAIN running} \cup tmudata
Reachable ==
    LET within[n \in Nat] == IF n = 0 THEN Roots
                             ELSE LET near == within[n - 1]
                                  IN  near \cup UNION {Strong(o) : o \in near}
    IN  within[Cardinality(Addr)]

\* Nothing the program can get at has been freed, the entries of weak
\* tables and the thread of an open upvalue included.
NoDangling == \A o \in Reachable : Refs(o) \subseteq Objects

\* Nothing the program can get at is dead, that is, about to be freed.
NothingReachableDies == \A o \in Reachable : ~isdead(o)

\* While the collector marks, no black object refers to a white one (the
\* invariant that the barriers restore), and what is gray will be visited.
\* Userdata that wait for their finalizers are marked anew in any case.
TriColour ==
    gcstate = "propagate" =>
        \A o \in Objects \ tmudata :
            /\ isblack(o) => \A v \in Strong(o) : ~iswhite(v)
            /\ mark[o] = "gray" /\ tt[o] \in {"table", "function", "thread"}
                  => o \in gray \cup grayagain \cup weak

\* A userdata whose metatable has a finalizer does not die before it was
\* called, and is never queued for it again.
Dies(a) == /\ a \in Objects /\ ~isdead(a)
           /\ tt'[a] # "free" /\ mark'[a] = Other(currentwhite')
FinalizedOnceBeforeDeath ==
    [][/\ \A a \in Addr : Dies(a) /\ tt[a] = "userdata" /\ "gc" \in Meta(a) => a \in called
       /\ tmudata' \cap called' = {}]_vars

\* Garbage is freed, unless the program gets at it again before.
GarbageFreed == \A a \in Addr \ {Main, Globals} :
    a \in Objects \ Reachable ~> a \notin Objects \/ a \in Reachable
=============================================================================
