--------------------------- MODULE LuaGC_proofs ---------------------------
(***************************************************************************)
(* Proofs about LuaGC: whatever the heap and the program, no step of the   *)
(* collector frees what the program can still get at.                      *)
(*                                                                         *)
(* The inductive invariant IInv says what is alive (not of the other       *)
(* white) refers to what is alive only.  The rest of it is there for the   *)
(* step that makes objects dead, the flip of the white in cleartable: what *)
(* is not white by then refers to nothing white, since all that is gray    *)
(* has been traversed, the barriers having kept the black ones right; and  *)
(* a sweep leaves nothing of the old white for the flip to bring back.     *)
(***************************************************************************)
EXTENDS LuaGC, SequenceFacts, FiniteSetTheorems

(***************************************************************************)
(* What is not dead refers to what is not dead only.                       *)
(***************************************************************************)
Alive  == {a \in Objects : ~isdead(a)}
AliveTables == {a \in Alive : tt[a] = "table"}
\* Values that a variable or a field may have.
Valid  == {v \in Values : v \in Addr => v \in Alive /\ tt[v] # "upval"}
Sound(o) ==
    /\ tt[o] \in {"table", "userdata"} => meta[o] \in AliveTables \cup {nil}
    /\ tt[o] = "table" => val[o] \in Valid /\ (val[o] # nil => key[o] \in Valid)
    /\ tt[o] = "function" => upval[o] \in Alive /\ tt[upval[o]] = "upval"
    /\ tt[o] = "upval" => UpvalValue(o) \in Valid
    /\ tt[o] = "thread" => \A i \in DOMAIN stack[o] : stack[o][i] \in Valid
HeapInv == \A o \in Alive : Sound(o)

\* Also a dead open upvalue is in the list of its thread.
OpenInv == \A u \in Addr : isopen(u) =>
    /\ thread[u] \in Addr /\ tt[thread[u]] = "thread"
    /\ level[u] \in DOMAIN stack[thread[u]]
    /\ mark[u] # "black"

\* A thread that runs or has resumed one that runs is alive: an argument of
\* resume holds it, in a slot that nobody assigns to.
Holds(s, t) == \E j \in DOMAIN stack[s] :
    stack[s][j] = t /\ \A u \in Addr : isopen(u) /\ thread[u] = s => level[u] # j
RunningInv ==
    /\ Globals \in AliveTables
    /\ running[1] = Main
    /\ \A i \in DOMAIN running : running[i] \in Alive /\ tt[running[i]] = "thread"
    /\ \A i, j \in DOMAIN running : running[i] = running[j] => i = j
    /\ \A i \in DOMAIN running : i + 1 \in DOMAIN running => Holds(running[i], running[i + 1])

\* Userdata in the list of those to be finalized.
TmuInv == \A u \in tmudata : u \in Alive /\ tt[u] = "userdata" /\ u \in finalized /\ u \notin called

(***************************************************************************)
(* What a sweep has passed is white.                                       *)
(***************************************************************************)
Sweeping == gcstate \in {"sweepstring", "sweep"}
SweepInv ==
    /\ ~Sweeping => sweepgc = {} /\ \A o \in Objects : ~isdead(o)
    /\ gcstate \in {"pause", "finalize"} => \A o \in Objects \ tmudata : mark[o] = currentwhite
    /\ gcstate = "sweepstring" => sweepgc = rootgc /\ sweepstrgc < NTexts
    /\ \A s \in Objects : tt[s] = "string" =>
          /\ text[s] \in Texts
          /\ gcstate = "sweepstring" /\ text[s] <= sweepstrgc => mark[s] = currentwhite
          /\ gcstate = "sweep" => mark[s] = currentwhite
    /\ gcstate = "sweep" => \A o \in rootgc \ sweepgc : mark[o] = currentwhite
    /\ gcstate = "sweep" => \A u \in Addr : isopen(u) /\ thread[u] \notin sweepgc => mark[u] = currentwhite

(***************************************************************************)
(* The colours in the mark phase.                                          *)
(***************************************************************************)
Listed == gray \cup grayagain \cup weak
\* What atomic has still to look at.
Todo == CASE atomic = "upvals" -> Listed
          [] atomic = "weak" -> gray \cup grayagain
          [] OTHER -> gray
Dark(v) == v \in Addr => ~iswhite(v)
AllDark(o) ==
    /\ tt[o] \in {"table", "userdata"} => Dark(meta[o])
    /\ tt[o] = "table" => Dark(key[o]) /\ Dark(val[o])
    /\ tt[o] = "function" => Dark(upval[o])
    /\ tt[o] = "upval" => Dark(UpvalValue(o))
StrongDark(o) ==
    /\ tt[o] = "table" => \A v \in traversetable(o) : Dark(v)
    /\ tt[o] = "userdata" => Dark(meta[o])
    /\ tt[o] = "function" => Dark(upval[o])
    /\ tt[o] = "upval" => Dark(UpvalValue(o))
    /\ tt[o] = "thread" => \A i \in DOMAIN stack[o] : Dark(stack[o][i])
ListInv ==
    /\ \A o \in Listed : o \in Objects /\ mark[o] = "gray" /\ tt[o] \in {"table", "function", "thread"}
    /\ \A o \in weak : tt[o] = "table"
    /\ atomic \in {"again", "tmudata"} => \A o \in grayagain : tt[o] = "thread"
    /\ \A o \in Objects : mark[o] = "gray" /\ tt[o] \in {"table", "function", "thread"} => o \in Listed
    /\ gray \cap grayagain = {} /\ weak \cap (gray \cup grayagain) = {}
BlackInv == \A o \in Objects : isblack(o) /\ (o \notin tmudata \/ atomic = "tmudata") => AllDark(o)
GrayInv  == /\ atomic = "no" => \A o \in Objects : mark[o] = "gray" =>
                                  o \in Listed \/ tt[o] = "string" \/ isopen(o)
            /\ atomic # "no" => \A o \in Objects \ Todo : mark[o] = "gray" => StrongDark(o)
RootInv  == /\ Dark(Main) /\ Dark(Globals)
            /\ atomic = "tmudata" => \A u \in tmudata : Dark(u)
MarkInv  == gcstate = "propagate" => ListInv /\ BlackInv /\ GrayInv /\ RootInv

(* A thread is never black, nor a userdata gray; where no object is, the   *)
(* colour is white.                                                        *)
ColourInv == /\ gcstate # "propagate" => atomic = "no"
             /\ \A o \in Addr : /\ tt[o] = "thread" => ~isblack(o)
                                /\ tt[o] = "userdata" => mark[o] # "gray"
                                /\ tt[o] = "free" => iswhite(o)

IInv == TypeOK /\ HeapInv /\ OpenInv /\ RunningInv /\ TmuInv /\ SweepInv /\ MarkInv /\ ColourInv

-----------------------------------------------------------------------------
(***************************************************************************)
(* What the invariants say of the fields, and of the thread that runs.     *)
(***************************************************************************)
(* The types of the fields, to be cited without the rest of TypeOK.        *)
Typed ==
    /\ tt \in [Addr -> Types] /\ mark \in [Addr -> {"white0", "white1", "gray", "black"}]
    /\ meta \in [Addr -> Addr \cup {nil}] /\ attr \in [Addr -> SUBSET Sayings]
    /\ key \in [Addr -> Values] /\ val \in [Addr -> Values]
    /\ upval \in [Addr -> Addr \cup {nil}]
    /\ thread \in [Addr -> Addr \cup {nil}] /\ level \in [Addr -> Nat]
    /\ stack \in [Addr -> Seq(Values)] /\ text \in [Addr -> Nat]
    /\ currentwhite \in {"white0", "white1"}
    /\ nil \in Values /\ Addr \subseteq Values /\ nil \notin Addr

(* The types of the fields follow from the type invariant.                 *)
LEMMA FieldTypes == TypeOK => Typed
BY MemoryAssumption DEF TypeOK, Typed, Whites, Values

(* The thread that runs is alive, and what is on its stack valid.          *)
LEMMA RunningThread ==
  ASSUME TypeOK, HeapInv, RunningInv, ColourInv
  PROVE  /\ Len(running) \in Nat \ {0} /\ DOMAIN running = 1 .. Len(running)
         /\ L \in Alive /\ L \in Addr /\ tt[L] = "thread" /\ mark[L] # "black"
         /\ stack[L] \in Seq(Values)
         /\ \A i \in DOMAIN stack[L] : stack[L][i] \in Valid
<1>1. running \in Seq(Addr) /\ Len(running) > 0
  BY DEF TypeOK
<1>2. Len(running) \in Nat \ {0} /\ DOMAIN running = 1 .. Len(running)
  BY <1>1, LenProperties
<1>3. Len(running) \in DOMAIN running
  BY <1>2
<1>4. L \in Alive /\ tt[L] = "thread"
  BY <1>3 DEF L, RunningInv
<1>5. L \in Addr /\ L \in Objects
  BY <1>4 DEF Alive, Objects
<1>6. stack[L] \in Seq(Values)
  BY <1>5 DEF TypeOK
<1>7. \A i \in DOMAIN stack[L] : stack[L][i] \in Valid
  BY <1>4 DEF HeapInv, Sound
<1>8. mark[L] # "black"
  BY <1>4, <1>5 DEF ColourInv, isblack
<1> QED BY <1>2, <1>4, <1>5, <1>6, <1>7, <1>8

(* Who is alive stays so: then valid values stay valid.                    *)
LEMMA ValidKept ==
  ASSUME \A a \in Alive : a \in Alive' /\ tt'[a] = tt[a]
  PROVE  /\ Valid \subseteq Valid' /\ AliveTables \subseteq AliveTables'
BY DEF Valid, AliveTables

(* An object whose fields are unchanged stays sound.                       *)
LEMMA SoundKept ==
  ASSUME \A a \in Alive : a \in Alive' /\ tt'[a] = tt[a],
         NEW o \in Alive, Sound(o),
         meta'[o] = meta[o], upval'[o] = upval[o],
         tt[o] = "table" => val'[o] = val[o] /\ (val[o] # nil => key'[o] = key[o]),
         tt[o] = "upval" => UpvalValue(o)' \in Valid',
         tt[o] = "thread" => \A i \in DOMAIN stack'[o] : stack'[o][i] \in Valid'
  PROVE  Sound(o)'
<1>1. Valid \subseteq Valid' /\ AliveTables \subseteq AliveTables'
  BY ValidKept
<1>2. tt'[o] = tt[o]
  OBVIOUS
<1> QED BY <1>1, <1>2 DEF Sound

-----------------------------------------------------------------------------
(***************************************************************************)
(* Steps of the program that read a value, find an object again or make    *)
(* new ones, and push it on the stack of the running thread.               *)
(***************************************************************************)
Grows(v) ==
    /\ \A a \in Objects : stack'[a] = stack[a] \/ (a = L /\ stack'[a] = Append(stack[a], v))
    /\ \A a \in Objects : /\ tt'[a] = tt[a] /\ meta'[a] = meta[a] /\ attr'[a] = attr[a]
                          /\ key'[a] = key[a] /\ val'[a] = val[a] /\ upval'[a] = upval[a]
                          /\ thread'[a] = thread[a] /\ level'[a] = level[a] /\ text'[a] = text[a]
                          /\ a \in finalized' <=> a \in finalized
                          /\ a \in called' <=> a \in called
    /\ \A a \in Objects : \/ mark'[a] = mark[a]
                          \/ /\ isdead(a) /\ mark'[a] = currentwhite
                             /\ tt[a] = "string" \/ (isopen(a) /\ thread[a] = L)
    /\ \A n \in Addr \ Objects : tt'[n] # "free" =>
          /\ mark'[n] = currentwhite
          /\ tt'[n] \in {"table", "userdata"} => meta'[n] = nil
          /\ tt'[n] = "table" => key'[n] = nil /\ val'[n] = nil
          /\ tt'[n] = "function" => upval'[n] \in Addr /\ tt'[upval'[n]] = "upval"
                                    /\ mark'[upval'[n]] # Other(currentwhite)
          /\ tt'[n] = "upval" => thread'[n] = L /\ level'[n] \in DOMAIN stack[L]
          /\ tt'[n] = "thread" => stack'[n] = <<>>
          /\ tt'[n] = "string" => text'[n] \in Texts
    /\ \A n \in Addr \ Objects : tt'[n] = "free" => mark'[n] = mark[n]
    /\ rootgc' = rootgc \cup {n \in Addr \ Objects : tt'[n] \notin {"free", "string", "upval"}}
    /\ \A a, b \in Objects' : tt'[a] = "string" /\ tt'[b] = "string" /\ text'[a] = text'[b] => a = b
    /\ sweepgc \subseteq sweepgc' /\ sweepgc' \subseteq sweepgc \cup (rootgc' \ rootgc)
    /\ gcstate = "sweepstring" => sweepgc' = rootgc'
    /\ ~Sweeping => sweepgc' = sweepgc
    /\ UNCHANGED <<tmudata, lists, gcstate, currentwhite, sweepstrgc, atomic, running, full>>

(* When the running thread's stack grows by a valid value, those alive     *)
(* stay so, and sound.                                                     *)
LEMMA GrowthHeap ==
  ASSUME IInv, NEW v, Grows(v), v \in Valid', Typed'
  PROVE  /\ \A a \in Alive : a \in Alive' /\ tt'[a] = tt[a]
         /\ L' = L
         /\ HeapInv' /\ OpenInv'
<1> USE DEF IInv
<1>0. Typed
  BY FieldTypes
<1>1. /\ L \in Alive /\ L \in Addr /\ tt[L] = "thread" /\ mark[L] # "black" /\ L \in Objects
      /\ stack[L] \in Seq(Values)
      /\ \A i \in DOMAIN stack[L] : stack[L][i] \in Valid
  BY RunningThread DEF Alive
<1>2. L' = L /\ currentwhite' = currentwhite
  BY DEF Grows, L
<1>2a. Other(currentwhite) # currentwhite
  BY <1>0 DEF Typed, Other
<1>3. \A a \in Alive : a \in Alive' /\ tt'[a] = tt[a]
  BY <1>0, <1>2, <1>2a DEF Grows, Alive, Objects, isdead
<1>4. Valid \subseteq Valid' /\ AliveTables \subseteq AliveTables'
  BY <1>3, ValidKept
<1>5. ASSUME NEW a \in Objects
      PROVE  /\ DOMAIN stack[a] \subseteq DOMAIN stack'[a]
             /\ \A i \in DOMAIN stack[a] : stack'[a][i] = stack[a][i]
             /\ \A i \in DOMAIN stack'[a] : i \in DOMAIN stack[a] \/ (a = L /\ stack'[a][i] = v)
  <2>1. CASE stack'[a] = stack[a]
    BY <2>1
  <2>2. CASE a = L /\ stack'[a] = Append(stack[a], v)
    <3>1. v \in Values
      BY DEF Valid, Values
    <3>2. /\ DOMAIN stack[a] = 1 .. Len(stack[a]) /\ Len(stack[a]) \in Nat
          /\ DOMAIN stack'[a] = 1 .. Len(stack[a]) + 1
          /\ \A i \in DOMAIN stack[a] : stack'[a][i] = stack[a][i]
          /\ stack'[a][Len(stack[a]) + 1] = v
      BY <1>1, <2>2, <3>1, AppendDomain
    <3> QED BY <2>2, <3>2
  <2> QED BY <2>1, <2>2 DEF Grows
<1>6. \A u \in Objects : isopen(u)' <=> isopen(u)
  BY DEF Grows, isopen
<1>7. \A u \in Addr \ Objects : ~isopen(u)
  BY DEF isopen, Objects
<1>8. OpenInv'
  <2> SUFFICES ASSUME NEW u \in Addr, isopen(u)'
               PROVE  /\ thread'[u] \in Addr /\ tt'[thread'[u]] = "thread"
                      /\ level'[u] \in DOMAIN stack'[thread'[u]]
                      /\ mark'[u] # "black"
    BY DEF OpenInv
  <2>1. CASE u \in Objects
    <3>1. isopen(u) /\ thread'[u] = thread[u] /\ level'[u] = level[u]
      BY <1>6, <2>1 DEF Grows
    <3>2. thread[u] \in Addr /\ tt[thread[u]] = "thread" /\ level[u] \in DOMAIN stack[thread[u]]
          /\ mark[u] # "black"
      BY <3>1 DEF OpenInv
    <3>3. thread[u] \in Objects
      BY <3>2 DEF Objects
    <3>4. tt'[thread[u]] = "thread" /\ mark'[u] # "black"
      BY <1>0, <2>1, <3>2, <3>3 DEF Grows, Typed
    <3> QED BY <1>5, <3>1, <3>2, <3>3, <3>4
  <2>2. CASE u \notin Objects
    <3>1. tt'[u] = "upval" /\ tt'[u] # "free"
      BY DEF isopen
    <3>2. thread'[u] = L /\ level'[u] \in DOMAIN stack[L] /\ mark'[u] = currentwhite
      BY <2>2, <3>1 DEF Grows
    <3>3. mark'[u] # "black"
      BY <1>0, <3>2 DEF Typed
    <3> QED BY <1>1, <1>3, <1>5, <3>2, <3>3
  <2> QED BY <2>1, <2>2
<1>9. HeapInv'
  <2> SUFFICES ASSUME NEW o \in Alive' PROVE Sound(o)'
    BY DEF HeapInv
  <2>0. o \in Addr /\ tt'[o] # "free" /\ mark'[o] # Other(currentwhite)
    BY <1>2 DEF Alive, Objects, isdead
  <2>1. CASE o \in Alive
    <3>1. Sound(o) /\ o \in Objects /\ o \in Addr
      BY <2>1 DEF HeapInv, Alive, Objects
    <3>2. meta'[o] = meta[o] /\ upval'[o] = upval[o] /\ val'[o] = val[o] /\ key'[o] = key[o]
      BY <3>1 DEF Grows
    <3>3. ASSUME tt[o] = "upval" PROVE UpvalValue(o)' \in Valid'
      <4>1. UpvalValue(o) \in Valid
        BY <3>1, <3>3 DEF Sound
      <4>2. UpvalValue(o)' = UpvalValue(o)
        <5>1. CASE isopen(o)
          <6>1. thread[o] \in Objects /\ level[o] \in DOMAIN stack[thread[o]]
            BY <3>1, <5>1 DEF OpenInv, Objects
          <6>2. thread'[o] = thread[o] /\ level'[o] = level[o] /\ isopen(o)'
            BY <1>6, <3>1, <5>1 DEF Grows
          <6> QED BY <1>5, <5>1, <6>1, <6>2 DEF UpvalValue
        <5>2. CASE ~isopen(o)
          BY <1>6, <3>1, <3>2, <5>2 DEF UpvalValue
        <5> QED BY <5>1, <5>2
      <4> QED BY <1>4, <4>1, <4>2
    <3>4. ASSUME tt[o] = "thread", NEW i \in DOMAIN stack'[o] PROVE stack'[o][i] \in Valid'
      <4>1. \A j \in DOMAIN stack[o] : stack[o][j] \in Valid
        BY <3>1, <3>4 DEF Sound
      <4> QED BY <1>4, <1>5, <3>1, <3>4, <4>1
    <3> QED BY <1>3, <2>1, <3>1, <3>2, <3>3, <3>4, SoundKept
  <2>2. CASE o \in Objects \ Alive
    <3>1. isdead(o) /\ mark'[o] # mark[o]
      BY <2>0, <2>2 DEF Alive, isdead
    <3>2. tt'[o] = tt[o] /\ (tt[o] = "string" \/ (isopen(o) /\ thread[o] = L))
      BY <2>2, <3>1 DEF Grows
    <3>3. CASE tt[o] = "string"
      BY <3>2, <3>3 DEF Sound
    <3>4. CASE isopen(o) /\ thread[o] = L
      <4>1. level[o] \in DOMAIN stack[L] /\ thread'[o] = L /\ level'[o] = level[o] /\ isopen(o)'
            /\ tt[o] = "upval"
        BY <1>6, <2>0, <2>2, <3>4 DEF OpenInv, Grows, isopen
      <4>2. UpvalValue(o)' = stack[L][level[o]]
        BY <1>1, <1>5, <4>1 DEF UpvalValue
      <4>3. UpvalValue(o)' \in Valid'
        BY <1>1, <1>4, <4>1, <4>2
      <4> QED BY <3>2, <4>1, <4>3 DEF Sound
    <3> QED BY <3>2, <3>3, <3>4
  <2>3. CASE o \notin Objects
    <3>1. /\ tt'[o] \in {"table", "userdata"} => meta'[o] = nil
          /\ tt'[o] = "table" => key'[o] = nil /\ val'[o] = nil
          /\ tt'[o] = "function" => upval'[o] \in Addr /\ tt'[upval'[o]] = "upval"
                                    /\ mark'[upval'[o]] # Other(currentwhite)
          /\ tt'[o] = "upval" => thread'[o] = L /\ level'[o] \in DOMAIN stack[L]
          /\ tt'[o] = "thread" => stack'[o] = <<>>
      BY <2>0, <2>3 DEF Grows
    <3>2. nil \in Valid'
      BY <1>0 DEF Valid, Typed, Values
    <3>3. tt'[o] = "function" => upval'[o] \in Alive'
      BY <1>2, <3>1 DEF Alive, Objects, isdead
    <3>4. ASSUME tt'[o] = "upval" PROVE UpvalValue(o)' \in Valid'
      <4>1. thread'[o] = L /\ level'[o] \in DOMAIN stack[L]
        BY <3>1, <3>4
      <4>2. isopen(o)'
        BY <1>0, <1>1, <3>4, <4>1 DEF isopen, Typed
      <4>3. UpvalValue(o)' = stack[L][level'[o]]
        BY <1>1, <1>5, <4>1, <4>2 DEF UpvalValue
      <4> QED BY <1>1, <1>4, <4>1, <4>3
    <3> QED BY <3>1, <3>2, <3>3, <3>4 DEF Sound
  <2> QED BY <2>1, <2>2, <2>3
<1> QED BY <1>2, <1>3, <1>8, <1>9

(***************************************************************************)
(* What keeps an invariant, for the operations of the program.             *)
(***************************************************************************)
LEMMA TwoWhites == ASSUME Typed PROVE /\ Other(currentwhite) # currentwhite
                                      /\ Other(currentwhite) \in Whites /\ currentwhite \in Whites
                                      /\ \A w \in Whites : w = currentwhite \/ w = Other(currentwhite)
                                      /\ "gray" \notin Whites /\ "black" \notin Whites
BY DEF Typed, Other, Whites

(* Who runs goes on to, if the arguments of resume stay where they are.    *)
LEMMA RunningKept ==
  ASSUME TypeOK, RunningInv, UNCHANGED running,
         \A a \in Alive : a \in Alive' /\ tt'[a] = tt[a],
         \A s \in Objects \ {L} : tt[s] = "thread" => \A j \in DOMAIN stack[s] :
            (\A u \in Addr : isopen(u) /\ thread[u] = s => level[u] # j)
               => j \in DOMAIN stack'[s] /\ stack'[s][j] = stack[s][j],
         \A u \in Addr : isopen(u)' /\ thread'[u] # L
            => isopen(u) /\ thread'[u] = thread[u] /\ level'[u] = level[u]
  PROVE  RunningInv' /\ L' = L
<1>1. L' = L
  BY DEF L
<1>2. running \in Seq(Addr) /\ Len(running) \in Nat /\ DOMAIN running = 1 .. Len(running)
  BY LenProperties DEF TypeOK
<1>3. ASSUME NEW i \in DOMAIN running, i + 1 \in DOMAIN running
      PROVE  Holds(running[i], running[i + 1])'
  <2>1. Holds(running[i], running[i + 1])
    BY <1>3 DEF RunningInv
  <2>2. i \in Int /\ i < Len(running) /\ Len(running) \in DOMAIN running
    BY <1>2, <1>3
  <2>3. running[i] # L
    BY <2>2 DEF RunningInv, L
  <2>4. running[i] \in Objects \ {L} /\ tt[running[i]] = "thread"
    BY <2>3 DEF RunningInv, Alive
  <2>5. PICK j \in DOMAIN stack[running[i]] : /\ stack[running[i]][j] = running[i + 1]
           /\ \A u \in Addr : isopen(u) /\ thread[u] = running[i] => level[u] # j
    BY <2>1 DEF Holds
  <2>6. j \in DOMAIN stack'[running[i]] /\ stack'[running[i]][j] = running[i + 1]
    BY <2>4, <2>5
  <2>7. \A u \in Addr : isopen(u)' /\ thread'[u] = running[i] => level'[u] # j
    BY <2>3, <2>5
  <2>8. running'[i] = running[i] /\ running'[i + 1] = running[i + 1]
    OBVIOUS
  <2> QED BY <2>6, <2>7, <2>8 DEF Holds
<1>4. AliveTables \subseteq AliveTables'
  BY ValidKept
<1> QED BY <1>1, <1>3, <1>4 DEF RunningInv

(* The userdata to be finalized stay what they are.                        *)
LEMMA TmuKept ==
  ASSUME TmuInv, tmudata' \subseteq tmudata,
         \A a \in Alive : a \in Alive' /\ tt'[a] = tt[a],
         \A a \in tmudata : (a \in finalized => a \in finalized') /\ (a \in called' => a \in called)
  PROVE  TmuInv'
BY DEF TmuInv

(* New objects are white.  Where a sweep has been they stay white.         *)
LEMMA SweepKept ==
  ASSUME SweepInv, Typed, UNCHANGED <<gcstate, currentwhite, sweepstrgc, tmudata>>,
         \A a \in Objects' : isdead(a)' => a \in Objects /\ isdead(a),
         gcstate # "propagate" =>
            \A a \in Objects' : mark'[a] = currentwhite \/ (a \in Objects /\ mark[a] # currentwhite),
         \A s \in Objects' : tt'[s] = "string" =>
            \/ s \in Objects /\ tt[s] = "string" /\ text'[s] = text[s]
            \/ text'[s] \in Texts /\ mark'[s] = currentwhite,
         Sweeping => \A u \in Addr : isopen(u)' =>
            (isopen(u) /\ thread'[u] = thread[u]) \/ mark'[u] = currentwhite,
         sweepgc \subseteq sweepgc', ~Sweeping => sweepgc' = sweepgc,
         gcstate = "sweepstring" => sweepgc' = rootgc',
         gcstate = "sweep" => \A o \in rootgc' : o \in rootgc \/ mark'[o] = currentwhite,
         rootgc' \subseteq Objects', gcstate = "sweep" => \A u \in Addr : isopen(u)' => u \in Objects'
  PROVE  SweepInv'
<1>0. Sweeping' = Sweeping
  BY DEF Sweeping
<1>1. ~Sweeping => sweepgc' = {} /\ \A o \in Objects' : ~isdead(o)'
  BY DEF SweepInv
<1>2. gcstate \in {"pause", "finalize"} => \A o \in Objects' \ tmudata : mark'[o] = currentwhite
  BY DEF SweepInv
<1>3. gcstate = "sweepstring" => sweepgc' = rootgc' /\ sweepstrgc < NTexts
  BY DEF SweepInv
<1>4. ASSUME NEW s \in Objects', tt'[s] = "string"
      PROVE  /\ text'[s] \in Texts
             /\ gcstate = "sweepstring" /\ text'[s] <= sweepstrgc => mark'[s] = currentwhite
             /\ gcstate = "sweep" => mark'[s] = currentwhite
  BY <1>4 DEF SweepInv
<1>5. gcstate = "sweep" => \A o \in rootgc' \ sweepgc' : mark'[o] = currentwhite
  BY DEF SweepInv
<1>6. gcstate = "sweep" => \A u \in Addr : isopen(u)' /\ thread'[u] \notin sweepgc' => mark'[u] = currentwhite
  BY DEF SweepInv, Sweeping
<1> QED BY <1>0, <1>1, <1>2, <1>3, <1>4, <1>5, <1>6 DEF SweepInv

(* What is listed anew was listed nowhere.                                 *)
Extended == /\ \A o \in (gray' \ gray) \cup (grayagain' \ grayagain) : mark[o] # "gray"
            /\ gray' = gray \/ grayagain' = grayagain
(* While the collector marks: nothing gets white again, what is black now  *)
(* has its fields, or refers to nothing white.                             *)
LEMMA MarkKept ==
  ASSUME MarkInv, Typed, UNCHANGED <<gcstate, atomic, tmudata>>, weak' = weak,
         ColourInv, atomic = "no",
         gcstate = "propagate" =>
            /\ \A a \in Addr : ~iswhite(a) => ~iswhite(a)' /\ tt'[a] = tt[a]
            /\ \A o \in Objects' \ tmudata : isblack(o)' => AllDark(o)' \/
                  /\ isblack(o) /\ ~isopen(o) /\ meta'[o] = meta[o] /\ key'[o] = key[o]
                  /\ val'[o] = val[o] /\ upval'[o] = upval[o] /\ thread'[o] = thread[o]
            /\ \A o \in Listed' \ Listed : o \in Objects' /\ mark'[o] = "gray"
                                           /\ tt'[o] \in {"table", "function", "thread"}
            /\ \A o \in Listed : mark'[o] = "gray" /\ o \in Listed'
            /\ Extended
            /\ \A o \in Objects' : mark'[o] = "gray" =>
                  \/ mark[o] = "gray" /\ (isopen(o) => isopen(o)')
                  \/ o \in Listed' \/ tt'[o] = "string" \/ isopen(o)'
  PROVE  MarkInv'
<1> SUFFICES ASSUME gcstate = "propagate" PROVE ListInv' /\ BlackInv' /\ GrayInv' /\ RootInv'
  BY DEF MarkInv
<1>0. ListInv /\ BlackInv /\ GrayInv /\ RootInv
  BY DEF MarkInv
<1>1. /\ "gray" \notin Whites /\ "black" \notin Whites
      /\ \A o \in Addr : ~iswhite(o) => o \in Objects
  BY DEF Whites, ColourInv, Objects
<1>2. ASSUME NEW o \in Objects', mark'[o] = "gray", mark[o] = "gray"
      PROVE  o \in Objects /\ tt'[o] = tt[o]
  BY <1>1, <1>2 DEF iswhite, Objects
<1>3. ListInv'
  <2>1. \A o \in Listed' : o \in Objects' /\ mark'[o] = "gray" /\ tt'[o] \in {"table", "function", "thread"}
    <3> SUFFICES ASSUME NEW o \in Listed
                 PROVE  o \in Objects' /\ tt'[o] \in {"table", "function", "thread"}
      OBVIOUS
    <3>1. o \in Objects /\ mark[o] = "gray" /\ tt[o] \in {"table", "function", "thread"}
      BY <1>0 DEF ListInv
    <3>2. o \in Addr /\ tt'[o] = tt[o]
      BY <1>1, <3>1 DEF Objects, iswhite
    <3> QED BY <3>1, <3>2 DEF Objects
  <2>2. \A o \in weak' : tt'[o] = "table"
    <3> SUFFICES ASSUME NEW o \in weak PROVE tt'[o] = "table"
      OBVIOUS
    <3>1. o \in Objects /\ mark[o] = "gray" /\ tt[o] = "table"
      BY <1>0 DEF ListInv, Listed
    <3> QED BY <1>1, <3>1 DEF Objects, iswhite
  <2>3. \A o \in Objects' : mark'[o] = "gray" /\ tt'[o] \in {"table", "function", "thread"} => o \in Listed'
    <3> SUFFICES ASSUME NEW o \in Objects', mark'[o] = "gray", tt'[o] \in {"table", "function", "thread"}
                 PROVE  o \in Listed'
      OBVIOUS
    <3>1. CASE mark[o] = "gray"
      BY <1>0, <1>2, <3>1 DEF ListInv
    <3> QED BY <3>1 DEF isopen
  <2>4. gray' \cap grayagain' = {} /\ weak' \cap (gray' \cup grayagain') = {}
    <3>1. \A o \in Listed : mark[o] = "gray"
      BY <1>0 DEF ListInv
    <3>2. gray \cap grayagain = {} /\ weak \cap (gray \cup grayagain) = {}
      BY <1>0 DEF ListInv
    <3> QED BY <3>1, <3>2 DEF Extended, Listed
  <2> QED BY <2>1, <2>2, <2>3, <2>4 DEF ListInv
<1>4. BlackInv'
  <2> SUFFICES ASSUME NEW o \in Objects', isblack(o)', o \notin tmudata PROVE AllDark(o)'
    BY DEF BlackInv
  <2>1. CASE isblack(o) /\ ~isopen(o) /\ meta'[o] = meta[o] /\ key'[o] = key[o]
             /\ val'[o] = val[o] /\ upval'[o] = upval[o] /\ thread'[o] = thread[o]
    <3>1. o \in Objects /\ tt'[o] = tt[o]
      BY <1>1, <2>1 DEF isblack, iswhite, Objects
    <3>2. AllDark(o)
      BY <1>0, <2>1, <3>1 DEF BlackInv
    <3>3. \A v : Dark(v) => Dark(v)'
      BY DEF Dark
    <3>4. ~isopen(o)' /\ UpvalValue(o) = val[o] /\ UpvalValue(o)' = val[o]
      BY <2>1, <3>1 DEF isopen, UpvalValue
    <3> QED BY <2>1, <3>1, <3>2, <3>3, <3>4 DEF AllDark
  <2> QED BY <2>1
<1>5. GrayInv'
  <2> SUFFICES ASSUME NEW o \in Objects', mark'[o] = "gray"
               PROVE  o \in Listed' \/ tt'[o] = "string" \/ isopen(o)'
    BY DEF GrayInv
  <2>1. CASE mark[o] = "gray" /\ (isopen(o) => isopen(o)')
    BY <1>0, <1>2, <2>1 DEF GrayInv
  <2> QED BY <2>1
<1>6. RootInv'
  BY <1>0 DEF RootInv, Dark
<1> QED BY <1>3, <1>4, <1>5, <1>6

(* The rest of the invariant after such a step.                            *)
LEMMA Growth ==
  ASSUME IInv, NEW v, Grows(v), v \in Valid', Typed', finalized' \in SUBSET Addr, called' \in SUBSET finalized',
         atomic = "no"
  PROVE  IInv'
<1> USE DEF IInv
<1>0. /\ Typed /\ Other(currentwhite) # currentwhite /\ currentwhite \in Whites
      /\ "gray" \notin Whites /\ "black" \notin Whites
  BY FieldTypes, TwoWhites
<1>1. /\ L \in Alive /\ L \in Addr /\ tt[L] = "thread" /\ mark[L] # "black" /\ L \in Objects
      /\ stack[L] \in Seq(Values)
  BY RunningThread DEF Alive
<1>2. /\ \A a \in Alive : a \in Alive' /\ tt'[a] = tt[a]
      /\ L' = L
      /\ HeapInv' /\ OpenInv'
  BY GrowthHeap
<1>3. currentwhite' = currentwhite /\ tmudata' = tmudata /\ running' = running /\ lists' = lists
      /\ gcstate' = gcstate /\ atomic' = atomic /\ sweepstrgc' = sweepstrgc /\ full' = full
  BY DEF Grows
<1>4. \A a \in Objects : a \in Addr /\ a \in Objects' /\ tt'[a] = tt[a] /\ (isopen(a)' <=> isopen(a))
  BY DEF Grows, Objects, isopen
<1>5. \A n \in Objects' \ Objects : n \in Addr /\ mark'[n] = currentwhite
  BY DEF Grows, Objects
<1>6. \A u \in Addr : isopen(u)' => u \in Objects'
  BY DEF isopen, Objects
<1>7. RunningInv'
  <2>1. ASSUME NEW s \in Objects \ {L} PROVE stack'[s] = stack[s]
    BY DEF Grows
  <2>2. ASSUME NEW u \in Addr, isopen(u)', thread'[u] # L
        PROVE  isopen(u) /\ thread'[u] = thread[u] /\ level'[u] = level[u]
    <3>1. CASE u \in Objects
      BY <1>4, <2>2, <3>1 DEF Grows
    <3>2. CASE u \notin Objects
      BY <2>2, <3>2 DEF Grows, isopen
    <3> QED BY <3>1, <3>2
  <2> QED BY <1>2, <1>3, <2>1, <2>2, RunningKept
<1>8. TmuInv'
  <2>1. \A a \in tmudata : (a \in finalized => a \in finalized') /\ (a \in called' => a \in called)
    BY DEF Grows, TmuInv, Alive
  <2> QED BY <1>2, <1>3, <2>1, TmuKept
<1>9. \A a \in Objects : mark'[a] = mark[a] \/ (isdead(a) /\ mark'[a] = currentwhite)
  BY DEF Grows
<1>10. rootgc' \subseteq Objects' /\ \A o \in rootgc' : o \in rootgc \/ mark'[o] = currentwhite
  <2>1. rootgc \subseteq Objects
    BY DEF TypeOK
  <2>2. \A o \in rootgc' : o \in rootgc \/ o \in Objects' \ Objects
    BY DEF Grows, Objects
  <2> QED BY <1>4, <1>5, <2>1, <2>2
<1>11. SweepInv'
  <2>1. \A a \in Objects' : isdead(a)' => a \in Objects /\ isdead(a)
    BY <1>0, <1>3, <1>5, <1>9 DEF isdead
  <2>2. \A a \in Objects' : mark'[a] = currentwhite \/ (a \in Objects /\ mark[a] # currentwhite)
    BY <1>5, <1>9
  <2>3. ASSUME NEW s \in Objects', tt'[s] = "string"
        PROVE  \/ s \in Objects /\ tt[s] = "string" /\ text'[s] = text[s]
               \/ text'[s] \in Texts /\ mark'[s] = currentwhite
    <3>1. CASE s \in Objects
      BY <1>4, <2>3, <3>1 DEF Grows
    <3>2. CASE s \notin Objects
      BY <1>5, <2>3, <3>2 DEF Grows
    <3> QED BY <3>1, <3>2
  <2>4. ASSUME NEW u \in Addr, isopen(u)'
        PROVE  (isopen(u) /\ thread'[u] = thread[u]) \/ mark'[u] = currentwhite
    BY <1>4, <1>5, <1>6, <2>4 DEF Grows
  <2>5. sweepgc \subseteq sweepgc' /\ (~Sweeping => sweepgc' = sweepgc)
        /\ (gcstate = "sweepstring" => sweepgc' = rootgc')
    BY DEF Grows
  <2> QED BY <1>0, <1>3, <1>6, <1>10, <2>1, <2>2, <2>3, <2>4, <2>5, SweepKept
<1>12. MarkInv'
  <2> SUFFICES ASSUME gcstate = "propagate" PROVE MarkInv'
    BY <1>3 DEF MarkInv
  <2>1. \A a \in Objects : mark'[a] = mark[a]
    BY <1>9 DEF SweepInv, Sweeping
  <2>2. \A a \in Addr : ~iswhite(a) => ~iswhite(a)' /\ tt'[a] = tt[a] /\ a \in Objects
    BY <1>4, <2>1 DEF ColourInv, iswhite, Objects
  <2>3. \A a \in Objects' : ~iswhite(a)' => ~iswhite(a) /\ a \in Objects /\ mark'[a] = mark[a]
    BY <1>0, <1>5, <2>1 DEF iswhite
  <2>4. ASSUME NEW o \in Objects' \ tmudata, isblack(o)'
        PROVE  /\ isblack(o) /\ ~isopen(o) /\ meta'[o] = meta[o] /\ key'[o] = key[o]
               /\ val'[o] = val[o] /\ upval'[o] = upval[o] /\ thread'[o] = thread[o]
    <3>1. isblack(o) /\ o \in Objects
      BY <1>0, <2>3, <2>4 DEF isblack, iswhite
    <3>2. ~isopen(o)
      BY <3>1 DEF OpenInv, isblack, Objects
    <3> QED BY <3>1, <3>2 DEF Grows
  <2>5. Listed' = Listed /\ weak' = weak /\ Extended
    BY <1>3 DEF Listed, lists, Extended
  <2>6. ListInv
    BY DEF MarkInv
  <2>7. ASSUME NEW o \in Listed PROVE mark'[o] = "gray"
    BY <2>1, <2>6 DEF ListInv
  <2>8. ASSUME NEW o \in Objects', mark'[o] = "gray" PROVE mark[o] = "gray" /\ (isopen(o) => isopen(o)')
    BY <1>0, <1>4, <2>3, <2>8 DEF iswhite
  <2> QED BY <1>0, <1>3, <2>2, <2>4, <2>5, <2>7, <2>8, MarkKept
<1>13. ColourInv'
  <2>1. gcstate' # "propagate" => atomic' = "no"
    BY <1>3 DEF ColourInv
  <2>2. ASSUME NEW o \in Addr
        PROVE  /\ tt'[o] = "thread" => mark'[o] # "black"
               /\ tt'[o] = "userdata" => mark'[o] # "gray"
               /\ tt'[o] = "free" => mark'[o] \in Whites
    <3>1. CASE o \in Objects
      BY <1>0, <1>4, <1>9, <3>1 DEF ColourInv, isblack, Objects
    <3>2. CASE o \in Objects' \ Objects
      BY <1>0, <1>5, <3>2 DEF Objects
    <3>3. CASE o \notin Objects /\ o \notin Objects'
      BY <1>3, <3>3 DEF Grows, Objects, ColourInv, iswhite
    <3> QED BY <3>1, <3>2, <3>3
  <2> QED BY <2>1, <2>2 DEF ColourInv, isblack, iswhite
<1>14. TypeOK'
  <2>1. gcstate' \in {"pause", "propagate", "sweepstring", "sweep", "finalize"}
        /\ atomic' \in {"no", "upvals", "weak", "again", "tmudata"}
        /\ full' \in {"no", "clearing", "marking"}
        /\ sweepstrgc' \in Nat /\ running' \in Seq(Addr) /\ Len(running') > 0
        /\ gray' \in SUBSET Addr /\ grayagain' \in SUBSET Addr /\ weak' \in SUBSET Addr
        /\ tmudata' \in SUBSET Addr
    BY <1>3 DEF TypeOK, lists
  <2>2. rootgc' \cup tmudata' = {a \in Objects' : tt'[a] # "string" /\ ~isopen(a)'}
    <3>1. rootgc \cup tmudata = {a \in Objects : tt[a] # "string" /\ ~isopen(a)}
      BY DEF TypeOK
    <3>2. ASSUME NEW n \in Addr \ Objects
          PROVE  tt'[n] \notin {"free", "string", "upval"} <=>
                   n \in Objects' /\ tt'[n] # "string" /\ ~isopen(n)'
      <4>1. n \in Objects' <=> tt'[n] # "free"
        BY DEF Objects
      <4>2. tt'[n] = "upval" => isopen(n)'
        <5>1. nil # L
          BY <1>0, <1>1 DEF Typed
        <5> QED BY <5>1 DEF Grows, isopen
      <4>3. isopen(n)' => tt'[n] = "upval"
        BY DEF isopen
      <4> QED BY <4>1, <4>2, <4>3
    <3>3. ASSUME NEW a \in Objects
          PROVE a \in rootgc' \cup tmudata' <=> a \in Objects' /\ tt'[a] # "string" /\ ~isopen(a)'
      BY <1>3, <1>4, <3>1 DEF Grows
    <3>4. ASSUME NEW n \in Addr \ Objects
          PROVE  n \in rootgc' \cup tmudata' <=> n \in Objects' /\ tt'[n] # "string" /\ ~isopen(n)'
      BY <1>3, <3>1, <3>2 DEF Grows
    <3>5. rootgc' \cup tmudata' \subseteq Addr /\ Objects' \subseteq Addr
      BY <1>3 DEF Grows, TypeOK, Objects
    <3> QED BY <3>3, <3>4, <3>5
  <2>3. rootgc' \cap tmudata' = {}
    <3>1. tmudata \subseteq Objects /\ rootgc \cap tmudata = {}
      BY DEF TypeOK
    <3> QED BY <1>3, <3>1 DEF Grows
  <2>4. sweepgc' \in SUBSET rootgc'
    BY DEF Grows, TypeOK
  <2>5. \A a, b \in Objects' : tt'[a] = "string" /\ tt'[b] = "string" /\ text'[a] = text'[b] => a = b
    BY DEF Grows
  <2>6. /\ mark' \in [Addr -> Whites' \cup {"gray", "black"}] /\ currentwhite' \in Whites'
    BY DEF Typed, Whites
  <2> QED BY <2>1, <2>2, <2>3, <2>4, <2>5, <2>6 DEF TypeOK, Typed
<1> QED BY <1>2, <1>7, <1>8, <1>11, <1>12, <1>13, <1>14

(* The first of a list is in it.                                           *)
LEMMA FirstIn == ASSUME NEW S, NEW o \in First(S) PROVE o \in S
BY DEF First

(* The main thread is in the list of objects.                              *)
LEMMA MainListed == ASSUME TypeOK, HeapInv, RunningInv, TmuInv, ColourInv
                    PROVE Main \in rootgc /\ Main \in Alive /\ tt[Main] = "thread"
<1>1. Main \in Alive /\ tt[Main] = "thread"
  <2>1. 1 \in DOMAIN running
    BY LenProperties DEF TypeOK
  <2> QED BY <2>1 DEF RunningInv
<1>2. Main \in Objects /\ ~isopen(Main) /\ Main \notin tmudata
  BY <1>1 DEF Alive, isopen, TmuInv
<1> QED BY <1>1, <1>2 DEF TypeOK

(* A new object comes into the part of the list that is still to be swept  *)
(* only before the sweep begins.                                           *)
LEMMA LinkedAhead ==
  ASSUME IInv, NEW set, set \cap rootgc = {}, rootgc' = rootgc \cup set,
         sweepgc' = ahead(set, rootgc, sweepgc)
  PROVE  /\ sweepgc \subseteq sweepgc' /\ sweepgc' \subseteq sweepgc \cup (rootgc' \ rootgc)
         /\ gcstate = "sweepstring" => sweepgc' = rootgc'
         /\ ~Sweeping => sweepgc' = sweepgc
<1>1. Main \in rootgc
  BY MainListed DEF IInv
<1> QED BY <1>1 DEF ahead, IInv, SweepInv

(* A push changes the stack of the running thread only.                    *)
LEMMA PushTyped ==
  ASSUME Typed, L \in Addr, NEW v \in Values, Push(v)
  PROVE  /\ stack' \in [Addr -> Seq(Values)]
         /\ stack'[L] = Append(stack[L], v)
         /\ \A a \in Addr \ {L} : stack'[a] = stack[a]
BY DEF Push, Typed

(* To read a valid value and push it keeps the invariant.                  *)
LEMMA ReadGrows ==
  ASSUME IInv, NEW v \in Valid, Read(v)
  PROVE  IInv'
<1> USE DEF IInv
<1>0. Typed /\ L \in Addr /\ v \in Values
  BY FieldTypes, RunningThread DEF Valid
<1>1. /\ stack' \in [Addr -> Seq(Values)]
      /\ stack'[L] = Append(stack[L], v)
      /\ \A a \in Addr \ {L} : stack'[a] = stack[a]
  BY <1>0, PushTyped DEF Read
<1>2. Typed'
  BY <1>0, <1>1 DEF Typed, Read, Mutating, heads, entries, upvals
<1>3. /\ UNCHANGED <<tt, mark, meta, attr, key, val, upval, thread, level, text, finalized, called, rootgc,
                     sweepgc, tmudata, lists, gcstate, currentwhite, sweepstrgc, atomic, running, full>>
  BY DEF Read, Mutating, heads, entries, upvals
<1>4. Grows(v)
  <2>1. \A n \in Addr \ Objects : tt[n] = "free"
    BY DEF Objects
  <2>2. rootgc' = rootgc \cup {n \in Addr \ Objects : tt'[n] \notin {"free", "string", "upval"}}
    BY <1>3, <2>1
  <2>3. \A a \in Objects : a \in Addr
    BY DEF Objects
  <2>4. \A a, b \in Objects' : tt'[a] = "string" /\ tt'[b] = "string" /\ text'[a] = text'[b] => a = b
    BY <1>3 DEF TypeOK, Objects
  <2>5. gcstate = "sweepstring" => sweepgc' = rootgc'
    BY <1>3 DEF SweepInv
  <2> QED BY <1>1, <1>3, <2>1, <2>2, <2>3, <2>4, <2>5 DEF Grows
<1>5. v \in Valid' /\ atomic = "no"
  BY <1>3 DEF Valid, Alive, Objects, isdead, Read, Mutating
<1> QED BY <1>2, <1>3, <1>4, <1>5, Growth DEF TypeOK

(* The tables the running thread can name are alive.                       *)
LEMMA TablesAlive ==
  ASSUME IInv, NEW t \in Tables
  PROVE  t \in AliveTables /\ t \in Addr /\ t \in Objects /\ tt[t] = "table"
<1>1. \A i \in DOMAIN stack[L] : stack[L][i] \in Valid
  BY RunningThread DEF IInv
<1>2. Globals \in AliveTables
  BY DEF IInv, RunningInv
<1> QED BY <1>1, <1>2 DEF Tables, InStack, Valid, AliveTables, Alive, Objects

(* So are its closures, with their upvalues and the values of these.       *)
LEMMA ClosuresAlive ==
  ASSUME IInv, NEW c \in Closures
  PROVE  /\ c \in Alive /\ upval[c] \in Alive /\ upval[c] \in Addr /\ tt[upval[c]] = "upval"
         /\ UpvalValue(upval[c]) \in Valid
<1>1. \A i \in DOMAIN stack[L] : stack[L][i] \in Valid
  BY RunningThread DEF IInv
<1>2. c \in Alive /\ tt[c] = "function"
  BY <1>1 DEF Closures, InStack, Valid
<1>3. upval[c] \in Alive /\ tt[upval[c]] = "upval"
  BY <1>2 DEF IInv, HeapInv, Sound
<1>4. UpvalValue(upval[c]) \in Valid
  BY <1>3 DEF IInv, HeapInv, Sound
<1> QED BY <1>2, <1>3, <1>4 DEF Alive, Objects

(* luaV_gettable reads a value that is still valid, weak tables included.  *)
LEMMA GetTableStep == ASSUME IInv, GetTable PROVE IInv'
<1>1. PICK t \in Tables : val[t] # nil /\ Read(val[t])
  BY DEF GetTable
<1>2. val[t] \in Valid
  BY <1>1, TablesAlive DEF IInv, HeapInv, Sound, AliveTables
<1> QED BY <1>1, <1>2, ReadGrows

(* lua_next gives a key that is still valid, since its entry has a value.  *)
LEMMA NextStep == ASSUME IInv, Next_ PROVE IInv'
<1>1. PICK t \in Tables : val[t] # nil /\ Read(key[t])
  BY DEF Next_
<1>2. key[t] \in Valid
  BY <1>1, TablesAlive DEF IInv, HeapInv, Sound, AliveTables
<1> QED BY <1>1, <1>2, ReadGrows

(* OP_GETUPVAL reads a valid value, open or closed.                        *)
LEMMA GetUpvalStep == ASSUME IInv, GetUpval PROVE IInv'
<1>1. PICK c \in Closures : Read(UpvalValue(upval[c]))
  BY DEF GetUpval
<1> QED BY <1>1, ClosuresAlive, ReadGrows

(* An address that is given to an object was no object's before.           *)
LEMMA Fresh_ ==
  ASSUME IInv, NEW o \in Free
  PROVE  /\ o \in Addr /\ o \notin Objects /\ o # L /\ o \notin rootgc /\ o \notin Alive
         /\ L \in Addr /\ L \in Objects /\ tt[L] = "thread" /\ o # Main /\ o # nil /\ L # nil
<1>1. o \in Addr /\ o \notin Objects /\ o \notin Alive
  BY DEF Free, Objects, Alive
<1>2. L \in Alive /\ tt[L] = "thread" /\ L \in Addr
  BY RunningThread DEF IInv
<1>3. Main \in Alive /\ rootgc \subseteq Objects
  BY MainListed DEF IInv, TypeOK
<1> QED BY <1>1, <1>2, <1>3, FieldTypes DEF Alive, IInv, Typed

(* The value that a new object is, and its place in the lists.             *)
LEMMA CreatedValid ==
  ASSUME IInv, NEW o \in Free, NEW kind \in {"table", "userdata", "thread", "string"}, Create(kind, o)
  PROVE  /\ o \in Valid'
         /\ tt' \in [Addr -> Types] /\ tt'[o] = kind /\ \A a \in Addr \ {o} : tt'[a] = tt[a]
         /\ mark' \in [Addr -> {"white0", "white1", "gray", "black"}] /\ mark'[o] = currentwhite
         /\ \A a \in Addr \ {o} : mark'[a] = mark[a]
         /\ currentwhite' = currentwhite /\ atomic = "no"
         /\ UNCHANGED <<tmudata, lists, gcstate, currentwhite, sweepstrgc, atomic, running, full>>
         /\ Objects' = Objects \cup {o}
         /\ {n \in Addr \ Objects : tt'[n] \notin {"free", "string", "upval"}} =
               IF kind = "string" THEN {} ELSE {o}
<1>0. Typed /\ Other(currentwhite) # currentwhite
  BY FieldTypes, TwoWhites DEF IInv
<1>1. o \in Addr /\ o \notin Objects
  BY Fresh_
<1>2. /\ tt' = [tt EXCEPT ![o] = kind] /\ mark' = [mark EXCEPT ![o] = currentwhite]
      /\ UNCHANGED <<tmudata, lists, gcstate, currentwhite, sweepstrgc, atomic, running, full>>
      /\ atomic = "no"
  BY DEF Create, Mutating
<1>3. tt' \in [Addr -> Types] /\ tt'[o] = kind /\ \A a \in Addr \ {o} : tt'[a] = tt[a]
  BY <1>0, <1>1, <1>2 DEF Typed, Types
<1>4. /\ mark' \in [Addr -> {"white0", "white1", "gray", "black"}] /\ mark'[o] = currentwhite
      /\ \A a \in Addr \ {o} : mark'[a] = mark[a]
  BY <1>0, <1>1, <1>2 DEF Typed
<1>5. Objects' = Objects \cup {o}
  BY <1>1, <1>3 DEF Objects
<1>6. o \in Valid'
  BY <1>0, <1>1, <1>2, <1>3, <1>4, <1>5 DEF Valid, Alive, isdead, Values
<1>7. {n \in Addr \ Objects : tt'[n] \notin {"free", "string", "upval"}} =
               IF kind = "string" THEN {} ELSE {o}
  <2>1. \A n \in Addr \ Objects : n = o \/ tt'[n] = "free"
    BY <1>3 DEF Objects
  <2> QED BY <1>1, <1>3, <2>1
<1> QED BY <1>2, <1>3, <1>4, <1>5, <1>6, <1>7

(* A new table, userdata, thread or string: what is there keeps its        *)
(* fields, and the new fields are empty.                                   *)
LEMMA CreationGrows ==
  ASSUME IInv, NEW o \in Free, NEW kind \in {"table", "userdata", "thread", "string"}, Create(kind, o),
         Typed', finalized' \in SUBSET Addr, called' \in SUBSET finalized',
         \A a \in Objects : stack'[a] = IF a = L THEN Append(stack[a], o) ELSE stack[a],
         \A a \in Objects : /\ meta'[a] = meta[a] /\ attr'[a] = attr[a]
                            /\ key'[a] = key[a] /\ val'[a] = val[a] /\ upval'[a] = upval[a]
                            /\ thread'[a] = thread[a] /\ level'[a] = level[a] /\ text'[a] = text[a]
                            /\ (a \in finalized' <=> a \in finalized)
                            /\ (a \in called' <=> a \in called),
         kind \in {"table", "userdata"} => meta'[o] = nil,
         kind = "table" => key'[o] = nil /\ val'[o] = nil,
         kind = "thread" => stack'[o] = <<>>,
         kind = "string" => text'[o] \in Texts /\ SameText(text'[o]) = {},
         rootgc' = rootgc \cup (IF kind = "string" THEN {} ELSE {o}),
         sweepgc \subseteq sweepgc', sweepgc' \subseteq sweepgc \cup (rootgc' \ rootgc),
         gcstate = "sweepstring" => sweepgc' = rootgc',
         ~Sweeping => sweepgc' = sweepgc
  PROVE  IInv'
<1>3. /\ o \in Addr /\ o \notin Objects /\ o # L /\ o \notin rootgc /\ o \notin Alive
      /\ L \in Addr /\ L \in Objects
  BY Fresh_
<1>4. /\ o \in Valid'
      /\ tt' \in [Addr -> Types] /\ tt'[o] = kind /\ \A a \in Addr \ {o} : tt'[a] = tt[a]
      /\ mark' \in [Addr -> {"white0", "white1", "gray", "black"}] /\ mark'[o] = currentwhite
      /\ \A a \in Addr \ {o} : mark'[a] = mark[a]
      /\ currentwhite' = currentwhite /\ atomic = "no"
      /\ UNCHANGED <<tmudata, lists, gcstate, currentwhite, sweepstrgc, atomic, running, full>>
      /\ Objects' = Objects \cup {o}
      /\ {n \in Addr \ Objects : tt'[n] \notin {"free", "string", "upval"}} =
            IF kind = "string" THEN {} ELSE {o}
  BY CreatedValid
<1>5. \A a \in Objects : a \in Addr /\ a # o /\ tt'[a] = tt[a] /\ mark'[a] = mark[a]
  BY <1>3, <1>4 DEF Objects
<1>6. \A n \in Addr \ Objects : tt'[n] # "free" => n = o
  BY <1>4 DEF Objects
<1>7. \A n \in Addr \ Objects : tt'[n] = "free" => mark'[n] = mark[n]
  BY <1>4, <1>5
<1>8. ASSUME NEW a \in Objects', NEW b \in Objects', tt'[a] = "string", tt'[b] = "string",
             text'[a] = text'[b]
      PROVE  a = b
  <2>1. \A c \in Objects : tt[c] = "string" /\ kind = "string" => text[c] # text'[o]
    BY DEF SameText
  <2>2. CASE a \in Objects /\ b \in Objects
    BY <1>5, <1>8, <2>2 DEF IInv, TypeOK
  <2>3. CASE a = o \/ b = o
    BY <1>4, <1>5, <1>8, <2>1, <2>3
  <2> QED BY <1>4, <2>2, <2>3
<1>9. Grows(o)
  BY ZenonT(60), <1>3, <1>4, <1>5, <1>6, <1>7, <1>8 DEF Grows
<1> QED BY <1>4, <1>9, Growth

(* A new table is white; where the sweep has been it stays so.             *)
LEMMA NewTableStep == ASSUME IInv, NewTable PROVE IInv'
<1>1. PICK o \in First(Free), says \in Attributes :
    /\ Create("table", o)
    /\ link(o) /\ Push(o)
    /\ meta' = [meta EXCEPT ![o] = nil] /\ attr' = [attr EXCEPT ![o] = says]
    /\ key' = [key EXCEPT ![o] = nil] /\ val' = [val EXCEPT ![o] = nil]
    /\ UNCHANGED <<upvals, text, finalized, called>>
  BY DEF NewTable
<1>2. o \in Free /\ says \in SUBSET Sayings
  BY FirstIn, MemoryAssumption
<1>3. /\ o \in Addr /\ o \notin Objects /\ o # L /\ o \notin rootgc /\ L \in Addr
      /\ Typed /\ o \in Values /\ \A a \in Objects : a \in Addr /\ a # o
  BY <1>2, Fresh_, FieldTypes DEF Values, IInv, Objects
<1>4. /\ tt' \in [Addr -> Types] /\ mark' \in [Addr -> {"white0", "white1", "gray", "black"}]
      /\ currentwhite' = currentwhite
  BY <1>1, <1>2, CreatedValid
<1>5. /\ stack' \in [Addr -> Seq(Values)]
      /\ stack'[L] = Append(stack[L], o)
      /\ \A a \in Addr \ {L} : stack'[a] = stack[a]
  BY <1>1, <1>3, PushTyped
<1>6. Typed'
  BY <1>1, <1>2, <1>3, <1>4, <1>5 DEF Typed, upvals
<1>7. rootgc' = rootgc \cup {o} /\ sweepgc' = ahead({o}, rootgc, sweepgc)
  BY <1>1 DEF link
<1>8. /\ sweepgc \subseteq sweepgc' /\ sweepgc' \subseteq sweepgc \cup (rootgc' \ rootgc)
      /\ gcstate = "sweepstring" => sweepgc' = rootgc'
      /\ ~Sweeping => sweepgc' = sweepgc
  BY <1>3, <1>7, LinkedAhead
<1>9. /\ \A a \in Objects : /\ meta'[a] = meta[a] /\ attr'[a] = attr[a]
                            /\ key'[a] = key[a] /\ val'[a] = val[a] /\ upval'[a] = upval[a]
                            /\ thread'[a] = thread[a] /\ level'[a] = level[a] /\ text'[a] = text[a]
      /\ meta'[o] = nil /\ key'[o] = nil /\ val'[o] = nil
      /\ finalized' = finalized /\ called' = called
  BY <1>1, <1>3 DEF Typed, upvals
<1>10. finalized' \in SUBSET Addr /\ called' \in SUBSET finalized'
  BY <1>9 DEF IInv, TypeOK
<1> QED BY <1>1, <1>2, <1>3, <1>5, <1>6, <1>7, <1>8, <1>9, <1>10, CreationGrows

(* A new userdata comes behind the main thread in the list of objects.     *)
LEMMA NewUdataStep == ASSUME IInv, NewUdata PROVE IInv'
<1>1. PICK o \in First(Free) :
    /\ Create("userdata", o) /\ Push(o)
    /\ rootgc' = rootgc \cup {o}
    /\ \/ sweepgc' = sweepgc \cup {o} /\ gcstate \in {"sweepstring", "sweep"}
       \/ UNCHANGED sweepgc /\ Main \notin sweepgc
    /\ meta' = [meta EXCEPT ![o] = nil]
    /\ finalized' = finalized \ {o} /\ called' = called \ {o}
    /\ UNCHANGED <<attr, key, val, upvals, text>>
  BY DEF NewUdata
<1>2. o \in Free
  BY FirstIn
<1>3. /\ o \in Addr /\ o \notin Objects /\ o # L /\ o \notin rootgc /\ L \in Addr
      /\ Typed /\ o \in Values /\ \A a \in Objects : a \in Addr /\ a # o
  BY <1>2, Fresh_, FieldTypes DEF Values, IInv, Objects
<1>4. /\ tt' \in [Addr -> Types] /\ mark' \in [Addr -> {"white0", "white1", "gray", "black"}]
      /\ currentwhite' = currentwhite
  BY <1>1, <1>2, CreatedValid
<1>5. /\ stack' \in [Addr -> Seq(Values)]
      /\ stack'[L] = Append(stack[L], o)
      /\ \A a \in Addr \ {L} : stack'[a] = stack[a]
  BY <1>1, <1>3, PushTyped
<1>6. Typed'
  BY <1>1, <1>3, <1>4, <1>5 DEF Typed, upvals
<1>8. /\ sweepgc \subseteq sweepgc' /\ sweepgc' \subseteq sweepgc \cup (rootgc' \ rootgc)
      /\ gcstate = "sweepstring" => sweepgc' = rootgc'
      /\ ~Sweeping => sweepgc' = sweepgc
  BY <1>1, <1>3, MainListed DEF IInv, SweepInv, Sweeping
<1>9. /\ \A a \in Objects : /\ meta'[a] = meta[a] /\ attr'[a] = attr[a]
                            /\ key'[a] = key[a] /\ val'[a] = val[a] /\ upval'[a] = upval[a]
                            /\ thread'[a] = thread[a] /\ level'[a] = level[a] /\ text'[a] = text[a]
                            /\ (a \in finalized' <=> a \in finalized)
                            /\ (a \in called' <=> a \in called)
      /\ meta'[o] = nil
  BY <1>1, <1>3 DEF Typed, upvals
<1>10. finalized' \in SUBSET Addr /\ called' \in SUBSET finalized'
  BY <1>1 DEF IInv, TypeOK
<1> QED BY <1>1, <1>2, <1>3, <1>5, <1>6, <1>8, <1>9, <1>10, CreationGrows

(* A new thread has an empty stack.                                        *)
LEMMA NewThreadStep == ASSUME IInv, NewThread PROVE IInv'
<1>1. PICK o \in First(Free) :
    /\ Create("thread", o)
    /\ link(o)
    /\ stack' = [stack EXCEPT ![L] = Append(@, o), ![o] = <<>>]
    /\ UNCHANGED <<entries, upvals, text, finalized, called>>
  BY DEF NewThread
<1>2. o \in Free
  BY FirstIn
<1>3. /\ o \in Addr /\ o \notin Objects /\ o # L /\ o \notin rootgc /\ L \in Addr
      /\ Typed /\ o \in Values /\ \A a \in Objects : a \in Addr /\ a # o
  BY <1>2, Fresh_, FieldTypes DEF Values, IInv, Objects
<1>4. /\ tt' \in [Addr -> Types] /\ mark' \in [Addr -> {"white0", "white1", "gray", "black"}]
      /\ currentwhite' = currentwhite
  BY <1>1, <1>2, CreatedValid
<1>5. /\ stack' \in [Addr -> Seq(Values)]
      /\ stack'[L] = Append(stack[L], o) /\ stack'[o] = <<>>
      /\ \A a \in Addr \ {L, o} : stack'[a] = stack[a]
  <2>1. Append(stack[L], o) \in Seq(Values) /\ <<>> \in Seq(Values)
    BY <1>3 DEF Typed
  <2>2. stack' = [[stack EXCEPT ![L] = Append(stack[L], o)] EXCEPT ![o] = <<>>]
    BY <1>1
  <2> QED BY <1>3, <2>1, <2>2 DEF Typed
<1>6. Typed'
  BY <1>1, <1>3, <1>4, <1>5 DEF Typed, upvals, entries
<1>7. rootgc' = rootgc \cup {o} /\ sweepgc' = ahead({o}, rootgc, sweepgc)
  BY <1>1 DEF link
<1>8. /\ sweepgc \subseteq sweepgc' /\ sweepgc' \subseteq sweepgc \cup (rootgc' \ rootgc)
      /\ gcstate = "sweepstring" => sweepgc' = rootgc'
      /\ ~Sweeping => sweepgc' = sweepgc
  BY <1>3, <1>7, LinkedAhead
<1>9. /\ \A a \in Objects : /\ meta'[a] = meta[a] /\ attr'[a] = attr[a]
                            /\ key'[a] = key[a] /\ val'[a] = val[a] /\ upval'[a] = upval[a]
                            /\ thread'[a] = thread[a] /\ level'[a] = level[a] /\ text'[a] = text[a]
      /\ finalized' = finalized /\ called' = called
  BY <1>1, <1>3 DEF Typed, upvals, entries
<1>10. finalized' \in SUBSET Addr /\ called' \in SUBSET finalized'
  BY <1>9 DEF IInv, TypeOK
<1> QED BY <1>1, <1>2, <1>3, <1>5, <1>6, <1>7, <1>8, <1>9, <1>10, CreationGrows

(* luaS_newlstr: a string that is dead but not yet swept is white again    *)
(* when it is found.                                                       *)
LEMMA NewStringStep == ASSUME IInv, NewString PROVE IInv'
<1>0. Typed /\ L \in Addr /\ L \in Objects
  BY FieldTypes, RunningThread DEF IInv, Alive
<1>1. PICK s \in Texts :
    \/ \E o \in First(Free) :
       /\ SameText(s) = {}
       /\ Create("string", o) /\ Push(o)
       /\ text' = [text EXCEPT ![o] = s]
       /\ UNCHANGED <<entries, upvals, finalized, called, rootgc, sweepgc>>
    \/ \E a \in SameText(s) :
       /\ Mutating /\ "string" \in Kinds /\ Room
       /\ mark' = Resurrected(a) /\ Push(a)
       /\ UNCHANGED <<tt, entries, upvals, text, finalized, called, rootgc, lists, sweepgc, running>>
  BY DEF NewString
<1>2. ASSUME NEW o \in First(Free), SameText(s) = {}, Create("string", o), Push(o),
             text' = [text EXCEPT ![o] = s],
             UNCHANGED <<entries, upvals, finalized, called, rootgc, sweepgc>>
      PROVE  IInv'
  <2>2. o \in Free
    BY FirstIn
  <2>3. /\ o \in Addr /\ o \notin Objects /\ o # L /\ o \in Values
        /\ \A a \in Objects : a \in Addr /\ a # o
    BY <2>2, Fresh_ DEF Values, Objects
  <2>4. /\ tt' \in [Addr -> Types] /\ mark' \in [Addr -> {"white0", "white1", "gray", "black"}]
        /\ currentwhite' = currentwhite
    BY <1>2, <2>2, CreatedValid
  <2>5. /\ stack' \in [Addr -> Seq(Values)]
        /\ stack'[L] = Append(stack[L], o)
        /\ \A a \in Addr \ {L} : stack'[a] = stack[a]
    BY <1>0, <1>2, <2>3, PushTyped
  <2>6. s \in Nat
    BY DEF Texts
  <2>7. Typed' /\ text'[o] = s /\ \A a \in Objects : text'[a] = text[a]
    BY <1>0, <1>2, <2>3, <2>4, <2>5, <2>6 DEF Typed, upvals, entries
  <2>8. gcstate = "sweepstring" => sweepgc' = rootgc'
    BY <1>2 DEF IInv, SweepInv
  <2>9. /\ \A a \in Objects : /\ meta'[a] = meta[a] /\ attr'[a] = attr[a]
                              /\ key'[a] = key[a] /\ val'[a] = val[a] /\ upval'[a] = upval[a]
                              /\ thread'[a] = thread[a] /\ level'[a] = level[a]
        /\ finalized' = finalized /\ called' = called
    BY <1>2 DEF upvals, entries
  <2>10. finalized' \in SUBSET Addr /\ called' \in SUBSET finalized'
    BY <2>9 DEF IInv, TypeOK
  <2> QED BY <1>2, <2>2, <2>3, <2>5, <2>7, <2>8, <2>9, <2>10, CreationGrows
<1>3. ASSUME NEW a \in SameText(s), Mutating, mark' = Resurrected(a), Push(a),
             UNCHANGED <<tt, entries, upvals, text, finalized, called, rootgc, lists, sweepgc, running>>
      PROVE  IInv'
  <2>1. a \in Addr /\ a \in Objects /\ tt[a] = "string" /\ a \in Values
    BY DEF SameText, Objects, Values
  <2>2. /\ stack' \in [Addr -> Seq(Values)]
        /\ stack'[L] = Append(stack[L], a)
        /\ \A b \in Addr \ {L} : stack'[b] = stack[b]
    BY <1>0, <1>3, <2>1, PushTyped
  <2>3. currentwhite' = currentwhite /\ atomic = "no"
        /\ UNCHANGED <<tmudata, gcstate, sweepstrgc, atomic, full>>
    BY <1>3 DEF Mutating
  <2>4. /\ mark' \in [Addr -> {"white0", "white1", "gray", "black"}]
        /\ \A b \in Addr : mark'[b] = mark[b] \/ (b = a /\ isdead(a) /\ mark'[b] = currentwhite)
        /\ mark'[a] # Other(currentwhite)
    BY <1>0, <1>3, <2>1, TwoWhites DEF Resurrected, Typed, isdead
  <2>5. Typed'
    BY <1>0, <1>3, <2>2, <2>3, <2>4 DEF Typed, upvals, entries
  <2>6. a \in Valid'
    BY <1>3, <2>1, <2>3, <2>4 DEF Valid, Alive, Objects, isdead, Values
  <2>7. Grows(a)
    <3>1. \A n \in Addr \ Objects : tt[n] = "free"
      BY DEF Objects
    <3>2. rootgc' = rootgc \cup {n \in Addr \ Objects : tt'[n] \notin {"free", "string", "upval"}}
      BY <1>3, <3>1
    <3>3. \A b \in Objects : b \in Addr
      BY DEF Objects
    <3>4. \A b, c \in Objects' : tt'[b] = "string" /\ tt'[c] = "string" /\ text'[b] = text'[c] => b = c
      BY <1>3 DEF IInv, TypeOK, Objects
    <3>5. gcstate = "sweepstring" => sweepgc' = rootgc'
      BY <1>3 DEF IInv, SweepInv
    <3>6. \A n \in Addr \ Objects : mark'[n] = mark[n]
      BY <2>1, <2>4
    <3>7. /\ \A b \in Objects : /\ tt'[b] = tt[b] /\ meta'[b] = meta[b] /\ attr'[b] = attr[b]
                                /\ key'[b] = key[b] /\ val'[b] = val[b] /\ upval'[b] = upval[b]
                                /\ thread'[b] = thread[b] /\ level'[b] = level[b] /\ text'[b] = text[b]
          /\ finalized' = finalized /\ called' = called /\ sweepgc' = sweepgc
      BY <1>3 DEF upvals, entries
    <3> QED BY <1>3, <2>1, <2>2, <2>3, <2>4, <3>1, <3>2, <3>3, <3>4, <3>5, <3>6, <3>7 DEF Grows
  <2> QED BY <1>3, <2>3, <2>5, <2>6, <2>7, Growth DEF IInv, TypeOK
<1> QED BY <1>1, <1>2, <1>3

(* A closure, and the upvalue that it shares or gets.                      *)
LEMMA ClosureGrows ==
  ASSUME IInv, NEW u \in Addr, NEW c \in Free, c # u, NEW old, Mutating,
         old \in [Addr -> {"white0", "white1", "gray", "black"}],
         Closed(u, c, old),
         thread' \in [Addr -> Addr \cup {nil}], level' \in [Addr -> Nat],
         \A a \in Addr \ {u} : thread'[a] = thread[a] /\ level'[a] = level[a] /\ old[a] = mark[a],
         \/ /\ u \in OpenUpvals(L) /\ thread' = thread /\ level' = level
            /\ old[u] = IF isdead(u) THEN currentwhite ELSE mark[u]
         \/ /\ u \in Free /\ thread'[u] = L /\ level'[u] \in DOMAIN stack[L]
            /\ old[u] = currentwhite
  PROVE  IInv'
<1>0. /\ Typed /\ Other(currentwhite) # currentwhite
  BY FieldTypes, TwoWhites DEF IInv
<1>1. /\ tt' = [[tt EXCEPT ![u] = "upval"] EXCEPT ![c] = "function"]
      /\ mark' = [old EXCEPT ![c] = currentwhite]
      /\ upval' = [upval EXCEPT ![c] = u]
      /\ rootgc' = rootgc \cup {c} /\ sweepgc' = ahead({c}, rootgc, sweepgc)
      /\ Push(c)
      /\ UNCHANGED <<entries, text, finalized, called, lists, running>>
  BY DEF Closed, link
<1>2. /\ UNCHANGED <<tmudata, gcstate, currentwhite, sweepstrgc, atomic, full>>
      /\ currentwhite' = currentwhite /\ atomic = "no"
  BY DEF Mutating
<1>3. /\ c \in Addr /\ c \notin Objects /\ c # L /\ c \notin rootgc /\ L \in Addr /\ L \in Objects
      /\ c \in Values /\ L # nil /\ tt[c] = "free" /\ tt[L] = "thread"
  BY Fresh_ DEF Values, Free
<1>4. /\ stack' \in [Addr -> Seq(Values)]
      /\ stack'[L] = Append(stack[L], c)
      /\ \A a \in Addr \ {L} : stack'[a] = stack[a]
  BY <1>0, <1>1, <1>3, PushTyped
<1>5. /\ tt' \in [Addr -> Types] /\ tt'[u] = "upval" /\ tt'[c] = "function"
      /\ \A a \in Addr \ {u, c} : tt'[a] = tt[a]
  <2>1. [tt EXCEPT ![u] = "upval"] \in [Addr -> Types]
    BY <1>0 DEF Typed, Types
  <2> QED BY <1>0, <1>1, <1>3, <2>1 DEF Typed, Types
<1>6. /\ mark' \in [Addr -> {"white0", "white1", "gray", "black"}]
      /\ mark'[c] = currentwhite /\ mark'[u] = old[u]
      /\ \A a \in Addr \ {u, c} : mark'[a] = mark[a]
  BY <1>0, <1>1, <1>3 DEF Typed
<1>7. /\ upval' \in [Addr -> Addr \cup {nil}] /\ upval'[c] = u
      /\ \A a \in Addr \ {c} : upval'[a] = upval[a]
  BY <1>0, <1>1, <1>3 DEF Typed
<1>8. Typed'
  BY <1>0, <1>1, <1>2, <1>4, <1>5, <1>6, <1>7 DEF Typed, entries
<1>9. c \in Valid'
  BY <1>0, <1>2, <1>3, <1>5, <1>6 DEF Valid, Alive, Objects, isdead
<1>10. /\ sweepgc \subseteq sweepgc' /\ sweepgc' \subseteq sweepgc \cup (rootgc' \ rootgc)
       /\ gcstate = "sweepstring" => sweepgc' = rootgc'
       /\ ~Sweeping => sweepgc' = sweepgc
  BY <1>1, <1>3, LinkedAhead
<1>11. mark'[u] # Other(currentwhite)
  BY <1>0, <1>6 DEF isdead
<1>12. \/ /\ u \in Objects /\ isopen(u) /\ thread[u] = L /\ tt[u] = "upval"
          /\ mark'[u] = mark[u] \/ (isdead(u) /\ mark'[u] = currentwhite)
          /\ thread' = thread /\ level' = level
       \/ /\ u \notin Objects /\ mark'[u] = currentwhite
          /\ thread'[u] = L /\ level'[u] \in DOMAIN stack[L]
  BY <1>6 DEF OpenUpvals, isopen, Objects, Free
<1>13. Grows(c)
  <2>1. \A a \in Objects : a \in Addr /\ a # c
    BY <1>3 DEF Objects
  <2>2. \A a \in Objects : stack'[a] = stack[a] \/ (a = L /\ stack'[a] = Append(stack[a], c))
    BY <1>4, <2>1
  <2>3. \A a \in Objects : /\ tt'[a] = tt[a] /\ meta'[a] = meta[a] /\ attr'[a] = attr[a]
                           /\ key'[a] = key[a] /\ val'[a] = val[a] /\ upval'[a] = upval[a]
                           /\ thread'[a] = thread[a] /\ level'[a] = level[a] /\ text'[a] = text[a]
                           /\ a \in finalized' <=> a \in finalized
                           /\ a \in called' <=> a \in called
    BY <1>1, <1>5, <1>7, <1>12, <2>1 DEF entries
  <2>4. \A a \in Objects : \/ mark'[a] = mark[a]
                           \/ isdead(a) /\ mark'[a] = currentwhite /\ isopen(a) /\ thread[a] = L
    BY <1>6, <1>12, <2>1
  <2>5. \A n \in Addr \ Objects : tt'[n] = "free" \/ n = u \/ n = c
    BY <1>5 DEF Objects
  <2>6. \A n \in Addr \ Objects : tt'[n] = "free" => mark'[n] = mark[n]
    BY <1>5, <1>6
  <2>7. rootgc' = rootgc \cup {n \in Addr \ Objects : tt'[n] \notin {"free", "string", "upval"}}
    BY <1>1, <1>3, <1>5, <2>5
  <2>8. \A a, b \in Objects' : tt'[a] = "string" /\ tt'[b] = "string" /\ text'[a] = text'[b] => a = b
    <3>1. \A a \in Objects' : tt'[a] = "string" => a \in Objects /\ tt[a] = "string" /\ text'[a] = text[a]
      BY <1>1, <1>5 DEF Objects
    <3> QED BY <3>1 DEF IInv, TypeOK
  <2>9. ASSUME NEW n \in Addr \ Objects, tt'[n] # "free"
        PROVE  /\ mark'[n] = currentwhite
               /\ tt'[n] \in {"function", "upval"}
               /\ tt'[n] = "function" => upval'[n] = u
               /\ tt'[n] = "upval" => thread'[n] = L /\ level'[n] \in DOMAIN stack[L]
    BY <1>3, <1>5, <1>6, <1>7, <1>12, <2>5, <2>9
  <2> QED BY ZenonT(60), <1>1, <1>2, <1>5, <1>10, <1>11, <2>2, <2>3, <2>4, <2>6, <2>7, <2>8, <2>9 DEF Grows
<1> QED BY <1>1, <1>2, <1>8, <1>9, <1>13, Growth DEF IInv, TypeOK

(* OP_CLOSURE: an open upvalue that is dead but not yet swept is white     *)
(* again when it is found.                                                 *)
LEMMA NewClosureStep == ASSUME IInv, NewClosure PROVE IInv'
<1>0. Typed /\ L \in Addr
  BY FieldTypes, RunningThread DEF IInv
<1>1. PICK n \in DOMAIN stack[L] :
    /\ Mutating
    /\ \/ \E u \in {x \in OpenUpvals(L) : level[x] = n}, c \in First(Free) :
          Closed(u, c, Resurrected(u)) /\ UNCHANGED <<thread, level>>
       \/ \E u \in First(Free) : \E c \in First(Free \ {u}) :
          /\ Closed(u, c, [mark EXCEPT ![u] = currentwhite])
          /\ thread' = [thread EXCEPT ![u] = L]
          /\ level' = [level EXCEPT ![u] = n]
  BY DEF NewClosure
<1>2. ASSUME NEW u \in OpenUpvals(L), NEW c \in First(Free),
             Closed(u, c, Resurrected(u)), UNCHANGED <<thread, level>>
      PROVE  IInv'
  <2>1. c \in Free /\ u \in Addr /\ c # u
    BY FirstIn DEF OpenUpvals, isopen, Free
  <2>2. /\ Resurrected(u) \in [Addr -> {"white0", "white1", "gray", "black"}]
        /\ Resurrected(u)[u] = (IF isdead(u) THEN currentwhite ELSE mark[u])
        /\ \A a \in Addr \ {u} : Resurrected(u)[a] = mark[a]
    BY <1>0, <2>1 DEF Resurrected, Typed
  <2> QED BY <1>0, <1>1, <1>2, <2>1, <2>2, ClosureGrows DEF Typed
<1>3. ASSUME NEW u \in First(Free), NEW c \in First(Free \ {u}),
             Closed(u, c, [mark EXCEPT ![u] = currentwhite]),
             thread' = [thread EXCEPT ![u] = L], level' = [level EXCEPT ![u] = n]
      PROVE  IInv'
  <2>1. c \in Free /\ u \in Free /\ u \in Addr /\ c # u
    BY FirstIn DEF Free
  <2>2. n \in Nat
    BY <1>0, LenProperties DEF Typed
  <2>3. /\ [mark EXCEPT ![u] = currentwhite] \in [Addr -> {"white0", "white1", "gray", "black"}]
        /\ [mark EXCEPT ![u] = currentwhite][u] = currentwhite
        /\ \A a \in Addr \ {u} : [mark EXCEPT ![u] = currentwhite][a] = mark[a]
    BY <1>0, <2>1 DEF Typed
  <2>4. /\ thread' \in [Addr -> Addr \cup {nil}] /\ level' \in [Addr -> Nat]
        /\ thread'[u] = L /\ level'[u] = n
        /\ \A a \in Addr \ {u} : thread'[a] = thread[a] /\ level'[a] = level[a]
    BY <1>0, <1>3, <2>1, <2>2 DEF Typed
  <2> QED BY <1>1, <1>3, <2>1, <2>3, <2>4, ClosureGrows
<1> QED BY <1>1, <1>2, <1>3

-----------------------------------------------------------------------------
(***************************************************************************)
(* Marking.  From the colours m, the objects in S are marked, and those    *)
(* that marking them comes to: what gets black refers to nothing white.    *)
(***************************************************************************)
Colours == {"white0", "white1", "gray", "black"}
DarkIn(m, v) == v \in Addr => m[v] \notin Whites
(* What reallymarkobject makes of the colours.                             *)
LEMMA Marking ==
  ASSUME Typed, HeapInv, NEW m \in [Addr -> Colours], NEW S, \A o \in S \cap Addr : o \in Alive,
         NEW m2, m2 = reallymarkobject(m, S)
  PROVE  /\ m2 \in [Addr -> Colours]
         /\ \A a \in Addr : m2[a] = m[a] \/ (m[a] \in Whites /\ a \in Alive /\ m2[a] \in {"gray", "black"})
         /\ \A v \in S : DarkIn(m2, v)
         /\ \A a \in Addr : m[a] \in Whites /\ m2[a] = "black" =>
               /\ tt[a] \in {"userdata", "upval"}
               /\ tt[a] = "userdata" => DarkIn(m2, meta[a])
               /\ tt[a] = "upval" => a \in S /\ ~isopen(a) /\ DarkIn(m2, UpvalValue(a))
         /\ \A a \in Addr : m[a] \in Whites /\ m2[a] = "gray" =>
               \/ a \in Queued(m, S)
               \/ tt[a] = "string"
               \/ a \in S /\ isopen(a) /\ DarkIn(m2, UpvalValue(a))
         /\ \A a \in Queued(m, S) : a \in Alive /\ a \in Addr /\ m[a] \in Whites /\ m2[a] = "gray"
                                    /\ tt[a] \in {"table", "function", "thread"}
<1> DEFINE us == {u \in WhiteOf(m, S) : tt[u] = "upval"}
           vs == S \cup {UpvalValue(u) : u \in us}
           ds == {d \in WhiteOf(m, vs) : tt[d] = "userdata"}
           all == vs \cup {meta[d] : d \in ds}
<1> HIDE DEF us, vs, ds, all
<1>0. Reached(m, S) = WhiteOf(m, all)
  BY DEF Reached, us, vs, ds, all
<1>1. \A a : a \in WhiteOf(m, all) <=> a \in all /\ a \in Addr /\ m[a] \in Whites
  BY DEF WhiteOf
<1>2. /\ "gray" \notin Whites /\ "black" \notin Whites
      /\ \A a \in Addr : /\ m2[a] = IF a \notin Reached(m, S) THEN m[a]
                              ELSE IF tt[a] = "userdata" \/ (tt[a] = "upval" /\ ~isopen(a)) THEN "black"
                              ELSE "gray"
      /\ m2 \in [Addr -> Colours]
  BY DEF Whites, reallymarkobject, Colours
<1>3. \A v \in all : DarkIn(m2, v)
  BY <1>0, <1>1, <1>2 DEF DarkIn
<1>4. ASSUME NEW u \in us PROVE u \in S /\ u \in Addr /\ UpvalValue(u) \in Valid /\ UpvalValue(u) \in vs
  <2>1. u \in S /\ u \in Addr /\ tt[u] = "upval" /\ UpvalValue(u) \in vs
    BY DEF us, vs, WhiteOf
  <2>2. u \in Alive
    BY <2>1
  <2> QED BY <2>1, <2>2 DEF HeapInv, Sound
<1>5. ASSUME NEW v \in vs, v \in Addr PROVE v \in Alive /\ (tt[v] = "upval" => v \in S)
  <2>1. CASE v \in S
    BY <1>5, <2>1
  <2>2. CASE v \notin S
    <3>1. PICK u \in us : v = UpvalValue(u)
      BY <2>2 DEF vs
    <3> QED BY <1>4, <1>5, <3>1 DEF Valid
  <2> QED BY <2>1, <2>2
<1>6. ASSUME NEW d \in ds PROVE d \in vs /\ d \in Addr /\ meta[d] \in AliveTables \cup {nil} /\ meta[d] \in all
  <2>1. d \in vs /\ d \in Addr /\ tt[d] = "userdata" /\ meta[d] \in all
    BY DEF ds, all, WhiteOf
  <2>2. d \in Alive
    BY <1>5, <2>1
  <2> QED BY <2>1, <2>2 DEF HeapInv, Sound
<1>7. ASSUME NEW a \in all, a \in Addr PROVE a \in Alive /\ (a \in vs \/ tt[a] = "table")
  <2>1. CASE a \in vs
    BY <1>5, <1>7, <2>1
  <2>2. CASE a \notin vs
    <3>1. PICK d \in ds : a = meta[d]
      BY <2>2 DEF all
    <3> QED BY <1>6, <1>7, <3>1 DEF AliveTables, Typed
  <2> QED BY <2>1, <2>2
<1>8. \A a \in Addr : m2[a] = m[a] \/ (m[a] \in Whites /\ a \in Alive /\ m2[a] \in {"gray", "black"})
  BY <1>0, <1>1, <1>2, <1>7
<1>9. S \subseteq all
  BY DEF all, vs
<1>10. ASSUME NEW a \in Addr, m[a] \in Whites, tt[a] = "upval", a \in all
       PROVE  a \in S /\ DarkIn(m2, UpvalValue(a))
  <2>1. a \in S
    BY <1>5, <1>7, <1>10
  <2>2. a \in us
    BY <1>10, <2>1 DEF us, WhiteOf
  <2>3. UpvalValue(a) \in all
    BY <1>4, <2>2 DEF all
  <2> QED BY <1>3, <2>1, <2>3
<1>11. ASSUME NEW a \in Addr, m[a] \in Whites, tt[a] = "userdata", a \in all
       PROVE  DarkIn(m2, meta[a])
  <2>1. a \in ds
    BY <1>7, <1>11 DEF ds, WhiteOf
  <2> QED BY <1>3, <1>6, <2>1
<1>12. \A a \in Addr : m[a] \in Whites /\ m2[a] = "black" =>
               /\ tt[a] \in {"userdata", "upval"}
               /\ tt[a] = "userdata" => DarkIn(m2, meta[a])
               /\ tt[a] = "upval" => a \in S /\ ~isopen(a) /\ DarkIn(m2, UpvalValue(a))
  BY <1>0, <1>1, <1>2, <1>10, <1>11
<1>13. \A a \in Alive : tt[a] \in {"table", "userdata", "function", "upval", "thread", "string"} /\ a \in Addr
  BY DEF Alive, Objects, Typed, Types
<1>14. \A a \in Addr : m[a] \in Whites /\ m2[a] = "gray" =>
               \/ a \in Queued(m, S)
               \/ tt[a] = "string"
               \/ a \in S /\ isopen(a) /\ DarkIn(m2, UpvalValue(a))
  BY <1>0, <1>1, <1>2, <1>7, <1>10, <1>13 DEF Queued
<1>15. \A a \in Queued(m, S) : a \in Alive /\ a \in Addr /\ m[a] \in Whites /\ m2[a] = "gray"
                                    /\ tt[a] \in {"table", "function", "thread"}
  BY <1>0, <1>1, <1>2, <1>7 DEF Queued
<1> QED BY <1>2, <1>3, <1>8, <1>9, <1>12, <1>14, <1>15

-----------------------------------------------------------------------------
(***************************************************************************)
(* Assignments.                                                            *)
(***************************************************************************)
(* An assignment leaves who is alive; the colours change as the barriers   *)
(* change them.                                                            *)
Assigned ==
    /\ Mutating
    /\ UNCHANGED <<tt, attr, upvals, text, finalized, called, rootgc, weak, sweepgc, running>>
    /\ \A a \in Addr : \/ mark'[a] = mark[a]
                       \/ ~iswhite(a) /\ mark'[a] \in {"gray", currentwhite}
                       \/ gcstate = "propagate" /\ iswhite(a) /\ mark'[a] \in {"gray", "black"} /\ a \in Objects

(* An assignment leaves everybody alive who is.                            *)
LEMMA AliveAssigned ==
  ASSUME IInv, Assigned
  PROVE  /\ Alive' = Alive /\ AliveTables' = AliveTables /\ Valid' = Valid
         /\ Objects' = Objects /\ L' = L
         /\ \A a \in Addr : isopen(a)' <=> isopen(a)
         /\ \A a \in Objects : isdead(a)' <=> isdead(a)
<1>0. /\ Typed /\ Other(currentwhite) # currentwhite /\ currentwhite \in Whites
      /\ Other(currentwhite) \in Whites /\ "gray" \notin Whites /\ "black" \notin Whites
  BY FieldTypes, TwoWhites DEF IInv
<1>1. /\ tt' = tt /\ currentwhite' = currentwhite /\ thread' = thread /\ running' = running
      /\ gcstate' = gcstate
  BY DEF Assigned, Mutating, upvals
<1>2. Objects' = Objects /\ L' = L /\ \A a \in Addr : isopen(a)' <=> isopen(a)
  BY <1>1 DEF Objects, L, isopen
<1>3. gcstate = "propagate" => \A a \in Objects : ~isdead(a)
  BY DEF IInv, SweepInv, Sweeping
<1>4. \A a \in Objects : isdead(a)' <=> isdead(a)
  BY <1>0, <1>1, <1>3 DEF Assigned, isdead, iswhite, Objects
<1>5. Alive' = Alive
  BY <1>2, <1>4 DEF Alive
<1> QED BY <1>1, <1>2, <1>4, <1>5 DEF Valid, AliveTables

(* What an assignment must respect: colours only change as the barriers    *)
(* change them, and the object assigned to stays sound.                    *)
LEMMA AssignmentKeeps ==
  ASSUME IInv, Assigned, Typed', gray' \in SUBSET Addr, grayagain' \in SUBSET Addr,
         \A a \in Addr : /\ tt[a] = "thread" => mark'[a] # "black"
                         /\ tt[a] = "userdata" => mark'[a] # "gray"
                         /\ isopen(a) => mark'[a] # "black",
         \A o \in Alive : Sound(o)',
         \A s \in Addr : DOMAIN stack'[s] = DOMAIN stack[s] /\ \A j \in DOMAIN stack[s] :
            (\A u \in Addr : isopen(u) /\ thread[u] = s => level[u] # j) => stack'[s][j] = stack[s][j],
         MarkInv'
  PROVE  IInv'
<1> USE DEF IInv
<1>0. Typed /\ Other(currentwhite) # currentwhite /\ Other(currentwhite) \in Whites
      /\ currentwhite \in Whites /\ "gray" \notin Whites /\ "black" \notin Whites
  BY FieldTypes, TwoWhites
<1>1. /\ UNCHANGED <<tt, attr, upval, thread, level, text, finalized, called, rootgc, weak, sweepgc, running,
                     tmudata, gcstate, currentwhite, sweepstrgc, atomic, full>>
      /\ atomic = "no"
  BY DEF Assigned, Mutating, upvals
<1>2. /\ Alive' = Alive /\ AliveTables' = AliveTables /\ Valid' = Valid
      /\ Objects' = Objects /\ L' = L
      /\ \A a \in Addr : isopen(a)' <=> isopen(a)
      /\ \A a \in Objects : isdead(a)' <=> isdead(a)
  BY AliveAssigned
<1>3. HeapInv'
  BY <1>2 DEF HeapInv
<1>4. OpenInv'
  BY <1>1, <1>2 DEF OpenInv
<1>5. RunningInv'
  <2>1. \A s \in Objects : s \in Addr
    BY DEF Objects
  <2> QED BY <1>1, <1>2, <2>1, RunningKept
<1>6. TmuInv'
  BY <1>1, <1>2, TmuKept
<1>7. SweepInv'
  <2>1. gcstate # "propagate" =>
            \A a \in Objects' : mark'[a] = currentwhite \/ (a \in Objects /\ mark[a] # currentwhite)
    BY <1>0, <1>2 DEF Assigned, iswhite, Objects
  <2>2. rootgc' \subseteq Objects' /\ \A u \in Addr : isopen(u) => u \in Objects
    BY <1>1, <1>2 DEF TypeOK, isopen, Objects
  <2>3. gcstate = "sweepstring" => sweepgc' = rootgc'
    BY <1>1 DEF SweepInv
  <2>4. \A s \in Objects' : tt'[s] = "string" => s \in Objects /\ tt[s] = "string" /\ text'[s] = text[s]
    BY <1>1, <1>2
  <2> QED BY <1>0, <1>1, <1>2, <2>1, <2>2, <2>3, <2>4, SweepKept
<1>8. ColourInv'
  <2>1. \A a \in Addr : tt[a] = "free" => iswhite(a)'
    BY <1>0, <1>1 DEF Assigned, ColourInv, iswhite, Objects
  <2> QED BY <1>1, <2>1 DEF ColourInv, isblack
<1>9. TypeOK'
  <2>1. rootgc' \cup tmudata' = {a \in Objects' : tt'[a] # "string" /\ ~isopen(a)'}
    <3>1. rootgc \cup tmudata = {a \in Objects : tt[a] # "string" /\ ~isopen(a)}
      BY DEF TypeOK
    <3>2. \A a \in Objects : a \in Addr
      BY DEF Objects
    <3> QED BY <1>1, <1>2, <3>1, <3>2
  <2>2. \A a, b \in Objects' : tt'[a] = "string" /\ tt'[b] = "string" /\ text'[a] = text'[b] => a = b
    BY <1>1, <1>2 DEF TypeOK
  <2>3. /\ mark' \in [Addr -> Whites' \cup {"gray", "black"}] /\ currentwhite' \in Whites'
    BY DEF Typed, Whites
  <2> QED BY <1>1, <2>1, <2>2, <2>3 DEF TypeOK, Typed
<1> QED BY <1>3, <1>4, <1>5, <1>6, <1>7, <1>8, <1>9

(* The barriers change the colours so.                                     *)
LEMMA BackBarrier ==
  ASSUME IInv, NEW t \in AliveTables, NEW vs, barriert(t, vs)
  PROVE  /\ mark' \in [Addr -> {"white0", "white1", "gray", "black"}]
         /\ t \in Addr /\ grayagain' \in SUBSET Addr
         /\ \A a \in Addr \ {t} : mark'[a] = mark[a]
         /\ \/ mark'[t] = mark[t] /\ grayagain' = grayagain /\ mark' = mark
               /\ (isblack(t) => \A v \in vs \cap Addr : ~iswhite(v))
            \/ isblack(t) /\ mark'[t] = "gray" /\ grayagain' = grayagain \cup {t}
BY ZenonT(60), FieldTypes DEF barriert, Crossing, Typed, AliveTables, Alive, Objects, IInv, TypeOK

(* What luaC_barrierf does to the colours.                                 *)
LEMMA ForwardBarrier ==
  ASSUME IInv, NEW o \in Alive, NEW v \in Valid, barrier(o, v)
  PROVE  /\ mark' \in [Addr -> {"white0", "white1", "gray", "black"}]
         /\ o \in Addr /\ gray' \in SUBSET Addr
         /\ ~Crossing(o, {v}) => mark' = mark /\ gray' = gray
         /\ Crossing(o, {v}) /\ gcstate = "propagate" =>
               mark' = reallymarkobject(mark, {v}) /\ gray' = gray \cup Queued(mark, {v})
         /\ Crossing(o, {v}) /\ gcstate # "propagate" =>
               /\ gray' = gray /\ mark'[o] = currentwhite /\ ~iswhite(o)
               /\ \A a \in Addr \ {o} : mark'[a] = mark[a]
<1>1. Typed /\ HeapInv /\ o \in Addr /\ gray \in SUBSET Addr /\ "black" \notin Whites
  BY FieldTypes DEF IInv, Alive, Objects, TypeOK, Whites
<1>2. CASE ~Crossing(o, {v})
  BY <1>1, <1>2 DEF barrier, Typed
<1>3. CASE Crossing(o, {v}) /\ gcstate = "propagate"
  <2>1. mark \in [Addr -> Colours] /\ \A a \in {v} \cap Addr : a \in Alive
    BY <1>1 DEF Typed, Valid, Colours
  <2>2. mark' = reallymarkobject(mark, {v}) /\ gray' = gray \cup Queued(mark, {v})
    BY <1>3 DEF barrier, Mark
  <2>3. mark' \in [Addr -> Colours] /\ \A a \in Queued(mark, {v}) : a \in Addr
    BY <1>1, <2>1, <2>2, Marking
  <2> QED BY <1>1, <1>3, <2>2, <2>3 DEF Colours
<1>4. CASE Crossing(o, {v}) /\ gcstate # "propagate"
  <2>1. mark' = [mark EXCEPT ![o] = currentwhite] /\ gray' = gray
    BY <1>4 DEF barrier
  <2>2. ~iswhite(o)
    BY <1>1, <1>4 DEF Crossing, isblack, iswhite
  <2> QED BY <1>1, <1>4, <2>1, <2>2 DEF Typed
<1> QED BY <1>2, <1>3, <1>4

(* Values on the stack of the running thread.                              *)
LEMMA OnStack ==
  ASSUME IInv, NEW v \in InStack(L)
  PROVE  v \in Valid /\ v \in Values /\ (v \in Addr => v \in Alive /\ v \in Objects)
BY RunningThread DEF IInv, InStack, Valid, Alive

(* luaV_settable, with luaC_barriert.                                      *)
LEMMA SetTableStep == ASSUME IInv, SetTable PROVE IInv'
<1> USE DEF IInv
<1>0. /\ Typed /\ Other(currentwhite) # currentwhite /\ currentwhite \in Whites
      /\ "gray" \notin Whites /\ "black" \notin Whites
  BY FieldTypes, TwoWhites
<1>1. PICK t \in Tables, k \in (InStack(L) \cup {number}) \ {nil}, v \in InStack(L) \cup {nil} :
    /\ Mutating
    /\ val[t] = nil \/ key[t] = k
    /\ v = nil => key[t] = k
    /\ key' = [key EXCEPT ![t] = k] /\ val' = [val EXCEPT ![t] = v]
    /\ barriert(t, IF key[t] = k THEN {v} ELSE {k, v})
    /\ UNCHANGED <<tt, meta, attr, upvals, stack, text, finalized, called, rootgc, gray, weak,
                   sweepgc, running>>
  BY DEF SetTable
<1>2. t \in AliveTables /\ t \in Addr /\ t \in Objects /\ tt[t] = "table"
  BY TablesAlive
<1>3. k \in Valid /\ v \in Valid /\ k \in Values /\ v \in Values
  BY OnStack, MemoryAssumption DEF Valid, Values
<1> DEFINE vs == IF key[t] = k THEN {v} ELSE {k, v}
<1> HIDE DEF vs
<1>4. /\ mark' \in [Addr -> {"white0", "white1", "gray", "black"}]
      /\ grayagain' \in SUBSET Addr
      /\ \A a \in Addr \ {t} : mark'[a] = mark[a]
      /\ \/ mark'[t] = mark[t] /\ grayagain' = grayagain /\ mark' = mark
            /\ (isblack(t) => \A x \in vs \cap Addr : ~iswhite(x))
         \/ isblack(t) /\ mark'[t] = "gray" /\ grayagain' = grayagain \cup {t}
  BY <1>1, <1>2, BackBarrier DEF vs
<1>5. Mutating /\ UNCHANGED <<tt, meta, attr, upval, thread, level, stack, text, finalized, called, rootgc,
                              gray, weak, sweepgc, running, gcstate, currentwhite, sweepstrgc, atomic, tmudata>>
      /\ atomic = "no"
  BY <1>1 DEF upvals, Mutating
<1>6. /\ key' \in [Addr -> Values] /\ val' \in [Addr -> Values] /\ key'[t] = k /\ val'[t] = v
      /\ \A a \in Addr \ {t} : key'[a] = key[a] /\ val'[a] = val[a]
  BY <1>0, <1>1, <1>2, <1>3 DEF Typed
<1>7. Typed'
  BY <1>0, <1>4, <1>5, <1>6 DEF Typed
<1>8. Assigned
  BY <1>0, <1>1, <1>2, <1>4 DEF Assigned, isblack, iswhite
<1>9. /\ Alive' = Alive /\ AliveTables' = AliveTables /\ Valid' = Valid
      /\ Objects' = Objects
      /\ \A a \in Addr : isopen(a)' <=> isopen(a)
  BY <1>8, AliveAssigned
<1>10. \A a \in Addr : /\ tt[a] = "thread" => mark'[a] # "black"
                       /\ tt[a] = "userdata" => mark'[a] # "gray"
                       /\ isopen(a) => mark'[a] # "black"
  BY <1>2, <1>4 DEF ColourInv, OpenInv, isblack
<1>11. ASSUME NEW o \in Alive PROVE Sound(o)'
  <2>1. Sound(o) /\ o \in Addr
    BY DEF HeapInv, Alive, Objects
  <2>2. CASE o = t
    BY <1>2, <1>3, <1>5, <1>6, <1>9, <2>1, <2>2 DEF Sound
  <2>3. CASE o # t
    <3>1. UpvalValue(o)' = UpvalValue(o)
      BY <1>5, <1>6, <1>9, <2>1, <2>3 DEF UpvalValue
    <3> QED BY <1>5, <1>6, <1>9, <2>1, <2>3, <3>1 DEF Sound
  <2> QED BY <2>2, <2>3
<1>12. MarkInv'
  <2> SUFFICES ASSUME gcstate = "propagate" PROVE MarkInv'
    BY <1>5 DEF MarkInv
  <2>0. ListInv /\ BlackInv
    BY DEF MarkInv
  <2>1. \A a \in Addr : ~iswhite(a) => ~iswhite(a)' /\ tt'[a] = tt[a]
    BY <1>0, <1>4, <1>5 DEF iswhite
  <2>2. ASSUME NEW o \in Objects' \ tmudata, isblack(o)'
        PROVE  AllDark(o)' \/
                  /\ isblack(o) /\ ~isopen(o) /\ meta'[o] = meta[o] /\ key'[o] = key[o]
                  /\ val'[o] = val[o] /\ upval'[o] = upval[o] /\ thread'[o] = thread[o]
    <3>1. o \in Addr /\ isblack(o) /\ ~isopen(o)
      BY <1>4, <1>9, <1>10, <2>2 DEF isblack, Objects
    <3>2. CASE o # t
      BY <1>5, <1>6, <3>1, <3>2
    <3>3. CASE o = t
      <4>1. mark' = mark /\ \A x \in vs \cap Addr : ~iswhite(x)
        BY <1>4, <2>2, <3>3 DEF isblack
      <4>2. AllDark(t)
        BY <1>2, <2>0, <2>2, <3>1, <3>3 DEF BlackInv
      <4>3. Dark(meta[t]) /\ Dark(key[t])
        BY <1>2, <4>2 DEF AllDark
      <4>4. Dark(k) /\ Dark(v)
        BY <4>1, <4>3 DEF vs, Dark
      <4>5. Dark(meta[t])' /\ Dark(key[t])' /\ Dark(val[t])'
        BY <1>5, <1>6, <4>1, <4>3, <4>4 DEF Dark, iswhite
      <4> QED BY <1>2, <1>5, <3>3, <4>5 DEF AllDark
    <3> QED BY <3>2, <3>3
  <2>3. weak' = weak /\ Listed \subseteq Listed' /\ \A o \in Listed' \ Listed : o = t /\ mark'[t] = "gray"
    BY <1>4, <1>5 DEF Listed
  <2>3a. Extended
    BY <1>4, <1>5 DEF Extended, isblack
  <2>4. ASSUME NEW o \in Listed PROVE mark'[o] = "gray"
    <3>1. o \in Addr /\ mark[o] = "gray"
      BY <2>0 DEF ListInv, Objects
    <3> QED BY <1>4, <3>1 DEF isblack
  <2>5. ASSUME NEW o \in Objects', mark'[o] = "gray"
        PROVE  (mark[o] = "gray" /\ (isopen(o) => isopen(o)')) \/ o \in Listed'
    <3>1. o \in Addr
      BY <1>9 DEF Objects
    <3> QED BY <1>4, <1>9, <2>5, <3>1 DEF Listed
  <2> QED BY <1>0, <1>2, <1>5, <1>9, <2>1, <2>2, <2>3, <2>3a, <2>4, <2>5, MarkKept
<1>13. gray' \in SUBSET Addr /\ \A s \in Addr : DOMAIN stack'[s] = DOMAIN stack[s] /\ stack'[s] = stack[s]
  BY <1>5 DEF TypeOK
<1> QED BY <1>4, <1>7, <1>8, <1>10, <1>11, <1>12, <1>13, AssignmentKeeps

(* lua_setmetatable, with luaC_objbarriert or luaC_objbarrier.             *)
LEMMA SetMetatableStep == ASSUME IInv, SetMetatable PROVE IInv'
<1> USE DEF IInv
<1>0. /\ Typed /\ Other(currentwhite) # currentwhite /\ currentwhite \in Whites
      /\ "gray" \notin Whites /\ "black" \notin Whites
  BY FieldTypes, TwoWhites
<1>1. PICK o \in InStack(L) \cap Addr, mt \in (Tables \ {Globals}) \cup {nil} :
    /\ Mutating
    /\ meta[o] # mt /\ meta' = [meta EXCEPT ![o] = mt]
    /\ \/ tt[o] = "table" /\ barriert(o, {mt}) /\ UNCHANGED gray
       \/ tt[o] = "userdata" /\ barrier(o, mt) /\ UNCHANGED grayagain
    /\ UNCHANGED <<tt, attr, key, val, upvals, stack, text, finalized, called, rootgc, weak,
                   sweepgc, running>>
  BY DEF SetMetatable
<1>2. o \in Alive /\ o \in Addr /\ o \in Objects
  BY OnStack
<1>3. mt \in AliveTables \cup {nil} /\ mt \in Valid /\ mt \in Addr \cup {nil}
  BY <1>0, TablesAlive DEF Valid, AliveTables, Typed
<1>4. Mutating /\ UNCHANGED <<tt, key, val, attr, upval, thread, level, stack, text, finalized, called, rootgc,
                              weak, sweepgc, running, gcstate, currentwhite, sweepstrgc, atomic, tmudata>>
      /\ atomic = "no"
  BY <1>1 DEF upvals, Mutating
<1>5. meta' \in [Addr -> Addr \cup {nil}] /\ meta'[o] = mt /\ \A a \in Addr \ {o} : meta'[a] = meta[a]
  BY <1>0, <1>1, <1>2, <1>3 DEF Typed
\* the colours after either barrier
<1>6. /\ mark' \in [Addr -> Colours] /\ gray' \in SUBSET Addr /\ grayagain' \in SUBSET Addr
      /\ \A a \in Addr : \/ mark'[a] = mark[a]
                         \/ a = o /\ ~iswhite(o) /\ mark'[o] = currentwhite /\ gcstate # "propagate"
                         \/ a = o /\ isblack(o) /\ tt[o] = "table" /\ mark'[o] = "gray"
                         \/ /\ gcstate = "propagate" /\ iswhite(a) /\ a = mt /\ mark'[a] = "gray"
      /\ gcstate = "propagate" =>
            /\ isblack(o)' => Dark(mt)'
            /\ Listed \subseteq Listed' /\ Extended
            /\ \A a \in Listed' \ Listed : a \in Objects /\ mark'[a] = "gray" /\ tt[a] = "table"
            /\ \A a \in Addr : mark'[a] = "gray" /\ mark[a] # "gray" => a \in Listed'
  <2>1. CASE tt[o] = "table" /\ barriert(o, {mt}) /\ UNCHANGED gray
    <3>1. o \in AliveTables
      BY <1>2, <2>1 DEF AliveTables
    <3>2. /\ mark' \in [Addr -> {"white0", "white1", "gray", "black"}]
          /\ grayagain' \in SUBSET Addr
          /\ \A a \in Addr \ {o} : mark'[a] = mark[a]
          /\ \/ mark'[o] = mark[o] /\ grayagain' = grayagain /\ mark' = mark
                /\ (isblack(o) => \A v \in {mt} \cap Addr : ~iswhite(v))
             \/ isblack(o) /\ mark'[o] = "gray" /\ grayagain' = grayagain \cup {o}
      BY <2>1, <3>1, BackBarrier
    <3>3. gray' = gray /\ weak' = weak /\ gray \in SUBSET Addr
      BY <1>4, <2>1 DEF TypeOK
    <3>4. isblack(o)' => Dark(mt)'
      BY <3>2 DEF isblack, Dark, iswhite
    <3>5. Extended
      BY <3>2, <3>3 DEF Extended, isblack
    <3> QED BY <1>2, <2>1, <3>2, <3>3, <3>4, <3>5 DEF Listed, Colours
  <2>2. CASE tt[o] = "userdata" /\ barrier(o, mt) /\ UNCHANGED grayagain
    <3>1. /\ mark' \in [Addr -> {"white0", "white1", "gray", "black"}]
          /\ gray' \in SUBSET Addr
          /\ ~Crossing(o, {mt}) => mark' = mark /\ gray' = gray
          /\ Crossing(o, {mt}) /\ gcstate = "propagate" =>
                mark' = reallymarkobject(mark, {mt}) /\ gray' = gray \cup Queued(mark, {mt})
          /\ Crossing(o, {mt}) /\ gcstate # "propagate" =>
                /\ gray' = gray /\ mark'[o] = currentwhite /\ ~iswhite(o)
                /\ \A a \in Addr \ {o} : mark'[a] = mark[a]
      BY <1>2, <1>3, <2>2, ForwardBarrier
    <3>2. grayagain' = grayagain /\ weak' = weak /\ grayagain \in SUBSET Addr
      BY <1>4, <2>2 DEF TypeOK
    <3>3. CASE ~Crossing(o, {mt})
      <4>1. isblack(o)' => Dark(mt)'
        BY <3>1, <3>3 DEF Crossing, isblack, Dark, iswhite
      <4> QED BY <3>1, <3>2, <3>3, <4>1 DEF Listed, Colours, Extended
    <3>4. CASE Crossing(o, {mt}) /\ gcstate # "propagate"
      BY <3>1, <3>2, <3>4 DEF Colours
    <3>5. CASE Crossing(o, {mt}) /\ gcstate = "propagate"
      <4>1. mt \in AliveTables /\ mt \in Addr /\ iswhite(mt) /\ tt[mt] = "table" /\ mt \in Alive
        BY <1>0, <1>3, <3>5 DEF Crossing, AliveTables, Typed
      <4>2. /\ mark' = reallymarkobject(mark, {mt}) /\ gray' = gray \cup Queued(mark, {mt})
            /\ mark \in [Addr -> Colours]
        BY <1>0, <3>1, <3>5 DEF Typed, Colours
      <4>3. Reached(mark, {mt}) = {mt}
        BY <4>1 DEF Reached, WhiteOf, iswhite
      <4>4. \A a \in Addr : mark'[a] = IF a = mt THEN "gray" ELSE mark[a]
        BY <4>1, <4>2, <4>3 DEF reallymarkobject
      <4>5. Queued(mark, {mt}) = {mt}
        BY <4>1, <4>3 DEF Queued
      <4>6. Listed' = Listed \cup {mt} /\ mt \in Objects
        BY <3>2, <4>1, <4>2, <4>5 DEF Listed, Alive
      <4>7. Dark(mt)'
        BY <1>0, <4>1, <4>4 DEF Dark, iswhite
      <4>8. Extended
        BY <1>0, <3>2, <4>1, <4>2, <4>5 DEF Extended, iswhite
      <4> QED BY <3>1, <3>2, <3>5, <4>1, <4>4, <4>6, <4>7, <4>8 DEF Colours
    <3> QED BY <3>3, <3>4, <3>5
  <2> QED BY <1>1, <2>1, <2>2
<1>7. tt[o] \in {"table", "userdata"}
  BY <1>1
<1>8. Typed'
  BY <1>0, <1>4, <1>5, <1>6 DEF Typed, Colours
<1>9. Assigned
  <2>1. mt \in Addr => mt \in Objects
    BY <1>0, <1>3 DEF AliveTables, Alive, Typed
  <2> QED BY <1>0, <1>1, <1>2, <1>6, <2>1 DEF Assigned, isblack, iswhite
<1>10. /\ Alive' = Alive /\ AliveTables' = AliveTables /\ Valid' = Valid
       /\ Objects' = Objects
       /\ \A a \in Addr : isopen(a)' <=> isopen(a)
  BY <1>9, AliveAssigned
<1>11. \A a \in Addr : /\ tt[a] = "thread" => mark'[a] # "black"
                       /\ tt[a] = "userdata" => mark'[a] # "gray"
                       /\ isopen(a) => mark'[a] # "black"
  <2>1. mt \in Addr => tt[mt] = "table"
    BY <1>0, <1>3 DEF AliveTables, Typed
  <2> QED BY <1>0, <1>6, <2>1 DEF ColourInv, OpenInv, isblack
<1>12. ASSUME NEW a \in Alive PROVE Sound(a)'
  <2>1. Sound(a) /\ a \in Addr
    BY DEF HeapInv, Alive, Objects
  <2>2. UpvalValue(a)' = UpvalValue(a)
    BY <1>4, <1>10, <2>1 DEF UpvalValue
  <2>3. meta'[a] = meta[a] \/ meta'[a] \in AliveTables \cup {nil}
    BY <1>3, <1>5, <2>1
  <2> QED BY <1>4, <1>10, <2>1, <2>2, <2>3 DEF Sound
<1>13. MarkInv'
  <2> SUFFICES ASSUME gcstate = "propagate" PROVE MarkInv'
    BY <1>4 DEF MarkInv
  <2>0. ListInv /\ BlackInv
    BY DEF MarkInv
  <2>1. \A a \in Addr : ~iswhite(a) => ~iswhite(a)' /\ tt'[a] = tt[a]
    BY <1>0, <1>4, <1>6 DEF iswhite
  <2>2. ASSUME NEW a \in Objects' \ tmudata, isblack(a)'
        PROVE  AllDark(a)' \/
                  /\ isblack(a) /\ ~isopen(a) /\ meta'[a] = meta[a] /\ key'[a] = key[a]
                  /\ val'[a] = val[a] /\ upval'[a] = upval[a] /\ thread'[a] = thread[a]
    <3>1. a \in Addr /\ isblack(a) /\ ~isopen(a)
      BY <1>0, <1>6, <1>10, <1>11, <2>2 DEF isblack, Objects
    <3>2. CASE a # o
      BY <1>4, <1>5, <3>1, <3>2
    <3>3. CASE a = o
      <4>1. Dark(meta[o])'
        BY <1>5, <1>6, <2>2, <3>3 DEF Dark
      <4>2. AllDark(o)
        BY <1>2, <2>0, <2>2, <3>1, <3>3 DEF BlackInv
      <4>3. tt[o] = "table" => Dark(key[o])' /\ Dark(val[o])'
        BY <1>4, <2>1, <4>2 DEF AllDark, Dark
      <4> QED BY <1>4, <1>7, <3>3, <4>1, <4>3 DEF AllDark
    <3> QED BY <3>2, <3>3
  <2>3. /\ weak' = weak /\ Listed \subseteq Listed' /\ Extended
        /\ \A a \in Listed' \ Listed : a \in Objects' /\ mark'[a] = "gray" /\ tt'[a] = "table"
    BY <1>4, <1>6, <1>10
  <2>4. ASSUME NEW a \in Listed PROVE mark'[a] = "gray"
    <3>1. a \in Addr /\ mark[a] = "gray"
      BY <2>0 DEF ListInv, Objects
    <3> QED BY <1>0, <1>6, <3>1 DEF isblack, iswhite
  <2>5. ASSUME NEW a \in Objects', mark'[a] = "gray"
        PROVE  (mark[a] = "gray" /\ (isopen(a) => isopen(a)')) \/ a \in Listed'
    <3>1. a \in Addr
      BY <1>10 DEF Objects
    <3> QED BY <1>6, <1>10, <2>5, <3>1
  <2> QED BY <1>0, <1>4, <2>1, <2>2, <2>3, <2>4, <2>5, MarkKept
<1>14. \A s \in Addr : DOMAIN stack'[s] = DOMAIN stack[s] /\ stack'[s] = stack[s]
  BY <1>4
<1> QED BY <1>6, <1>8, <1>9, <1>11, <1>12, <1>13, <1>14, AssignmentKeeps

(* A slot of a stack is assigned.                                          *)
LEMMA SlotAssigned ==
  ASSUME Typed, NEW s \in Addr, NEW n \in DOMAIN stack[s], NEW v \in Values,
         stack' = [stack EXCEPT ![s][n] = v]
  PROVE  /\ stack' \in [Addr -> Seq(Values)]
         /\ \A t \in Addr : DOMAIN stack'[t] = DOMAIN stack[t]
         /\ stack'[s][n] = v
         /\ \A t \in Addr : \A i \in DOMAIN stack[t] : t # s \/ i # n => stack'[t][i] = stack[t][i]
<1>1. stack[s] \in Seq(Values) /\ DOMAIN stack[s] = 1 .. Len(stack[s]) /\ Len(stack[s]) \in Nat
  BY LenProperties DEF Typed
<1> DEFINE new == [stack[s] EXCEPT ![n] = v]
<1>2. stack'[s] = new /\ \A t \in Addr \ {s} : stack'[t] = stack[t]
  BY DEF Typed
<1>3. new \in Seq(Values) /\ Len(new) = Len(stack[s]) /\ new[n] = v
      /\ \A i \in DOMAIN stack[s] \ {n} : new[i] = stack[s][i]
  BY <1>1, ExceptSeq
<1>4. DOMAIN new = DOMAIN stack[s]
  OBVIOUS
<1> HIDE DEF new
<1>5. stack' \in [Addr -> Seq(Values)]
  <2>1. stack' = [stack EXCEPT ![s] = new]
    BY DEF new
  <2> QED BY <1>3, <2>1 DEF Typed
<1> QED BY <1>2, <1>3, <1>4, <1>5

(* OP_SETUPVAL to an open upvalue changes a slot of some stack.            *)
LEMMA SetOpenUpval ==
  ASSUME IInv, NEW c \in Closures, NEW v \in InStack(L), NEW u, u = upval[c], isopen(u),
         Mutating, stack' = [stack EXCEPT ![thread[u]][level[u]] = v], barrier(u, v),
         UNCHANGED <<val, tt, meta, attr, key, upvals, text, finalized, called, rootgc, grayagain, weak,
                     sweepgc, running>>
  PROVE  IInv'
<1> USE DEF IInv
<1>0. /\ Typed /\ "gray" \notin Whites /\ "black" \notin Whites
  BY FieldTypes, TwoWhites
<1>1. u \in Alive /\ u \in Addr /\ v \in Valid /\ v \in Values
  BY ClosuresAlive, OnStack
<1>2. thread[u] \in Addr /\ level[u] \in DOMAIN stack[thread[u]] /\ mark[u] # "black"
  BY <1>1 DEF OpenInv
<1>3. mark' = mark /\ gray' = gray
  BY <1>2 DEF barrier, Crossing, isblack
<1>4. UNCHANGED <<val, tt, meta, attr, key, upval, thread, level, text, finalized, called, rootgc, grayagain, weak,
                  sweepgc, running, mark, gray, gcstate, currentwhite, sweepstrgc, atomic, tmudata>>
      /\ atomic = "no"
  BY <1>3 DEF upvals, Mutating
<1>5. /\ stack' \in [Addr -> Seq(Values)]
      /\ \A t \in Addr : DOMAIN stack'[t] = DOMAIN stack[t]
      /\ stack'[thread[u]][level[u]] = v
      /\ \A t \in Addr : \A i \in DOMAIN stack[t] : t # thread[u] \/ i # level[u] => stack'[t][i] = stack[t][i]
  BY <1>0, <1>1, <1>2, SlotAssigned
<1>6. Typed'
  BY <1>0, <1>4, <1>5 DEF Typed
<1>7. Assigned
  BY <1>4 DEF Assigned, upvals
<1>8. /\ Alive' = Alive /\ AliveTables' = AliveTables /\ Valid' = Valid
      /\ Objects' = Objects
      /\ \A a \in Addr : isopen(a)' <=> isopen(a)
  BY <1>7, AliveAssigned
<1>9. ASSUME NEW a \in Alive PROVE Sound(a)'
  <2>1. Sound(a) /\ a \in Addr
    BY DEF HeapInv, Alive, Objects
  <2>2. ASSUME tt[a] = "upval" PROVE UpvalValue(a)' \in Valid
    <3>1. UpvalValue(a) \in Valid
      BY <2>1, <2>2 DEF Sound
    <3>2. CASE isopen(a)
      <4>1. thread[a] \in Addr /\ level[a] \in DOMAIN stack[thread[a]]
        BY <2>1, <3>2 DEF OpenInv
      <4>2. UpvalValue(a) = stack[thread[a]][level[a]] /\ UpvalValue(a)' = stack'[thread[a]][level[a]]
        BY <1>4, <1>8, <2>1, <3>2 DEF UpvalValue
      <4> QED BY <1>1, <1>5, <3>1, <4>1, <4>2
    <3>3. CASE ~isopen(a)
      BY <1>4, <1>8, <2>1, <3>1, <3>3 DEF UpvalValue
    <3> QED BY <3>2, <3>3
  <2>3. ASSUME tt[a] = "thread" PROVE \A i \in DOMAIN stack'[a] : stack'[a][i] \in Valid
    <3>1. \A i \in DOMAIN stack[a] : stack[a][i] \in Valid
      BY <2>1, <2>3 DEF Sound
    <3> QED BY <1>1, <1>5, <2>1, <3>1
  <2> QED BY <1>4, <1>8, <2>1, <2>2, <2>3 DEF Sound
<1>10. \A s \in Addr : DOMAIN stack'[s] = DOMAIN stack[s] /\ \A j \in DOMAIN stack[s] :
            (\A x \in Addr : isopen(x) /\ thread[x] = s => level[x] # j) => stack'[s][j] = stack[s][j]
  BY <1>1, <1>5
<1>11. \A a \in Addr : /\ tt[a] = "thread" => mark'[a] # "black"
                       /\ tt[a] = "userdata" => mark'[a] # "gray"
                       /\ isopen(a) => mark'[a] # "black"
  BY <1>3 DEF ColourInv, OpenInv, isblack
<1>12. MarkInv'
  <2> SUFFICES ASSUME gcstate = "propagate" PROVE MarkInv'
    BY <1>4 DEF MarkInv
  <2>1. \A a \in Addr : ~iswhite(a) => ~iswhite(a)' /\ tt'[a] = tt[a]
    BY <1>4 DEF iswhite
  <2>2. ASSUME NEW a \in Objects' \ tmudata, isblack(a)'
        PROVE  /\ isblack(a) /\ ~isopen(a) /\ meta'[a] = meta[a] /\ key'[a] = key[a]
               /\ val'[a] = val[a] /\ upval'[a] = upval[a] /\ thread'[a] = thread[a]
    <3>1. a \in Addr /\ isblack(a) /\ ~isopen(a)
      BY <1>4, <1>8, <1>11, <2>2 DEF isblack, Objects
    <3> QED BY <1>4, <3>1
  <2>3. Listed' = Listed /\ weak' = weak /\ Extended
    BY <1>4 DEF Listed, Extended
  <2>4. \A a \in Listed : mark'[a] = "gray"
    BY <1>4 DEF MarkInv, ListInv
  <2>5. \A a \in Objects' : mark'[a] = "gray" => mark[a] = "gray" /\ (isopen(a) => isopen(a)')
    BY <1>4, <1>8 DEF Objects
  <2> QED BY <1>0, <1>4, <2>1, <2>2, <2>3, <2>4, <2>5, MarkKept
<1>13. gray' \in SUBSET Addr /\ grayagain' \in SUBSET Addr
  BY <1>4 DEF TypeOK
<1> QED BY <1>6, <1>7, <1>9, <1>10, <1>11, <1>12, <1>13, AssignmentKeeps

(* OP_SETUPVAL to a closed upvalue changes its own value.                  *)
LEMMA SetClosedUpval ==
  ASSUME IInv, NEW c \in Closures, NEW v \in InStack(L), NEW u, u = upval[c], ~isopen(u),
         Mutating, val' = [val EXCEPT ![u] = v], barrier(u, v),
         UNCHANGED <<stack, tt, meta, attr, key, upvals, text, finalized, called, rootgc, grayagain, weak,
                     sweepgc, running>>
  PROVE  IInv'
<1> USE DEF IInv
<1>0. /\ Typed /\ Other(currentwhite) # currentwhite /\ currentwhite \in Whites
      /\ "gray" \notin Whites /\ "black" \notin Whites
  BY FieldTypes, TwoWhites
<1>1. u \in Alive /\ u \in Addr /\ u \in Objects /\ tt[u] = "upval" /\ v \in Valid /\ v \in Values
  BY ClosuresAlive, OnStack DEF Alive
<1>2. /\ mark' \in [Addr -> {"white0", "white1", "gray", "black"}]
      /\ gray' \in SUBSET Addr
      /\ ~Crossing(u, {v}) => mark' = mark /\ gray' = gray
      /\ Crossing(u, {v}) /\ gcstate = "propagate" =>
            mark' = reallymarkobject(mark, {v}) /\ gray' = gray \cup Queued(mark, {v})
      /\ Crossing(u, {v}) /\ gcstate # "propagate" =>
            /\ gray' = gray /\ mark'[u] = currentwhite /\ ~iswhite(u)
            /\ \A a \in Addr \ {u} : mark'[a] = mark[a]
  BY <1>1, ForwardBarrier
<1>3. UNCHANGED <<stack, tt, meta, attr, key, upval, thread, level, text, finalized, called, rootgc, grayagain, weak,
                  sweepgc, running, gcstate, currentwhite, sweepstrgc, atomic, tmudata>>
      /\ atomic = "no" /\ grayagain \in SUBSET Addr
  BY DEF upvals, Mutating, TypeOK
<1>4. val' \in [Addr -> Values] /\ val'[u] = v /\ \A a \in Addr \ {u} : val'[a] = val[a]
  BY <1>0, <1>1 DEF Typed
<1>5. Typed'
  BY <1>0, <1>2, <1>3, <1>4 DEF Typed
\* in the mark phase the value is marked, if the upvalue is black
<1>6. CASE gcstate = "propagate"
  <2> DEFINE S == IF Crossing(u, {v}) THEN {v} ELSE {}
  <2> HIDE DEF S
  <2>1. mark \in [Addr -> Colours] /\ \A a \in S \cap Addr : a \in Alive
    BY <1>0, <1>1 DEF S, Typed, Colours, Valid
  <2>2. mark' = reallymarkobject(mark, S) /\ gray' = gray \cup Queued(mark, S)
    <3>1. CASE Crossing(u, {v})
      BY <1>2, <1>6, <3>1 DEF S
    <3>2. CASE ~Crossing(u, {v})
      <4>1. Reached(mark, {}) = {}
        BY DEF Reached, WhiteOf
      <4>2. Queued(mark, {}) = {} /\ reallymarkobject(mark, {}) = mark
        BY <1>0, <4>1 DEF Queued, reallymarkobject, Typed
      <4> QED BY <1>2, <3>2, <4>2 DEF S
    <3> QED BY <3>1, <3>2
  <2>3. /\ \A a \in Addr : mark'[a] = mark[a] \/ (mark[a] \in Whites /\ a \in Alive /\ mark'[a] \in {"gray", "black"})
        /\ \A x \in S : DarkIn(mark', x)
        /\ \A a \in Addr : mark[a] \in Whites /\ mark'[a] = "black" =>
               /\ tt[a] \in {"userdata", "upval"}
               /\ tt[a] = "userdata" => DarkIn(mark', meta[a])
               /\ tt[a] = "upval" => a \in S /\ ~isopen(a) /\ DarkIn(mark', UpvalValue(a))
        /\ \A a \in Addr : mark[a] \in Whites /\ mark'[a] = "gray" =>
               \/ a \in Queued(mark, S)
               \/ tt[a] = "string"
               \/ a \in S /\ isopen(a) /\ DarkIn(mark', UpvalValue(a))
        /\ \A a \in Queued(mark, S) : a \in Alive /\ a \in Addr /\ mark[a] \in Whites /\ mark'[a] = "gray"
                                      /\ tt[a] \in {"table", "function", "thread"}
    BY <1>0, <2>1, <2>2, Marking
  <2>4. Assigned
    BY <1>3, <2>3, <1>6 DEF Assigned, iswhite, upvals, Alive
  <2>5. /\ Alive' = Alive /\ AliveTables' = AliveTables /\ Valid' = Valid
        /\ Objects' = Objects
        /\ \A a \in Addr : isopen(a)' <=> isopen(a)
    BY <2>4, AliveAssigned
  <2>6. \A a \in S \cap Addr : tt[a] # "upval"
    BY <1>1 DEF S, Valid
  <2>7. \A a \in Addr : /\ tt[a] = "thread" => mark'[a] # "black"
                        /\ tt[a] = "userdata" => mark'[a] # "gray"
                        /\ isopen(a) => mark'[a] # "black"
    <3> SUFFICES ASSUME NEW a \in Addr
                 PROVE  /\ tt[a] = "thread" => mark'[a] # "black"
                        /\ tt[a] = "userdata" => mark'[a] # "gray"
                        /\ isopen(a) => mark'[a] # "black"
      OBVIOUS
    <3>1. /\ tt[a] = "thread" => mark[a] # "black"
          /\ tt[a] = "userdata" => mark[a] # "gray"
          /\ isopen(a) => mark[a] # "black"
      BY DEF ColourInv, OpenInv, isblack
    <3> QED BY <2>3, <3>1 DEF isopen
  <2>8. ASSUME NEW a \in Alive PROVE Sound(a)'
    <3>1. Sound(a) /\ a \in Addr
      BY DEF HeapInv, Alive, Objects
    <3>2. UpvalValue(a)' = IF a = u THEN v ELSE UpvalValue(a)
      BY <1>1, <1>3, <1>4, <2>5, <3>1 DEF UpvalValue
    <3> QED BY <1>1, <1>3, <1>4, <2>5, <3>1, <3>2 DEF Sound
  <2>9. MarkInv'
    <3>0. ListInv /\ BlackInv
      BY <1>6 DEF MarkInv
    <3>1. \A a \in Addr : ~iswhite(a) => ~iswhite(a)' /\ tt'[a] = tt[a]
      BY <1>3, <2>3 DEF iswhite
    <3>2. ASSUME NEW a \in Objects' \ tmudata, isblack(a)'
          PROVE  AllDark(a)' \/
                  /\ isblack(a) /\ ~isopen(a) /\ meta'[a] = meta[a] /\ key'[a] = key[a]
                  /\ val'[a] = val[a] /\ upval'[a] = upval[a] /\ thread'[a] = thread[a]
      <4>1. a \in Addr /\ a \in Objects /\ ~isopen(a) /\ mark'[a] = "black"
        BY <2>5, <2>7, <3>2 DEF isblack, Objects
      <4>2. CASE mark[a] # "black"
        <5>1. mark[a] \in Whites
          BY <2>3, <4>1, <4>2
        <5>2. tt[a] = "userdata" /\ DarkIn(mark', meta[a])
          BY <2>3, <2>6, <4>1, <5>1
        <5> QED BY <1>3, <5>2 DEF AllDark, Dark, DarkIn, iswhite
      <4>3. CASE mark[a] = "black" /\ a # u
        BY <1>3, <1>4, <4>1, <4>3 DEF isblack
      <4>4. CASE mark[a] = "black" /\ a = u
        <5>1. UpvalValue(a)' = v
          BY <1>1, <1>4, <2>5, <4>4, <4>1 DEF UpvalValue
        <5>2. Dark(v)'
          <6>1. CASE Crossing(u, {v})
            BY <2>3, <6>1 DEF S, DarkIn, Dark, iswhite
          <6>2. CASE ~Crossing(u, {v})
            BY <1>2, <4>4, <6>2 DEF Crossing, isblack, Dark, iswhite
          <6> QED BY <6>1, <6>2
        <5> QED BY <1>1, <1>3, <4>4, <5>1, <5>2 DEF AllDark
      <4> QED BY <4>2, <4>3, <4>4
    <3>3. Listed' = Listed \cup Queued(mark, S) /\ weak' = weak
      BY <1>3, <2>2 DEF Listed
    <3>4. \A a \in Listed' \ Listed : a \in Objects' /\ mark'[a] = "gray"
                                      /\ tt'[a] \in {"table", "function", "thread"}
      BY <1>3, <2>3, <2>5, <3>3 DEF Alive
    <3>4a. Extended
      BY <1>0, <1>3, <2>2, <2>3 DEF Extended
    <3>5. \A a \in Listed : mark'[a] = "gray" /\ a \in Listed'
      BY <1>0, <2>3, <3>0, <3>3 DEF ListInv, Objects
    <3>6. ASSUME NEW a \in Objects', mark'[a] = "gray"
          PROVE  \/ mark[a] = "gray" /\ (isopen(a) => isopen(a)')
                 \/ a \in Listed' \/ tt'[a] = "string" \/ isopen(a)'
      <4>1. a \in Addr
        BY <2>5 DEF Objects
      <4> QED BY <1>3, <2>3, <2>5, <3>3, <3>6, <4>1
    <3> QED BY <1>0, <1>3, <3>1, <3>2, <3>3, <3>4, <3>4a, <3>5, <3>6, MarkKept
  <2>10. \A s \in Addr : DOMAIN stack'[s] = DOMAIN stack[s] /\ stack'[s] = stack[s]
    BY <1>3
  <2> QED BY <1>2, <1>3, <1>5, <2>4, <2>7, <2>8, <2>9, <2>10, AssignmentKeeps
\* otherwise the upvalue is made white
<1>7. CASE gcstate # "propagate"
  <2>1. \A a \in Addr : mark'[a] = mark[a] \/ (a = u /\ ~iswhite(u) /\ mark'[a] = currentwhite)
    BY <1>2, <1>7
  <2>2. Assigned
    BY <1>3, <2>1 DEF Assigned, upvals
  <2>3. /\ Alive' = Alive /\ AliveTables' = AliveTables /\ Valid' = Valid
        /\ \A a \in Addr : isopen(a)' <=> isopen(a)
    BY <2>2, AliveAssigned
  <2>4. \A a \in Addr : /\ tt[a] = "thread" => mark'[a] # "black"
                        /\ tt[a] = "userdata" => mark'[a] # "gray"
                        /\ isopen(a) => mark'[a] # "black"
    BY <1>0, <1>1, <2>1 DEF ColourInv, OpenInv, isblack
  <2>5. ASSUME NEW a \in Alive PROVE Sound(a)'
    <3>1. Sound(a) /\ a \in Addr
      BY DEF HeapInv, Alive, Objects
    <3>2. UpvalValue(a)' = IF a = u THEN v ELSE UpvalValue(a)
      BY <1>1, <1>3, <1>4, <2>3, <3>1 DEF UpvalValue
    <3> QED BY <1>1, <1>3, <1>4, <2>3, <3>1, <3>2 DEF Sound
  <2>6. MarkInv' /\ \A s \in Addr : DOMAIN stack'[s] = DOMAIN stack[s] /\ stack'[s] = stack[s]
    BY <1>3, <1>7 DEF MarkInv
  <2> QED BY <1>2, <1>3, <1>5, <2>2, <2>4, <2>5, <2>6, AssignmentKeeps
<1> QED BY <1>6, <1>7

(* OP_SETUPVAL, with luaC_barrier.                                         *)
LEMMA SetUpvalStep == ASSUME IInv, SetUpval PROVE IInv'
<1>1. PICK c \in Closures, v \in InStack(L) :
        /\ Mutating
        /\ IF isopen(upval[c]) THEN stack' = [stack EXCEPT ![thread[upval[c]]][level[upval[c]]] = v] /\ UNCHANGED val
                        ELSE val' = [val EXCEPT ![upval[c]] = v] /\ UNCHANGED stack
        /\ barrier(upval[c], v)
        /\ UNCHANGED <<tt, meta, attr, key, upvals, text, finalized, called, rootgc, grayagain, weak,
                       sweepgc, running>>
  BY DEF SetUpval
<1>2. CASE isopen(upval[c])
  BY <1>1, <1>2, SetOpenUpval
<1>3. CASE ~isopen(upval[c])
  BY <1>1, <1>3, SetClosedUpval
<1> QED BY <1>2, <1>3

-----------------------------------------------------------------------------
(***************************************************************************)
(* A local variable goes out of scope.                                     *)
(***************************************************************************)
Closing == {u \in OpenUpvals(L) : level[u] = Len(stack[L])}
Freed == {u \in Closing : isdead(u)}
Kept  == Closing \ Freed
(* The upvalues that the last slot had take its value along; their values  *)
(* and those of the others are what they were.                             *)
LEMMA PopFields ==
  ASSUME IInv, stack[L] # <<>>, stack' = [stack EXCEPT ![L] = Popped(@)],
         tt' = With(tt, Freed, "free"), closeupvals(Kept, Freed),
         UNCHANGED <<meta, attr, key, upval, text, finalized, called, running>>
  PROVE  /\ tt' \in [Addr -> Types] /\ stack' \in [Addr -> Seq(Values)] /\ val' \in [Addr -> Values]
         /\ thread' \in [Addr -> Addr \cup {nil}] /\ level' \in [Addr -> Nat]
         /\ \A a \in Addr : tt'[a] = IF a \in Freed THEN "free" ELSE tt[a]
         /\ Objects' = Objects \ Freed
         /\ \A s \in Addr \ {L} : stack'[s] = stack[s]
         /\ \A i \in DOMAIN stack'[L] : i \in DOMAIN stack[L] /\ stack'[L][i] = stack[L][i]
         /\ \A u \in Closing : u \in Addr /\ u \in Objects /\ tt[u] = "upval" /\ isopen(u) /\ mark[u] # "black"
         /\ \A u \in Addr : isopen(u)' => /\ isopen(u) /\ u \notin Closing
                                          /\ thread'[u] = thread[u] /\ level'[u] = level[u]
                                          /\ level'[u] \in DOMAIN stack'[thread[u]]
         /\ \A u \in Addr \ Closing : /\ (isopen(u)' <=> isopen(u))
                                      /\ thread'[u] = thread[u] /\ val'[u] = val[u]
         /\ \A u \in Addr \ Freed : tt[u] = "upval" => UpvalValue(u)' = UpvalValue(u)
         /\ \A u \in Kept : ~isopen(u)' /\ val'[u] = UpvalValue(u)
<1> USE DEF IInv
<1>0. Typed /\ L \in Addr /\ nil \notin Addr /\ stack[L] \in Seq(Values) /\ tt[L] = "thread"
  BY FieldTypes, RunningThread DEF Typed
<1>1. \A u \in Closing : /\ u \in Addr /\ u \in Objects /\ tt[u] = "upval" /\ isopen(u) /\ mark[u] # "black"
                         /\ thread[u] = L /\ level[u] = Len(stack[L])
  BY DEF Closing, OpenUpvals, isopen, Objects, OpenInv
<1>2. /\ Len(stack[L]) \in Nat \ {0} /\ DOMAIN stack[L] = 1 .. Len(stack[L])
      /\ Popped(stack[L]) \in Seq(Values)
      /\ Len(Popped(stack[L])) = Len(stack[L]) - 1
      /\ DOMAIN Popped(stack[L]) = 1 .. Len(stack[L]) - 1
      /\ \A i \in 1 .. Len(stack[L]) - 1 : Popped(stack[L])[i] = stack[L][i]
  BY <1>0, LastRemoved, LenProperties DEF Popped
<1>3. /\ stack' \in [Addr -> Seq(Values)] /\ stack'[L] = Popped(stack[L])
      /\ \A s \in Addr \ {L} : stack'[s] = stack[s]
  BY <1>0, <1>2 DEF Typed
<1>4. /\ tt' \in [Addr -> Types] /\ \A a \in Addr : tt'[a] = IF a \in Freed THEN "free" ELSE tt[a]
  BY <1>0 DEF Typed, Types, With
<1>5. ASSUME NEW u \in Addr, isopen(u)
      PROVE  /\ thread[u] \in Addr /\ level[u] \in DOMAIN stack[thread[u]]
             /\ u \notin Closing => /\ level[u] \in DOMAIN stack'[thread[u]]
                                    /\ stack'[thread[u]][level[u]] = stack[thread[u]][level[u]]
  <2>1. thread[u] \in Addr /\ level[u] \in DOMAIN stack[thread[u]]
    BY <1>5 DEF OpenInv
  <2>2. u \notin Closing /\ thread[u] = L => level[u] # Len(stack[L])
    BY <1>5 DEF OpenUpvals, Closing
  <2> QED BY <1>2, <1>3, <2>1, <2>2
<1>6. /\ val' = [a \in Addr |-> IF a \in Kept THEN UpvalValue(a) ELSE IF a \in Freed THEN nil ELSE val[a]]
      /\ thread' = With(thread, Kept \cup Freed, nil)
      /\ level' = With(level, Kept \cup Freed, 0)
      /\ Kept \cup Freed = Closing
  BY DEF closeupvals, Kept, Freed
<1>6a. Kept \subseteq Closing /\ Freed \subseteq Closing /\ Kept = Closing \ Freed
  BY DEF Kept, Freed
<1>7. /\ thread' \in [Addr -> Addr \cup {nil}] /\ level' \in [Addr -> Nat]
      /\ \A a \in Addr : /\ thread'[a] = IF a \in Closing THEN nil ELSE thread[a]
                         /\ level'[a] = IF a \in Closing THEN 0 ELSE level[a]
  BY <1>0, <1>6 DEF Typed, With
<1>8. \A u \in Closing : UpvalValue(u) \in Values
  <2> SUFFICES ASSUME NEW u \in Closing PROVE UpvalValue(u) \in Values
    OBVIOUS
  <2>1. thread[u] \in Addr /\ level[u] \in DOMAIN stack[thread[u]] /\ isopen(u)
    BY <1>1, <1>5
  <2>2. stack[thread[u]] \in Seq(Values)
    BY <1>0, <2>1 DEF Typed
  <2>3. stack[thread[u]][level[u]] \in Values
    BY <2>1, <2>2, ElementOfSeq, LenProperties
  <2> QED BY <2>1, <2>3 DEF UpvalValue
<1>9. /\ val' \in [Addr -> Values]
      /\ \A u \in Kept : val'[u] = UpvalValue(u)
      /\ \A u \in Addr \ Closing : val'[u] = val[u]
  BY <1>0, <1>1, <1>6, <1>6a, <1>8 DEF Typed
<1>10. Objects' = Objects \ Freed
  BY <1>4 DEF Objects
<1>11. \A u \in Addr \ Closing : isopen(u)' <=> isopen(u)
  BY <1>4, <1>6a, <1>7 DEF isopen
<1>12. \A u \in Closing : ~isopen(u)'
  BY <1>1, <1>7 DEF isopen
<1>13. ASSUME NEW u \in Addr \ Freed, tt[u] = "upval" PROVE UpvalValue(u)' = UpvalValue(u)
  <2>1. CASE u \in Closing
    BY <1>6a, <1>9, <1>12, <2>1 DEF UpvalValue
  <2>2. CASE u \notin Closing /\ isopen(u)
    BY <1>5, <1>7, <1>11, <2>2 DEF UpvalValue
  <2>3. CASE u \notin Closing /\ ~isopen(u)
    <3>1. ~isopen(u)' /\ val'[u] = val[u]
      BY <1>9, <1>11, <2>3
    <3> QED BY <2>3, <3>1 DEF UpvalValue
  <2> QED BY <2>1, <2>2, <2>3
<1>14. \A i \in DOMAIN stack'[L] : i \in DOMAIN stack[L] /\ stack'[L][i] = stack[L][i]
  BY <1>2, <1>3
<1>15. \A u \in Addr : isopen(u)' => /\ isopen(u) /\ u \notin Closing
                                     /\ thread'[u] = thread[u] /\ level'[u] = level[u]
                                     /\ level'[u] \in DOMAIN stack'[thread[u]]
  BY <1>5, <1>7, <1>11, <1>12
<1>16. \A u \in Addr \ Closing : /\ (isopen(u)' <=> isopen(u))
                                  /\ thread'[u] = thread[u] /\ val'[u] = val[u]
  BY <1>7, <1>9, <1>11
<1>17. \A u \in Kept : ~isopen(u)' /\ val'[u] = UpvalValue(u)
  BY <1>6a, <1>9, <1>12
<1> QED BY <1>1, <1>3, <1>4, <1>7, <1>9, <1>10, <1>13, <1>14, <1>15, <1>16, <1>17

(* luaF_close, of the upvalues of the slot that is given up.               *)
LEMMA PopStep == ASSUME IInv, Pop PROVE IInv'
<1> USE DEF IInv
<1> DEFINE grays   == {u \in Kept : mark[u] = "gray"}
           S       == {UpvalValue(u) : u \in grays}
           painted == With(mark, grays, "black")
<1>0. /\ Typed /\ Other(currentwhite) # currentwhite /\ currentwhite \in Whites
      /\ Other(currentwhite) \in Whites
      /\ \A w \in Whites : w = currentwhite \/ w = Other(currentwhite)
      /\ "gray" \notin Whites /\ "black" \notin Whites
  BY FieldTypes, TwoWhites
<1>1. /\ Mutating /\ stack[L] # <<>>
      /\ stack' = [stack EXCEPT ![L] = Popped(@)]
      /\ tt' = With(tt, Freed, "free")
      /\ closeupvals(Kept, Freed)
      /\ rootgc' = rootgc \cup Kept /\ sweepgc' = ahead(Kept, rootgc, sweepgc)
      /\ gcstate = "propagate" => mark' = reallymarkobject(painted, S) /\ gray' = gray \cup Queued(painted, S)
      /\ gcstate # "propagate" =>
            mark' = With(With(mark, grays, currentwhite), Freed, "white0") /\ gray' = gray
      /\ UNCHANGED <<meta, attr, key, upval, text, finalized, called, grayagain, weak, running>>
  BY DEF Pop, linkupvals, Mark, Closing, Freed, Kept
<1>2. UNCHANGED <<meta, attr, key, upval, text, finalized, called, grayagain, weak, running,
                  gcstate, currentwhite, sweepstrgc, atomic, tmudata, full>>
      /\ atomic = "no"
  BY <1>1 DEF Mutating
<1>3. /\ tt' \in [Addr -> Types] /\ stack' \in [Addr -> Seq(Values)] /\ val' \in [Addr -> Values]
      /\ thread' \in [Addr -> Addr \cup {nil}] /\ level' \in [Addr -> Nat]
      /\ \A a \in Addr : tt'[a] = IF a \in Freed THEN "free" ELSE tt[a]
      /\ Objects' = Objects \ Freed
      /\ \A s \in Addr \ {L} : stack'[s] = stack[s]
      /\ \A i \in DOMAIN stack'[L] : i \in DOMAIN stack[L] /\ stack'[L][i] = stack[L][i]
      /\ \A u \in Closing : u \in Addr /\ u \in Objects /\ tt[u] = "upval" /\ isopen(u) /\ mark[u] # "black"
      /\ \A u \in Addr : isopen(u)' => /\ isopen(u) /\ u \notin Closing
                                       /\ thread'[u] = thread[u] /\ level'[u] = level[u]
                                       /\ level'[u] \in DOMAIN stack'[thread[u]]
      /\ \A u \in Addr \ Closing : /\ (isopen(u)' <=> isopen(u))
                                   /\ thread'[u] = thread[u] /\ val'[u] = val[u]
      /\ \A u \in Addr \ Freed : tt[u] = "upval" => UpvalValue(u)' = UpvalValue(u)
      /\ \A u \in Kept : ~isopen(u)' /\ val'[u] = UpvalValue(u)
  BY <1>1, PopFields
<1>4. Kept \subseteq Closing /\ Freed \subseteq Closing /\ Kept \cup Freed = Closing
      /\ (\A u \in Freed : isdead(u)) /\ (\A u \in Kept : ~isdead(u)) /\ grays \subseteq Kept
  BY DEF Kept, Freed
<1>5. gcstate = "propagate" => Freed = {} /\ \A a \in Objects : ~isdead(a)
  BY <1>3, <1>4 DEF SweepInv, Sweeping
<1>6. \A u \in Kept : u \in Alive /\ u \in Addr /\ tt[u] = "upval" /\ UpvalValue(u) \in Valid
  BY <1>3, <1>4 DEF Alive, HeapInv, Sound
\* marking, in the mark phase
<1>7. ASSUME gcstate = "propagate"
      PROVE  /\ mark' \in [Addr -> Colours]
             /\ \A u \in grays : mark'[u] = "black"
             /\ \A a \in Addr \ grays : mark'[a] = mark[a] \/ (mark[a] \in Whites /\ a \in Alive /\ mark'[a] \in {"gray", "black"})
             /\ \A v \in S : DarkIn(mark', v)
             /\ \A a \in Addr : mark[a] \in Whites /\ mark'[a] = "black" =>
                   tt[a] = "userdata" /\ DarkIn(mark', meta[a])
             /\ \A a \in Addr : mark[a] \in Whites /\ mark'[a] = "gray" => a \in Queued(painted, S) \/ tt[a] = "string"
             /\ \A a \in Queued(painted, S) : a \in Alive /\ a \in Addr /\ mark'[a] = "gray" /\ mark[a] # "gray"
                                           /\ tt[a] \in {"table", "function", "thread"}
  <2>1. painted \in [Addr -> Colours] /\ \A a \in Addr : painted[a] = IF a \in grays THEN "black" ELSE mark[a]
    BY <1>0 DEF Typed, Colours, With
  <2>2. \A v \in S \cap Addr : v \in Alive /\ tt[v] # "upval"
    BY <1>4, <1>6 DEF Valid
  <2> HIDE DEF S, painted, grays
  <2>3. mark' = reallymarkobject(painted, S)
    BY <1>1, <1>7
  <2>4. /\ mark' \in [Addr -> Colours]
        /\ \A a \in Addr : mark'[a] = painted[a] \/ (painted[a] \in Whites /\ a \in Alive /\ mark'[a] \in {"gray", "black"})
        /\ \A v \in S : DarkIn(mark', v)
        /\ \A a \in Addr : painted[a] \in Whites /\ mark'[a] = "black" =>
               /\ tt[a] \in {"userdata", "upval"}
               /\ tt[a] = "userdata" => DarkIn(mark', meta[a])
               /\ tt[a] = "upval" => a \in S /\ ~isopen(a) /\ DarkIn(mark', UpvalValue(a))
        /\ \A a \in Addr : painted[a] \in Whites /\ mark'[a] = "gray" =>
               \/ a \in Queued(painted, S)
               \/ tt[a] = "string"
               \/ a \in S /\ isopen(a) /\ DarkIn(mark', UpvalValue(a))
        /\ \A a \in Queued(painted, S) : a \in Alive /\ a \in Addr /\ painted[a] \in Whites /\ mark'[a] = "gray"
                                      /\ tt[a] \in {"table", "function", "thread"}
    BY <1>0, <2>1, <2>2, <2>3, Marking
  <2>5. \A u \in grays : mark'[u] = "black"
    BY <1>0, <1>4, <1>6, <2>1, <2>4
  <2>6. \A a \in Addr : mark[a] \in Whites => painted[a] \in Whites
    BY <1>0, <2>1 DEF grays
  <2>7. \A a \in Addr : mark[a] \in Whites /\ mark'[a] = "black" => tt[a] = "userdata" /\ DarkIn(mark', meta[a])
    BY <2>2, <2>4, <2>6
  <2>8. \A a \in Addr : mark[a] \in Whites /\ mark'[a] = "gray" => a \in Queued(painted, S) \/ tt[a] = "string"
    BY <2>2, <2>4, <2>6 DEF isopen
  <2>9. \A a \in Addr : painted[a] \in Whites => mark[a] # "gray"
    BY <1>0, <2>1
  <2> QED BY <2>1, <2>4, <2>5, <2>7, <2>8, <2>9
\* no marking, in the other phases
<1>8. ASSUME gcstate # "propagate"
      PROVE  /\ mark' \in [Addr -> Colours]
             /\ \A a \in Freed : mark'[a] \in Whites
             /\ \A a \in grays : mark'[a] = currentwhite
             /\ \A a \in Addr \ (Freed \cup grays) : mark'[a] = mark[a]
  <2>1. mark' = With(With(mark, grays, currentwhite), Freed, "white0")
    BY <1>1, <1>8
  <2>2. \A a \in grays : a \notin Freed
    BY DEF Kept
  <2> HIDE DEF grays
  <2>3. mark' \in [Addr -> Colours]
    BY <1>0, <2>1 DEF With, Typed, Colours
  <2>4. \A a \in Addr : mark'[a] = IF a \in Freed THEN "white0" ELSE IF a \in grays THEN currentwhite ELSE mark[a]
    BY <1>0, <2>1 DEF With
  <2>5. "white0" \in Whites /\ Freed \subseteq Addr /\ grays \subseteq Addr
    BY <1>3, <1>4 DEF Whites, grays
  <2> QED BY <2>2, <2>3, <2>4, <2>5
<1>9. mark' \in [Addr -> Colours]
  BY <1>7, <1>8
<1>10. Typed'
  BY <1>0, <1>2, <1>3, <1>9 DEF Typed, Colours
<1>11. \A a \in Addr \ Freed : isdead(a)' <=> isdead(a)
  <2>1. \A u \in grays : u \notin Freed /\ ~isdead(u)
    BY <1>4 DEF Kept
  <2>2. ASSUME gcstate = "propagate", NEW a \in Addr PROVE isdead(a)' <=> isdead(a)
    <3>1. mark'[a] = mark[a] \/ mark'[a] \in {"gray", "black"}
      BY <1>7, <2>2
    <3>2. mark'[a] # mark[a] => mark[a] # Other(currentwhite)
      BY <1>7, <2>1, <2>2 DEF isdead, Alive
    <3> QED BY <1>0, <1>2, <3>1, <3>2 DEF isdead
  <2>3. ASSUME gcstate # "propagate", NEW a \in Addr \ Freed PROVE isdead(a)' <=> isdead(a)
    BY <1>0, <1>2, <1>8, <2>1, <2>3 DEF isdead
  <2> QED BY <2>2, <2>3
<1>12. Alive' = Alive /\ \A a \in Alive : tt'[a] = tt[a] /\ a \in Addr /\ a \notin Freed
  BY <1>3, <1>4, <1>11 DEF Alive, Objects
<1>13. Valid' = Valid /\ AliveTables' = AliveTables
  BY <1>12 DEF Valid, AliveTables
<1>14. HeapInv'
  <2> SUFFICES ASSUME NEW a \in Alive PROVE Sound(a)'
    BY <1>12 DEF HeapInv
  <2>1. Sound(a) /\ a \in Addr /\ a \notin Freed /\ tt'[a] = tt[a]
    BY <1>12 DEF HeapInv
  <2>2. tt[a] # "upval" => val'[a] = val[a]
    BY <1>3, <2>1
  <2>3. tt[a] = "upval" => UpvalValue(a)' = UpvalValue(a)
    BY <1>3, <2>1
  <2>4. \A i \in DOMAIN stack'[a] : i \in DOMAIN stack[a] /\ stack'[a][i] = stack[a][i]
    BY <1>3, <2>1
  <2> QED BY <1>2, <1>12, <1>13, <2>1, <2>2, <2>3, <2>4 DEF Sound
<1>15. OpenInv'
  <2> SUFFICES ASSUME NEW u \in Addr, isopen(u)'
               PROVE  /\ thread'[u] \in Addr /\ tt'[thread'[u]] = "thread"
                      /\ level'[u] \in DOMAIN stack'[thread'[u]]
                      /\ mark'[u] # "black"
    BY DEF OpenInv
  <2>1. /\ isopen(u) /\ u \notin Closing /\ thread'[u] = thread[u]
        /\ level'[u] \in DOMAIN stack'[thread[u]]
    BY <1>3
  <2>2. thread[u] \in Addr /\ tt[thread[u]] = "thread" /\ mark[u] # "black" /\ tt[u] = "upval"
    BY <2>1 DEF OpenInv, isopen
  <2>3. tt'[thread[u]] = "thread"
    BY <1>3, <1>4, <2>2
  <2>4. mark'[u] # "black"
    <3>1. u \notin grays /\ u \notin Freed
      BY <1>4, <2>1
    <3>2. CASE gcstate = "propagate"
      BY <1>7, <2>2, <3>1, <3>2
    <3>3. CASE gcstate # "propagate"
      BY <1>8, <2>2, <3>1, <3>3
    <3> QED BY <3>2, <3>3
  <2> QED BY <2>1, <2>2, <2>3, <2>4
<1>16. RunningInv' /\ TmuInv'
  <2>1. \A s \in Objects \ {L} : stack'[s] = stack[s]
    BY <1>3 DEF Objects
  <2>2. \A u \in Addr : isopen(u)' => isopen(u) /\ thread'[u] = thread[u] /\ level'[u] = level[u]
    BY <1>3
  <2> QED BY <1>2, <1>12, <2>1, <2>2, RunningKept, TmuKept
<1>17. Kept \cap rootgc = {} /\ rootgc \subseteq Objects /\ Freed \cap rootgc = {}
  BY <1>3, <1>4 DEF TypeOK
<1>18. /\ sweepgc \subseteq sweepgc' /\ sweepgc' \subseteq sweepgc \cup (rootgc' \ rootgc)
       /\ gcstate = "sweepstring" => sweepgc' = rootgc'
       /\ ~Sweeping => sweepgc' = sweepgc
  BY <1>1, <1>17, LinkedAhead
<1>19. SweepInv'
  <2>1. \A a \in Objects' : a \in Objects /\ a \in Addr /\ a \notin Freed /\ tt'[a] = tt[a]
    BY <1>3 DEF Objects
  <2>2. gcstate # "propagate" => \A a \in Objects' : mark'[a] = currentwhite \/ mark[a] # currentwhite
    BY <1>8, <2>1
  <2>3. gcstate # "propagate" => \A a \in Kept : mark'[a] = currentwhite
    <3> SUFFICES ASSUME gcstate # "propagate", NEW a \in Kept PROVE mark'[a] = currentwhite
      OBVIOUS
    <3>1. a \in Addr /\ a \notin Freed /\ mark[a] # "black" /\ ~isdead(a)
      BY <1>3, <1>4 DEF Kept
    <3>2. mark[a] = "gray" \/ mark[a] = currentwhite
      BY <1>0, <3>1 DEF Typed, isdead, Whites
    <3> QED BY <1>8, <3>1, <3>2
  <2>4. \A u \in Addr : isopen(u)' => isopen(u) /\ thread'[u] = thread[u] /\ u \in Objects'
    BY <1>3, <1>4 DEF isopen, Objects
  <2>5. gcstate = "sweep" => \A o \in rootgc' : o \in rootgc \/ mark'[o] = currentwhite
    BY <1>1, <2>3
  <2>6. rootgc' \subseteq Objects'
    BY <1>1, <1>3, <1>4, <1>17 DEF Kept
  <2> QED BY <1>0, <1>2, <1>11, <1>18, <2>1, <2>2, <2>4, <2>5, <2>6, SweepKept
<1>20. MarkInv'
  <2> SUFFICES ASSUME gcstate = "propagate" PROVE MarkInv'
    BY <1>2 DEF MarkInv
  <2>0. ListInv /\ BlackInv /\ Freed = {} /\ Closing = Kept
    BY <1>4, <1>5 DEF MarkInv
  <2>1. \A a \in Addr : ~iswhite(a) => ~iswhite(a)' /\ tt'[a] = tt[a]
    BY <1>0, <1>3, <1>7, <2>0 DEF iswhite
  <2>2. ASSUME NEW a \in Objects' \ tmudata, isblack(a)'
        PROVE  AllDark(a)' \/
                  /\ isblack(a) /\ ~isopen(a) /\ meta'[a] = meta[a] /\ key'[a] = key[a]
                  /\ val'[a] = val[a] /\ upval'[a] = upval[a] /\ thread'[a] = thread[a]
    <3>1. a \in Addr /\ a \in Objects /\ tt'[a] = tt[a] /\ mark'[a] = "black"
      BY <1>3, <2>0, <2>2 DEF isblack, Objects
    <3>2. CASE a \in grays
      <4>1. a \in Kept /\ tt[a] = "upval" /\ ~isopen(a)' /\ val'[a] = UpvalValue(a)
        BY <1>3, <1>6, <3>2
      <4>2. UpvalValue(a)' \in S
        BY <3>2, <4>1 DEF UpvalValue
      <4>3. Dark(UpvalValue(a))'
        BY <1>7, <4>2 DEF DarkIn, Dark, iswhite
      <4> QED BY <3>1, <4>1, <4>3 DEF AllDark
    <3>3. CASE mark[a] \in Whites
      BY <1>2, <1>7, <3>1, <3>3 DEF AllDark, Dark, DarkIn, iswhite
    <3>4. CASE a \notin grays /\ mark[a] \notin Whites
      <4>1. isblack(a) /\ a \notin Closing
        BY <1>3, <1>7, <3>1, <3>4 DEF isblack
      <4>2. ~isopen(a)
        BY <3>1, <4>1 DEF OpenInv, isblack
      <4> QED BY <1>2, <1>3, <3>1, <4>1, <4>2
    <3> QED BY <3>2, <3>3, <3>4
  <2>3. Listed' = Listed \cup Queued(painted, S) /\ weak' = weak
    BY <1>1, <1>2 DEF Listed
  <2>4. \A a \in Listed' \ Listed : a \in Objects' /\ mark'[a] = "gray"
                                    /\ tt'[a] \in {"table", "function", "thread"}
    BY <1>7, <1>12, <2>3 DEF Alive
  <2>4a. Extended
    <3> QED BY <1>1, <1>2, <1>7 DEF Extended
  <2>5. \A a \in Listed : mark'[a] = "gray" /\ a \in Listed'
    <3> SUFFICES ASSUME NEW a \in Listed PROVE mark'[a] = "gray"
      BY <2>3
    <3>1. a \in Addr /\ mark[a] = "gray" /\ tt[a] # "upval"
      BY <2>0 DEF ListInv, Objects
    <3>2. a \notin grays
      BY <1>6, <3>1
    <3> QED BY <1>0, <1>7, <3>1, <3>2
  <2>6. ASSUME NEW a \in Objects', mark'[a] = "gray"
        PROVE  \/ mark[a] = "gray" /\ (isopen(a) => isopen(a)')
               \/ a \in Listed' \/ tt'[a] = "string" \/ isopen(a)'
    <3>1. a \in Addr /\ tt'[a] = tt[a] /\ a \notin grays
      BY <1>3, <1>7, <2>6 DEF Objects
    <3>2. CASE mark[a] = "gray"
      <4>1. a \notin Closing
        BY <2>0, <3>1, <3>2
      <4> QED BY <1>3, <3>1, <3>2, <4>1
    <3>3. CASE mark[a] # "gray"
      <4>1. a \in Queued(painted, S) \/ tt[a] = "string"
        BY <1>7, <2>6, <3>1, <3>3
      <4> QED BY <2>3, <3>1, <4>1
    <3> QED BY <3>2, <3>3
  <2> QED BY <1>0, <1>2, <2>1, <2>2, <2>3, <2>4, <2>4a, <2>5, <2>6, MarkKept
<1>21. ColourInv'
  <2>1. ASSUME NEW a \in Addr
        PROVE  /\ tt'[a] = "thread" => mark'[a] # "black"
               /\ tt'[a] = "userdata" => mark'[a] # "gray"
               /\ tt'[a] = "free" => mark'[a] \in Whites
    <3>0. /\ tt[a] = "thread" => mark[a] # "black"
          /\ tt[a] = "userdata" => mark[a] # "gray"
          /\ tt[a] = "free" => mark[a] \in Whites /\ a \notin Alive
      BY DEF ColourInv, isblack, iswhite, Alive, Objects
    <3>1. a \in grays => tt[a] = "upval" /\ tt'[a] = "upval"
      BY <1>6, <1>12
    <3>2. a \in Freed => tt'[a] = "free" /\ gcstate # "propagate"
      BY <1>3, <1>5
    <3>3. a \notin Freed => tt'[a] = tt[a]
      BY <1>3
    <3>4. CASE gcstate = "propagate"
      <4>1. \A x \in Queued(painted, S) : tt[x] \in {"table", "function", "thread"}
        BY <1>7, <3>4
      <4> QED BY <1>0, <1>7, <3>0, <3>1, <3>2, <3>3, <3>4, <4>1
    <3>5. CASE gcstate # "propagate"
      BY <1>0, <1>8, <3>0, <3>1, <3>2, <3>3, <3>5
    <3> QED BY <3>4, <3>5
  <2> QED BY <1>2, <2>1 DEF ColourInv, isblack, iswhite
<1>22. TypeOK'
  <2>1. rootgc' \cup tmudata' = {a \in Objects' : tt'[a] # "string" /\ ~isopen(a)'}
    <3>1. rootgc \cup tmudata = {a \in Objects : tt[a] # "string" /\ ~isopen(a)}
      BY DEF TypeOK
    <3>2. \A a \in Objects' : a \in Addr /\ tt'[a] = tt[a] /\ a \in Objects /\ a \notin Freed
      BY <1>3 DEF Objects
    <3>3. \A a \in Kept : a \in Objects' /\ tt'[a] # "string" /\ ~isopen(a)'
      BY <1>3, <1>6, <1>12 DEF Alive
    <3>4. \A a \in rootgc \cup tmudata : a \in Objects' /\ tt'[a] # "string" /\ ~isopen(a)'
      BY <1>3, <1>4, <3>1, <3>2
    <3>5. \A a \in Objects' : tt'[a] # "string" /\ ~isopen(a)' => a \in rootgc \cup tmudata \cup Kept
      BY <1>3, <1>4, <3>1, <3>2
    <3> QED BY <1>1, <1>2, <3>3, <3>4, <3>5
  <2>2. rootgc' \cap tmudata' = {}
    <3>1. tmudata \cap Kept = {}
      BY <1>3, <1>4 DEF TypeOK
    <3> QED BY <1>1, <1>2, <3>1 DEF TypeOK
  <2>3. \A a, b \in Objects' : tt'[a] = "string" /\ tt'[b] = "string" /\ text'[a] = text'[b] => a = b
    <3>1. \A a \in Objects' : tt'[a] = tt[a] /\ a \in Objects
      BY <1>3 DEF Objects
    <3> QED BY <1>2, <3>1 DEF TypeOK
  <2>4. /\ mark' \in [Addr -> Whites' \cup {"gray", "black"}] /\ currentwhite' \in Whites'
    BY <1>10 DEF Typed, Whites
  <2>5. gray' \in SUBSET Addr
    <3>1. gcstate = "propagate" => Queued(painted, S) \subseteq Addr
      BY <1>7
    <3> QED BY <1>1, <3>1 DEF TypeOK
  <2>6. sweepgc' \in SUBSET rootgc'
    BY <1>1, <1>18 DEF TypeOK
  <2> QED BY <1>2, <1>10, <2>1, <2>2, <2>3, <2>4, <2>5, <2>6 DEF TypeOK, Typed
<1> QED BY <1>14, <1>15, <1>16, <1>19, <1>20, <1>21, <1>22

-----------------------------------------------------------------------------
(***************************************************************************)
(* Coroutines.                                                             *)
(***************************************************************************)
(* The value goes from one stack to another; the slots below it, and those *)
(* of open upvalues, stay.                                                 *)
LEMMA HandedFields ==
  ASSUME IInv, NEW t \in Addr, t # L, Handed(t)
  PROVE  /\ stack' \in [Addr -> Seq(Values)] /\ stack[L] # <<>>
         /\ \A s \in Addr \ {L, t} : stack'[s] = stack[s]
         /\ \A i \in DOMAIN stack'[L] : i \in DOMAIN stack[L] /\ stack'[L][i] = stack[L][i]
         /\ \A i \in DOMAIN stack[t] : i \in DOMAIN stack'[t] /\ stack'[t][i] = stack[t][i]
         /\ \A i \in DOMAIN stack'[t] : i \in DOMAIN stack[t] \/ stack'[t][i] = stack[L][Len(stack[L])]
         /\ Len(stack[L]) \in DOMAIN stack[L]
         /\ \A i \in 1 .. Len(stack[L]) - 1 : i \in DOMAIN stack'[L] /\ stack'[L][i] = stack[L][i]
         /\ \A u \in Addr : isopen(u) => /\ level[u] \in DOMAIN stack'[thread[u]]
                                         /\ stack'[thread[u]][level[u]] = stack[thread[u]][level[u]]
<1> USE DEF IInv
<1>0. Typed /\ L \in Addr /\ stack[L] \in Seq(Values) /\ stack[t] \in Seq(Values)
  BY FieldTypes, RunningThread DEF Typed
<1> DEFINE last == stack[L][Len(stack[L])]
<1>1. /\ stack[L] # <<>>
      /\ \A u \in OpenUpvals(L) : level[u] < Len(stack[L])
      /\ stack' = [stack EXCEPT ![L] = Popped(@), ![t] = Append(@, last)]
  BY DEF Handed
<1>2. /\ Len(stack[L]) \in Nat \ {0} /\ DOMAIN stack[L] = 1 .. Len(stack[L])
      /\ last \in Values
      /\ Popped(stack[L]) \in Seq(Values)
      /\ DOMAIN Popped(stack[L]) = 1 .. Len(stack[L]) - 1
      /\ \A i \in 1 .. Len(stack[L]) - 1 : Popped(stack[L])[i] = stack[L][i]
  BY <1>0, <1>1, LastRemoved, LenProperties DEF Popped
<1> HIDE DEF last
<1>3. /\ Append(stack[t], last) \in Seq(Values)
      /\ DOMAIN stack[t] = 1 .. Len(stack[t]) /\ Len(stack[t]) \in Nat
      /\ DOMAIN Append(stack[t], last) = 1 .. Len(stack[t]) + 1
      /\ \A i \in DOMAIN stack[t] : Append(stack[t], last)[i] = stack[t][i]
      /\ Append(stack[t], last)[Len(stack[t]) + 1] = last
  BY <1>0, <1>2, AppendDomain
<1>4. /\ stack' \in [Addr -> Seq(Values)]
      /\ stack'[L] = Popped(stack[L]) /\ stack'[t] = Append(stack[t], last)
      /\ \A s \in Addr \ {L, t} : stack'[s] = stack[s]
  <2>1. stack' = [[stack EXCEPT ![L] = Popped(stack[L])] EXCEPT ![t] = Append(stack[t], last)]
    BY <1>0, <1>1
  <2> QED BY <1>0, <1>2, <1>3, <2>1 DEF Typed
<1>5. \A i \in DOMAIN stack'[t] : i \in DOMAIN stack[t] \/ stack'[t][i] = last
  BY <1>3, <1>4
<1>6. ASSUME NEW u \in Addr, isopen(u)
      PROVE  /\ level[u] \in DOMAIN stack'[thread[u]]
             /\ stack'[thread[u]][level[u]] = stack[thread[u]][level[u]]
  <2>1. thread[u] \in Addr /\ level[u] \in DOMAIN stack[thread[u]]
    BY <1>6 DEF OpenInv
  <2>2. thread[u] = L => level[u] < Len(stack[L])
    BY <1>1, <1>6 DEF OpenUpvals
  <2>3. CASE thread[u] = L
    <3>1. level[u] \in 1 .. Len(stack[L]) - 1
      BY <1>2, <2>1, <2>2, <2>3
    <3> QED BY <1>2, <1>4, <2>3, <3>1
  <2>4. CASE thread[u] = t
    <3>1. level[u] \in DOMAIN stack[t]
      BY <2>1, <2>4
    <3>2. /\ level[u] \in DOMAIN Append(stack[t], last)
          /\ Append(stack[t], last)[level[u]] = stack[t][level[u]]
      <4> HIDE DEF L
      <4> QED BY <1>3, <3>1
    <3> QED BY <1>4, <2>4, <3>2
  <2>5. CASE thread[u] \notin {L, t}
    BY <1>4, <2>1, <2>5
  <2> QED BY <2>3, <2>4, <2>5
<1>7. \A i \in DOMAIN stack'[L] : i \in DOMAIN stack[L] /\ stack'[L][i] = stack[L][i]
  BY <1>2, <1>4
<1>8. \A i \in DOMAIN stack[t] : i \in DOMAIN stack'[t] /\ stack'[t][i] = stack[t][i]
  BY <1>3, <1>4
<1>9. Len(stack[L]) \in DOMAIN stack[L]
      /\ \A i \in 1 .. Len(stack[L]) - 1 : i \in DOMAIN stack'[L] /\ stack'[L][i] = stack[L][i]
  BY <1>2, <1>4
<1> QED BY <1>1, <1>4, <1>5, <1>6, <1>7, <1>8, <1>9 DEF last

(* lua_xmove between two threads keeps the invariant, if who runs stays    *)
(* alive.                                                                  *)
LEMMA HandedKeeps ==
  ASSUME IInv, Mutating, NEW t \in Addr, t # L, Handed(t),
         running' \in Seq(Addr), Len(running') > 0, RunningInv'
  PROVE  IInv'
<1> USE DEF IInv
<1>0. /\ Typed /\ "gray" \notin Whites /\ "black" \notin Whites
      /\ \A i \in DOMAIN stack[L] : stack[L][i] \in Valid
  BY FieldTypes, TwoWhites, RunningThread
<1>1. /\ UNCHANGED <<tt, mark, meta, attr, key, val, upval, thread, level, text, finalized, called, rootgc,
                     gray, grayagain, weak, sweepgc, tmudata, gcstate, currentwhite, sweepstrgc, atomic, full>>
      /\ atomic = "no"
  BY DEF Mutating, Handed, heads, entries, upvals, lists
<1>2. /\ stack' \in [Addr -> Seq(Values)]
      /\ \A s \in Addr \ {L, t} : stack'[s] = stack[s]
      /\ \A i \in DOMAIN stack'[L] : i \in DOMAIN stack[L] /\ stack'[L][i] = stack[L][i]
      /\ \A i \in DOMAIN stack'[t] : i \in DOMAIN stack[t] \/ stack'[t][i] = stack[L][Len(stack[L])]
      /\ \A i \in DOMAIN stack[t] : i \in DOMAIN stack'[t] /\ stack'[t][i] = stack[t][i]
      /\ Len(stack[L]) \in DOMAIN stack[L]
      /\ \A u \in Addr : isopen(u) => /\ level[u] \in DOMAIN stack'[thread[u]]
                                      /\ stack'[thread[u]][level[u]] = stack[thread[u]][level[u]]
  BY HandedFields
<1>3. /\ \A a : (isopen(a)' <=> isopen(a)) /\ (isdead(a)' <=> isdead(a))
      /\ Objects' = Objects /\ Alive' = Alive /\ Valid' = Valid /\ AliveTables' = AliveTables
  BY <1>1 DEF isopen, isdead, Objects, Alive, Valid, AliveTables
<1>4. \A u \in Addr : UpvalValue(u)' = UpvalValue(u)
  BY <1>1, <1>2, <1>3 DEF UpvalValue
<1>5. HeapInv'
  <2> SUFFICES ASSUME NEW a \in Alive PROVE Sound(a)'
    BY <1>3 DEF HeapInv
  <2>1. Sound(a) /\ a \in Addr
    BY DEF HeapInv, Alive, Objects
  <2>2. \A i \in DOMAIN stack'[a] : \/ i \in DOMAIN stack[a] /\ stack'[a][i] = stack[a][i]
                                    \/ stack'[a][i] = stack[L][Len(stack[L])]
    BY <1>2, <2>1
  <2>3. stack[L][Len(stack[L])] \in Valid
    BY <1>0, <1>2
  <2> QED BY <1>1, <1>3, <1>4, <2>1, <2>2, <2>3 DEF Sound
<1>6. OpenInv'
  BY <1>1, <1>2, <1>3 DEF OpenInv
<1>7. TmuInv'
  BY <1>1, <1>3, TmuKept
<1>8. SweepInv'
  BY <1>1, <1>3 DEF SweepInv, Sweeping
<1>9. ColourInv'
  BY <1>1 DEF ColourInv, isblack, iswhite
<1>10. MarkInv'
  <2> SUFFICES ASSUME gcstate = "propagate" PROVE MarkInv'
    BY <1>1 DEF MarkInv
  <2>1. ListInv /\ BlackInv /\ GrayInv /\ RootInv
    BY DEF MarkInv
  <2>2. Listed' = Listed
    BY <1>1 DEF Listed
  <2>3. \A v : Dark(v)' <=> Dark(v)
    BY <1>1 DEF Dark, iswhite
  <2>4. ListInv' /\ RootInv'
    BY <1>1, <1>3, <2>1, <2>2, <2>3 DEF ListInv, RootInv
  <2>5. BlackInv'
    <3>1. \A a \in Objects : AllDark(a) => AllDark(a)'
      BY <1>1, <1>4, <2>3 DEF AllDark, Objects
    <3> QED BY <1>1, <1>3, <2>1, <3>1 DEF BlackInv, isblack
  <2>6. GrayInv'
    BY <1>1, <1>3, <2>1, <2>2 DEF GrayInv
  <2> QED BY <2>4, <2>5, <2>6 DEF MarkInv
<1>11. TypeOK'
  <2>1. rootgc' \cup tmudata' = {a \in Objects' : tt'[a] # "string" /\ ~isopen(a)'}
    <3>1. rootgc \cup tmudata = {a \in Objects : tt[a] # "string" /\ ~isopen(a)}
      BY DEF TypeOK
    <3> QED BY <1>1, <1>3, <3>1
  <2>2. \A a, b \in Objects' : tt'[a] = "string" /\ tt'[b] = "string" /\ text'[a] = text'[b] => a = b
    BY <1>1, <1>3 DEF TypeOK
  <2>3. /\ mark' \in [Addr -> Whites' \cup {"gray", "black"}] /\ currentwhite' \in Whites'
    BY <1>0, <1>1 DEF Typed, Whites
  <2> QED BY <1>1, <1>2, <2>1, <2>2, <2>3 DEF TypeOK
<1> QED BY <1>5, <1>6, <1>7, <1>8, <1>9, <1>10, <1>11

(* A coroutine that is resumed is held by an argument of resume.           *)
LEMMA ResumeStep == ASSUME IInv, Resume PROVE IInv'
<1> USE DEF IInv
<1>1. PICK t \in InStack(L) \cap Addr :
    /\ Mutating /\ tt[t] = "thread" /\ Len(running) <= MaxThreads
    /\ \A i \in DOMAIN running : running[i] # t
    /\ \E i \in 1 .. Len(stack[L]) - 1 : stack[L][i] = t /\ \A u \in OpenUpvals(L) : level[u] # i
    /\ Handed(t)
    /\ running' = Append(running, t)
  BY DEF Resume
<1>2. /\ running \in Seq(Addr) /\ Len(running) \in Nat \ {0} /\ DOMAIN running = 1 .. Len(running)
      /\ L = running[Len(running)] /\ L \in Addr
  BY RunningThread DEF TypeOK, L
<1>3. t # L /\ t \in Addr /\ t \in Alive
  BY <1>1, <1>2, OnStack
<1>4. /\ running' \in Seq(Addr) /\ Len(running') = Len(running) + 1
      /\ DOMAIN running' = 1 .. Len(running) + 1
      /\ \A i \in DOMAIN running : running'[i] = running[i]
      /\ running'[Len(running) + 1] = t
  BY <1>1, <1>2, <1>3, AppendDomain
<1>5. /\ UNCHANGED <<tt, mark, thread, level, currentwhite>>
  BY <1>1 DEF Handed, heads, upvals, Mutating
<1>6. /\ \A s \in Addr \ {L, t} : stack'[s] = stack[s]
      /\ \A i \in 1 .. Len(stack[L]) - 1 : i \in DOMAIN stack'[L] /\ stack'[L][i] = stack[L][i]
  BY <1>1, <1>3, HandedFields
<1>7. AliveTables' = AliveTables /\ Alive' = Alive
  BY <1>5 DEF AliveTables, Alive, Objects, isdead
<1>8. ASSUME NEW i \in DOMAIN running', i + 1 \in DOMAIN running'
      PROVE  Holds(running[i], running[i + 1])'
  <2>1. i \in DOMAIN running /\ running'[i] = running[i] /\ i \in Nat /\ i <= Len(running)
    BY <1>2, <1>4, <1>8
  <2>2. CASE i = Len(running)
    <3>1. running'[i] = L /\ running'[i + 1] = t
      BY <1>2, <1>4, <2>1, <2>2
    <3>2. PICK j \in 1 .. Len(stack[L]) - 1 : stack[L][j] = t /\ \A u \in OpenUpvals(L) : level[u] # j
      BY <1>1
    <3>3. j \in DOMAIN stack'[L] /\ stack'[L][j] = t
      BY <1>6, <3>2
    <3>4. \A u \in Addr : isopen(u)' /\ thread'[u] = L => level'[u] # j
      BY <1>5, <3>2 DEF OpenUpvals, isopen
    <3> QED BY <3>1, <3>3, <3>4 DEF Holds
  <2>3. CASE i # Len(running)
    <3>1. i + 1 \in DOMAIN running /\ running'[i + 1] = running[i + 1]
      BY <1>2, <1>4, <2>1, <2>3
    <3>2. Holds(running[i], running[i + 1]) /\ running[i] # L /\ running[i] # t /\ running[i] \in Addr
      BY <1>1, <1>2, <2>1, <2>3, <3>1 DEF RunningInv
    <3>3. stack'[running[i]] = stack[running[i]]
      BY <1>6, <3>2
    <3> QED BY <1>5, <2>1, <3>1, <3>2, <3>3 DEF Holds, isopen
  <2> QED BY <2>2, <2>3
<1>9. RunningInv'
  <2>1. running'[1] = Main
    BY <1>2, <1>4 DEF RunningInv
  <2>2. \A i \in DOMAIN running' : running'[i] \in Alive /\ tt[running'[i]] = "thread"
    BY <1>1, <1>2, <1>3, <1>4 DEF RunningInv
  <2>3. \A i, j \in DOMAIN running' : running'[i] = running'[j] => i = j
    BY <1>1, <1>2, <1>4 DEF RunningInv
  <2> QED BY <1>5, <1>7, <1>8, <2>1, <2>2, <2>3 DEF RunningInv
<1>10. Len(running') > 0
  BY <1>2, <1>4
<1> QED BY <1>1, <1>3, <1>4, <1>9, <1>10, HandedKeeps

(* The thread that is resumed then runs again.                             *)
LEMMA YieldStep == ASSUME IInv, Yield PROVE IInv'
<1> USE DEF IInv
<1>1. /\ Mutating /\ Len(running) > 1
      /\ Handed(running[Len(running) - 1])
      /\ running' = Popped(running)
  BY DEF Yield
<1>2. /\ running \in Seq(Addr) /\ Len(running) \in Nat \ {0} /\ DOMAIN running = 1 .. Len(running)
      /\ L = running[Len(running)] /\ L \in Addr
  BY RunningThread DEF TypeOK, L
<1>3. PICK t : t = running[Len(running) - 1]
  OBVIOUS
<1>4. t # L /\ t \in Addr /\ Handed(t) /\ Len(running) - 1 \in DOMAIN running
  BY <1>1, <1>2, <1>3 DEF RunningInv, Alive, Objects
<1>5. /\ running' \in Seq(Addr) /\ Len(running') = Len(running) - 1
      /\ DOMAIN running' = 1 .. Len(running) - 1
      /\ \A i \in DOMAIN running' : i \in DOMAIN running /\ running'[i] = running[i]
  <2>1. running # <<>>
    BY <1>1
  <2>2. /\ running' \in Seq(Addr) /\ Len(running') = Len(running) - 1
        /\ \A i \in 1 .. Len(running) - 1 : running'[i] = running[i]
    BY <1>1, <1>2, <2>1, LastRemoved DEF Popped
  <2> QED BY <1>2, <2>2, LenProperties
<1>6. /\ UNCHANGED <<tt, mark, thread, level, currentwhite>>
  BY <1>1 DEF Handed, heads, upvals, Mutating
<1>7. \A s \in Addr \ {L, t} : stack'[s] = stack[s]
  BY <1>4, HandedFields
<1>8. AliveTables' = AliveTables /\ Alive' = Alive
  BY <1>6 DEF AliveTables, Alive, Objects, isdead
<1>9. ASSUME NEW i \in DOMAIN running', i + 1 \in DOMAIN running'
      PROVE  Holds(running[i], running[i + 1])'
  <2>1. /\ i \in DOMAIN running /\ running'[i] = running[i]
        /\ i + 1 \in DOMAIN running /\ running'[i + 1] = running[i + 1]
        /\ i # Len(running) /\ i # Len(running) - 1 /\ Len(running) \in DOMAIN running
    BY <1>2, <1>5, <1>9
  <2>2. Holds(running[i], running[i + 1]) /\ running[i] # L /\ running[i] # t /\ running[i] \in Addr
    BY <1>2, <1>3, <1>4, <2>1 DEF RunningInv
  <2>3. stack'[running[i]] = stack[running[i]]
    BY <1>7, <2>2
  <2> QED BY <1>6, <2>1, <2>2, <2>3 DEF Holds, isopen
<1>10. RunningInv'
  <2>1. 1 \in DOMAIN running' /\ running'[1] = Main
    BY <1>1, <1>2, <1>5 DEF RunningInv
  <2>2. \A i \in DOMAIN running' : running'[i] \in Alive /\ tt[running'[i]] = "thread"
    BY <1>5 DEF RunningInv
  <2>3. \A i, j \in DOMAIN running' : running'[i] = running'[j] => i = j
    BY <1>5 DEF RunningInv
  <2> QED BY <1>6, <1>8, <1>9, <2>1, <2>2, <2>3 DEF RunningInv
<1>11. Len(running') > 0
  BY <1>1, <1>2, <1>5
<1> QED BY <1>1, <1>4, <1>5, <1>10, <1>11, HandedKeeps

-----------------------------------------------------------------------------
(***************************************************************************)
(* The mark phase.  Its steps leave the objects and what they refer to,    *)
(* but for keys without a value; nothing is dead, before or after.         *)
(***************************************************************************)
Marks ==
    /\ ~Sweeping /\ gcstate' = "propagate"
    /\ UNCHANGED <<tt, meta, attr, val, upvals, stack, text, called, currentwhite, sweepgc, sweepstrgc, running>>
    /\ key' \in [Addr -> Values] /\ \A o \in Addr : key'[o] = key[o] \/ val[o] = nil
    /\ mark' \in [Addr -> Colours] /\ \A a \in Addr : mark'[a] # Other(currentwhite) \/ mark'[a] = mark[a]
    /\ \A o \in Addr : /\ tt[o] = "thread" => mark'[o] # "black"
                       /\ tt[o] = "userdata" => mark'[o] # "gray"
                       /\ tt[o] = "free" => mark'[o] \in Whites
                       /\ isopen(o) => mark'[o] # "black"
    /\ atomic' \in {"no", "upvals", "weak", "again", "tmudata"} /\ full' \in {"no", "clearing", "marking"}
    /\ gray' \in SUBSET Addr /\ grayagain' \in SUBSET Addr /\ weak' \in SUBSET Addr
    /\ finalized' \in SUBSET Addr /\ finalized \subseteq finalized'
    /\ rootgc' \cup tmudata' = rootgc \cup tmudata /\ rootgc' \cap tmudata' = {}
    /\ \A u \in tmudata' : u \in tmudata \/ (tt[u] = "userdata" /\ u \in finalized' /\ u \notin called)

(* Marking changes no object, only colours and keys without values.        *)
LEMMA MarksHeap ==
  ASSUME IInv, Marks
  PROVE  /\ Objects' = Objects /\ Alive' = Alive /\ Alive = Objects
         /\ L' = L /\ \A o \in Addr : (isopen(o)' <=> isopen(o)) /\ UpvalValue(o)' = UpvalValue(o)
         /\ HeapInv' /\ OpenInv' /\ RunningInv' /\ TmuInv' /\ SweepInv' /\ ColourInv' /\ TypeOK'
<1> USE DEF IInv
<1>0. /\ Typed /\ Other(currentwhite) # currentwhite /\ "gray" \notin Whites /\ "black" \notin Whites
  BY FieldTypes, TwoWhites
<1>1. UNCHANGED <<tt, meta, attr, val, upval, thread, level, stack, text, called, currentwhite,
                  sweepgc, sweepstrgc, running>>
  BY DEF Marks, upvals
<1>2. /\ Objects' = Objects /\ L' = L
      /\ \A o \in Addr : (isopen(o)' <=> isopen(o)) /\ UpvalValue(o)' = UpvalValue(o)
  BY <1>1 DEF Objects, L, isopen, UpvalValue
<1>3. sweepgc = {} /\ \A a \in Objects : ~isdead(a) /\ ~isdead(a)'
  BY <1>1 DEF SweepInv, Marks, isdead, Objects
<1>4. Alive' = Alive /\ Alive = Objects
  BY <1>2, <1>3 DEF Alive
<1>5. Valid' = Valid /\ AliveTables' = AliveTables
  BY <1>1, <1>4 DEF Valid, AliveTables
<1>6. HeapInv'
  <2> SUFFICES ASSUME NEW o \in Alive PROVE Sound(o)'
    BY <1>4 DEF HeapInv
  <2>1. Sound(o) /\ o \in Addr
    BY DEF HeapInv, Alive, Objects
  <2>2. val[o] # nil => key'[o] = key[o]
    BY <2>1 DEF Marks
  <2> QED BY <1>1, <1>2, <1>4, <1>5, <2>1, <2>2 DEF Sound
<1>7. OpenInv'
  BY <1>1, <1>2 DEF OpenInv, Marks
<1>8. RunningInv'
  <2>1. \A s, t : Holds(s, t)' <=> Holds(s, t)
    BY <1>1, <1>2 DEF Holds
  <2> QED BY <1>1, <1>4, <1>5, <2>1 DEF RunningInv
<1>9. TmuInv'
  <2>1. tmudata' \subseteq rootgc \cup tmudata /\ rootgc \cup tmudata \subseteq Objects
    BY DEF Marks, TypeOK
  <2> QED BY <1>1, <1>4, <2>1 DEF TmuInv, Marks
<1>10. SweepInv'
  <2>1. \A s \in Objects : tt[s] = "string" => text[s] \in Texts
    BY DEF SweepInv
  <2> QED BY <1>1, <1>2, <1>3, <2>1 DEF SweepInv, Sweeping, Marks
<1>11. ColourInv'
  BY <1>1 DEF ColourInv, Marks, isblack, iswhite
<1>12. TypeOK'
  <2>1. rootgc' \cup tmudata' = {a \in Objects' : tt'[a] # "string" /\ ~isopen(a)'}
    <3>1. rootgc \cup tmudata = {a \in Objects : tt[a] # "string" /\ ~isopen(a)}
      BY DEF TypeOK
    <3>2. \A a \in Objects : a \in Addr
      BY DEF Objects
    <3> QED BY <1>1, <1>2, <3>1, <3>2 DEF Marks
  <2>2. \A a, b \in Objects' : tt'[a] = "string" /\ tt'[b] = "string" /\ text'[a] = text'[b] => a = b
    BY <1>1, <1>2 DEF TypeOK
  <2>3. /\ mark' \in [Addr -> Whites' \cup {"gray", "black"}] /\ currentwhite' \in Whites'
    BY <1>0, <1>1 DEF Typed, Whites, Marks, Colours
  <2>4. tmudata' \in SUBSET Addr
    <3>1. tmudata' \subseteq rootgc \cup tmudata
      BY DEF Marks
    <3> QED BY <3>1 DEF TypeOK, Objects
  <2>5. called' \in SUBSET finalized' /\ sweepgc' \in SUBSET rootgc'
    BY <1>1, <1>3 DEF TypeOK, Marks
  <2> QED BY <1>1, <2>1, <2>2, <2>3, <2>4, <2>5 DEF TypeOK, Marks
<1> QED BY <1>2, <1>4, <1>6, <1>7, <1>8, <1>9, <1>10, <1>11, <1>12

(* What refers to dark objects only goes on to.                            *)
LEMMA DarkKept ==
  ASSUME UNCHANGED <<tt, meta, attr, val, upvals, stack>>,
         \A a \in Addr : ~iswhite(a) => ~iswhite(a)',
         \A o \in Addr : key'[o] = key[o] \/ (key'[o] = nil /\ val[o] = nil), nil \notin Addr
  PROVE  /\ \A v : Dark(v) => Dark(v)'
         /\ \A o \in Addr : (AllDark(o) => AllDark(o)') /\ (StrongDark(o) => StrongDark(o)')
<1>1. \A v : Dark(v) => Dark(v)'
  BY DEF Dark
<1>2. UNCHANGED <<tt, meta, attr, val, upval, thread, level, stack>>
  BY DEF upvals
<1>3. ASSUME NEW o \in Addr PROVE AllDark(o) => AllDark(o)'
  <2>1. UpvalValue(o)' = UpvalValue(o)
    BY <1>2 DEF UpvalValue, isopen
  <2>2. Dark(key[o]) => Dark(key[o])'
    BY <1>1 DEF Dark
  <2> QED BY <1>1, <1>2, <2>1, <2>2 DEF AllDark
<1>4. ASSUME NEW o \in Addr PROVE StrongDark(o) => StrongDark(o)'
  <2>1. UpvalValue(o)' = UpvalValue(o)
    BY <1>2 DEF UpvalValue, isopen
  <2>2. traversetable(o)' \subseteq traversetable(o)
    BY <1>2 DEF traversetable, mode, Meta
  <2> QED BY <1>1, <1>2, <2>1, <2>2 DEF StrongDark
<1> QED BY <1>1, <1>3, <1>4

(* Marking makes threads and open upvalues gray and userdata black.        *)
LEMMA MarkingColours ==
  ASSUME Typed, HeapInv, NEW m \in [Addr -> Colours], NEW S, \A o \in S \cap Addr : o \in Alive,
         mark' = reallymarkobject(m, S),
         \A o \in Addr : /\ m[o] # Other(currentwhite) \/ m[o] = mark[o]
                         /\ tt[o] = "thread" => m[o] # "black"
                         /\ tt[o] = "userdata" => m[o] # "gray"
                         /\ tt[o] = "free" => m[o] \in Whites
                         /\ isopen(o) => m[o] # "black"
  PROVE  /\ mark' \in [Addr -> Colours]
         /\ \A o \in Addr : /\ mark'[o] # Other(currentwhite) \/ mark'[o] = mark[o]
                            /\ tt[o] = "thread" => mark'[o] # "black"
                            /\ tt[o] = "userdata" => mark'[o] # "gray"
                            /\ tt[o] = "free" => mark'[o] \in Whites
                            /\ isopen(o) => mark'[o] # "black"
         /\ Queued(m, S) \in SUBSET Addr
<1>0. Other(currentwhite) \in Whites /\ "gray" \notin Whites /\ "black" \notin Whites
  BY TwoWhites
<1>1. /\ mark' \in [Addr -> Colours]
      /\ \A a \in Addr : mark'[a] = m[a] \/ (m[a] \in Whites /\ a \in Alive /\ mark'[a] \in {"gray", "black"})
      /\ \A a \in Addr : m[a] \in Whites /\ mark'[a] = "black" =>
               /\ tt[a] \in {"userdata", "upval"}
               /\ tt[a] = "upval" => ~isopen(a)
      /\ \A a \in Addr : m[a] \in Whites /\ mark'[a] = "gray" =>
               a \in Queued(m, S) \/ tt[a] = "string" \/ isopen(a)
      /\ \A a \in Queued(m, S) : a \in Addr /\ tt[a] \in {"table", "function", "thread"}
  BY Marking
<1>2. \A a \in Alive : tt[a] # "free"
  BY DEF Alive, Objects
<1>3. \A o \in Addr : isopen(o) => tt[o] = "upval"
  BY DEF isopen
<1> QED BY <1>0, <1>1, <1>2, <1>3

(* markroot, when all objects are of the current white, or when a full     *)
(* collection has swept what was marked before.                            *)
LEMMA MarkRootStep == ASSUME IInv, MarkRoot PROVE IInv'
<1> USE DEF IInv
<1> DEFINE S == {Main, Globals}
<1>0. /\ Typed /\ currentwhite \in Whites /\ "gray" \notin Whites /\ "black" \notin Whites
  BY FieldTypes, TwoWhites
<1>1. /\ gcstate \in {"pause", "finalize"} /\ atomic = "no"
      /\ mark' = reallymarkobject(mark, S) /\ gray' = Queued(mark, S)
      /\ grayagain' = {} /\ weak' = {} /\ gcstate' = "propagate"
      /\ UNCHANGED <<tt, fields, chains, currentwhite, sweepstrgc, sweepgc, atomic, running>>
      /\ full' \in {"no", "clearing", "marking"}
  BY DEF MarkRoot, Mark, ColourInv, TypeOK
<1>2. Main \in Alive /\ Globals \in Alive /\ tt[Main] = "thread" /\ tt[Globals] = "table"
      /\ Main \in Addr /\ Globals \in Addr
  <2>1. 1 \in DOMAIN running
    BY RunningThread
  <2> QED BY <2>1, MemoryAssumption DEF RunningInv, AliveTables
<1>3. mark \in [Addr -> Colours] /\ \A o \in S \cap Addr : o \in Alive
  BY <1>0, <1>2 DEF Typed, Colours
<1>4. \A o \in Addr : /\ tt[o] = "thread" => mark[o] # "black"
                      /\ tt[o] = "userdata" => mark[o] # "gray"
                      /\ tt[o] = "free" => mark[o] \in Whites
                      /\ isopen(o) => mark[o] # "black"
  BY DEF ColourInv, OpenInv, isblack, iswhite
<1> HIDE DEF S
<1>5. /\ mark' \in [Addr -> Colours]
      /\ \A o \in Addr : /\ mark'[o] # Other(currentwhite) \/ mark'[o] = mark[o]
                         /\ tt[o] = "thread" => mark'[o] # "black"
                         /\ tt[o] = "userdata" => mark'[o] # "gray"
                         /\ tt[o] = "free" => mark'[o] \in Whites
                         /\ isopen(o) => mark'[o] # "black"
      /\ Queued(mark, S) \in SUBSET Addr
  BY <1>0, <1>1, <1>3, <1>4, MarkingColours
<1>6. /\ \A a \in Addr : mark'[a] = mark[a] \/ (mark[a] \in Whites /\ a \in Alive /\ mark'[a] \in {"gray", "black"})
      /\ \A v \in S : DarkIn(mark', v)
      /\ \A a \in Addr : mark[a] \in Whites /\ mark'[a] = "black" =>
               /\ tt[a] \in {"userdata", "upval"}
               /\ tt[a] = "userdata" => DarkIn(mark', meta[a])
               /\ tt[a] = "upval" => a \in S /\ ~isopen(a) /\ DarkIn(mark', UpvalValue(a))
      /\ \A a \in Addr : mark[a] \in Whites /\ mark'[a] = "gray" =>
               \/ a \in Queued(mark, S)
               \/ tt[a] = "string"
               \/ a \in S /\ isopen(a) /\ DarkIn(mark', UpvalValue(a))
      /\ \A a \in Queued(mark, S) : a \in Alive /\ a \in Addr /\ mark[a] \in Whites /\ mark'[a] = "gray"
                                    /\ tt[a] \in {"table", "function", "thread"}
  BY <1>0, <1>1, <1>3, Marking
<1>7. UNCHANGED <<tt, meta, attr, key, val, upvals, stack, text, finalized, called, rootgc, tmudata,
                  currentwhite, sweepgc, sweepstrgc, atomic, running>>
  BY <1>1 DEF fields, entries, chains
<1>8. Marks
  <2>1. /\ key' \in [Addr -> Values] /\ finalized' \in SUBSET Addr
        /\ rootgc' \cap tmudata' = {}
    BY <1>0, <1>7 DEF Typed, TypeOK
  <2> QED BY <1>1, <1>5, <1>7, <2>1 DEF Marks, Sweeping
<1>9. /\ Objects' = Objects /\ \A o \in Addr : (isopen(o)' <=> isopen(o)) /\ UpvalValue(o)' = UpvalValue(o)
      /\ HeapInv' /\ OpenInv' /\ RunningInv' /\ TmuInv' /\ SweepInv' /\ ColourInv' /\ TypeOK'
  BY <1>8, MarksHeap
<1>10. \A o \in Objects \ tmudata : o \in Addr /\ mark[o] \in Whites
  BY <1>0, <1>1 DEF SweepInv, Objects
<1>11. \A u \in tmudata : tt[u] = "userdata"
  BY DEF TmuInv
<1>12. Listed' = Queued(mark, S)
  BY <1>1 DEF Listed
<1>13. ListInv'
  <2>1. \A o \in Listed' : o \in Objects' /\ mark'[o] = "gray" /\ tt'[o] \in {"table", "function", "thread"}
    BY <1>6, <1>7, <1>9, <1>12 DEF Alive
  <2>2. ASSUME NEW o \in Objects, mark'[o] = "gray", tt[o] \in {"table", "function", "thread"}
        PROVE  o \in Listed'
    <3>1. o \in Addr /\ mark[o] \in Whites /\ ~isopen(o)
      BY <1>10, <1>11, <2>2 DEF isopen
    <3> QED BY <1>6, <1>12, <2>2, <3>1
  <2> QED BY <1>1, <1>7, <1>9, <2>1, <2>2 DEF ListInv
<1>14. BlackInv'
  <2> SUFFICES ASSUME NEW o \in Objects, mark'[o] = "black", o \notin tmudata PROVE AllDark(o)'
    BY <1>1, <1>7, <1>9 DEF BlackInv, isblack
  <2>1. o \in Addr /\ mark[o] \in Whites /\ o \in Objects
    BY <1>10
  <2>2. tt[o] \in {"userdata", "upval"} /\ (tt[o] = "upval" => o \in S)
        /\ (tt[o] = "userdata" => DarkIn(mark', meta[o]))
    BY <1>6, <2>1
  <2>3. tt[o] = "userdata"
    BY <1>2, <2>2 DEF S
  <2> QED BY <1>7, <2>2, <2>3 DEF AllDark, Dark, DarkIn, iswhite
<1>15. GrayInv'
  <2> SUFFICES ASSUME NEW o \in Objects, mark'[o] = "gray" PROVE o \in Listed' \/ tt[o] = "string"
    BY <1>1, <1>7, <1>9 DEF GrayInv
  <2>1. o \in Addr /\ (o \in tmudata => tt[o] = "userdata")
    BY <1>11 DEF Objects
  <2>2. o \notin tmudata
    BY <1>5, <2>1
  <2>3. mark[o] \in Whites
    BY <1>10, <2>2
  <2>4. ~(o \in S /\ isopen(o))
    BY <1>2 DEF S, isopen
  <2> QED BY <1>6, <1>12, <2>1, <2>3, <2>4
<1>16. RootInv'
  <2>1. DarkIn(mark', Main) /\ DarkIn(mark', Globals)
    BY <1>6 DEF S
  <2> QED BY <1>1, <2>1 DEF RootInv, Dark, DarkIn, iswhite
<1> QED BY <1>9, <1>13, <1>14, <1>15, <1>16 DEF MarkInv

(* What was dark or is to be marked is dark then.                          *)
LEMMA MarkingDarkens ==
  ASSUME Typed, HeapInv, NEW m \in [Addr -> Colours], NEW S, \A o \in S \cap Addr : o \in Alive,
         mark' = reallymarkobject(m, S),
         \A o \in Addr : m[o] \in Whites => mark[o] \in Whites \/ o \in S,
         UNCHANGED <<tt, meta, attr, val, upvals, stack>>,
         \A o \in Addr : key'[o] = key[o] \/ (key'[o] = nil /\ val[o] = nil)
  PROVE  /\ \A v \in S : Dark(v)'
         /\ \A v : Dark(v) => Dark(v)'
         /\ \A o \in Addr : (AllDark(o) => AllDark(o)') /\ (StrongDark(o) => StrongDark(o)')
<1>0. "gray" \notin Whites /\ "black" \notin Whites /\ nil \notin Addr
  BY TwoWhites DEF Typed
<1>1. /\ \A v \in S : DarkIn(mark', v)
      /\ \A a \in Addr : mark'[a] = m[a] \/ (m[a] \in Whites /\ a \in Alive /\ mark'[a] \in {"gray", "black"})
  BY Marking
<1>2. \A v \in S : Dark(v)'
  BY <1>1 DEF DarkIn, Dark, iswhite
<1>3. \A a \in Addr : ~iswhite(a) => ~iswhite(a)'
  BY <1>0, <1>1 DEF iswhite, DarkIn
<1>4. /\ \A v : Dark(v) => Dark(v)'
      /\ \A o \in Addr : (AllDark(o) => AllDark(o)') /\ (StrongDark(o) => StrongDark(o)')
  BY <1>0, <1>3, DarkKept
<1> QED BY <1>2, <1>4

(* A step of the mark phase.  The colours m are those it starts marking    *)
(* from: an object that it has traversed may be black, userdata that are   *)
(* to be marked anew white.                                                *)
LEMMA MarksKeep ==
  ASSUME IInv, Marks, gcstate = "propagate",
         NEW m \in [Addr -> Colours], NEW S, \A o \in S \cap Addr : o \in Alive,
         mark' = reallymarkobject(m, S),
         \A o \in Addr : key'[o] = key[o] \/ (key'[o] = nil /\ val[o] = nil),
         \A o \in Addr : \/ m[o] = mark[o]
                         \/ m[o] \in Whites /\ o \in S /\ tt[o] = "userdata"
                         \/ m[o] = "black" /\ mark[o] = "gray" /\ AllDark(o)',
         tmudata \subseteq tmudata',
         atomic' = "tmudata" => atomic = "tmudata" \/ \A o \in tmudata' : m[o] \in Whites,
         atomic' = "tmudata" => \A o \in tmudata' : Dark(o) \/ o \in S,
         atomic' = "no" => atomic = "no",
         \A o \in Listed' : o \in Queued(m, S) \/ (o \in Listed /\ m[o] = "gray"),
         \A o \in Listed : o \in Listed' \/ m[o] # "gray",
         Queued(m, S) \subseteq gray',
         \A o \in weak' : tt[o] = "table",
         atomic' \in {"again", "tmudata"} => \A o \in grayagain' : tt[o] = "thread",
         gray' \cap grayagain' = {} /\ weak' \cap (gray' \cup grayagain') = {},
         atomic' # "no" => \A o \in Objects \ Todo' : m[o] = "gray" => StrongDark(o)'
  PROVE  IInv'
<1> USE DEF IInv
<1>0. /\ Typed /\ "gray" \notin Whites /\ "black" \notin Whites /\ nil \notin Addr
      /\ ListInv /\ BlackInv /\ GrayInv /\ RootInv
  BY FieldTypes, TwoWhites DEF MarkInv, Typed
<1>1. /\ Objects' = Objects /\ \A o \in Addr : (isopen(o)' <=> isopen(o)) /\ UpvalValue(o)' = UpvalValue(o)
      /\ HeapInv' /\ OpenInv' /\ RunningInv' /\ TmuInv' /\ SweepInv' /\ ColourInv' /\ TypeOK'
  BY MarksHeap
<1>2. UNCHANGED <<tt, meta, attr, val, upvals, stack, upval>> /\ gcstate' = "propagate"
  BY DEF Marks, upvals
<1>3. /\ \A v \in S : Dark(v)'
      /\ \A v : Dark(v) => Dark(v)'
      /\ \A o \in Addr : (AllDark(o) => AllDark(o)') /\ (StrongDark(o) => StrongDark(o)')
  BY <1>0, <1>2, MarkingDarkens DEF iswhite
<1>4. /\ \A a \in Addr : mark'[a] = m[a] \/ (m[a] \in Whites /\ a \in Alive /\ mark'[a] \in {"gray", "black"})
      /\ \A v \in S : DarkIn(mark', v)
      /\ \A a \in Addr : m[a] \in Whites /\ mark'[a] = "black" =>
               /\ tt[a] \in {"userdata", "upval"}
               /\ tt[a] = "userdata" => DarkIn(mark', meta[a])
               /\ tt[a] = "upval" => a \in S /\ ~isopen(a) /\ DarkIn(mark', UpvalValue(a))
      /\ \A a \in Addr : m[a] \in Whites /\ mark'[a] = "gray" =>
               \/ a \in Queued(m, S)
               \/ tt[a] = "string"
               \/ a \in S /\ isopen(a) /\ DarkIn(mark', UpvalValue(a))
      /\ \A a \in Queued(m, S) : a \in Alive /\ a \in Addr /\ m[a] \in Whites /\ mark'[a] = "gray"
                                    /\ tt[a] \in {"table", "function", "thread"}
  BY <1>0, Marking
<1>5. \A a \in Objects : a \in Addr
  BY DEF Objects
<1>6. ListInv'
  <2>1. ASSUME NEW o \in Listed'
        PROVE  o \in Objects /\ mark'[o] = "gray" /\ tt[o] \in {"table", "function", "thread"}
    BY <1>0, <1>4, <1>5 DEF ListInv, Alive
  <2>2. ASSUME NEW o \in Objects, mark'[o] = "gray", tt[o] \in {"table", "function", "thread"}
        PROVE  o \in Listed'
    <3>1. CASE m[o] = "gray"
      <4>1. mark[o] = "gray"
        BY <1>0, <1>5, <3>1
      <4> QED BY <1>0, <2>2, <3>1, <4>1 DEF ListInv
    <3>2. CASE m[o] # "gray"
      <4>1. o \in Queued(m, S)
        BY <1>4, <1>5, <2>2, <3>2 DEF isopen
      <4> QED BY <4>1 DEF Listed
    <3> QED BY <3>1, <3>2
  <2> QED BY <1>1, <1>2, <2>1, <2>2 DEF ListInv
<1>7. BlackInv'
  <2> SUFFICES ASSUME NEW o \in Objects, mark'[o] = "black", o \notin tmudata' \/ atomic' = "tmudata"
               PROVE  AllDark(o)'
    BY <1>1 DEF BlackInv, isblack
  <2>1. o \in Addr
    BY <1>5
  <2>2. CASE m[o] \in Whites
    <3>1. /\ tt[o] \in {"userdata", "upval"}
          /\ tt[o] = "userdata" => Dark(meta[o])'
          /\ tt[o] = "upval" => Dark(UpvalValue(o))'
      BY <1>1, <1>2, <1>4, <2>1, <2>2 DEF Dark, DarkIn, iswhite
    <3> QED BY <1>2, <3>1 DEF AllDark
  <2>3. CASE m[o] \notin Whites
    <3>1. m[o] = "black" /\ (m[o] = mark[o] \/ AllDark(o)')
      BY <1>4, <2>1, <2>3
    <3>2. CASE m[o] = mark[o]
      <4>1. o \notin tmudata \/ atomic = "tmudata"
        BY <2>3
      <4>2. AllDark(o)
        BY <1>0, <3>1, <3>2, <4>1 DEF BlackInv, isblack
      <4> QED BY <1>3, <2>1, <4>2
    <3> QED BY <3>1, <3>2
  <2> QED BY <2>2, <2>3
<1>8. GrayInv'
  <2>1. ASSUME atomic' = "no", NEW o \in Objects, mark'[o] = "gray"
        PROVE  o \in Listed' \/ tt[o] = "string" \/ isopen(o)
    <3>1. CASE m[o] = "gray"
      <4>1. mark[o] = "gray"
        BY <1>0, <1>5, <3>1
      <4>2. o \in Listed \/ tt[o] = "string" \/ isopen(o)
        BY <1>0, <2>1, <4>1 DEF GrayInv
      <4> QED BY <3>1, <4>2
    <3>2. CASE m[o] # "gray"
      BY <1>4, <1>5, <2>1, <3>2 DEF Listed
    <3> QED BY <3>1, <3>2
  <2>2. ASSUME atomic' # "no", NEW o \in Objects \ Todo', mark'[o] = "gray"
        PROVE  StrongDark(o)'
    <3>1. CASE m[o] = "gray"
      BY <2>2, <3>1
    <3>2. CASE m[o] # "gray"
      <4>1. o \notin Queued(m, S)
        BY <2>2 DEF Todo, Listed
      <4>2. tt[o] = "string" \/ (tt[o] = "upval" /\ Dark(UpvalValue(o))')
        BY <1>1, <1>4, <1>5, <2>2, <3>2, <4>1 DEF isopen, DarkIn, Dark, iswhite
      <4> QED BY <1>2, <4>2 DEF StrongDark
    <3> QED BY <3>1, <3>2
  <2> QED BY <1>1, <1>2, <1>5, <2>1, <2>2 DEF GrayInv
<1>9. RootInv'
  BY <1>0, <1>3 DEF RootInv
<1> QED BY <1>1, <1>6, <1>7, <1>8, <1>9 DEF MarkInv

(* Nothing is dead in the mark phase.                                      *)
LEMMA MarkPhase ==
  ASSUME IInv, gcstate = "propagate"
  PROVE  /\ Typed /\ "gray" \notin Whites /\ "black" \notin Whites /\ currentwhite \in Whites
         /\ currentwhite # Other(currentwhite)
         /\ nil \notin Addr /\ mark \in [Addr -> Colours]
         /\ Alive = Objects /\ Objects \subseteq Addr
         /\ ListInv /\ BlackInv /\ GrayInv /\ RootInv
         /\ \A o \in Addr : /\ tt[o] = "thread" => mark[o] # "black"
                            /\ tt[o] = "userdata" => mark[o] # "gray"
                            /\ tt[o] = "free" => mark[o] \in Whites
                            /\ isopen(o) => mark[o] # "black"
BY FieldTypes, TwoWhites DEF IInv, MarkInv, Typed, Colours, SweepInv, Sweeping, Alive, Objects,
                             ColourInv, OpenInv, isblack, iswhite

(* What an object that is traversed refers to is alive.                    *)
LEMMA TraversedAlive ==
  ASSUME IInv, gcstate = "propagate", NEW o \in Objects
  PROVE  /\ tt[o] = "table" => \A v \in traversetable(o) \cap Addr : v \in Alive
         /\ tt[o] = "function" => upval[o] \in Alive
         /\ tt[o] = "thread" => \A v \in InStack(o) \cap Addr : v \in Alive
<1>0. o \in Alive /\ nil \notin Addr
  BY MarkPhase
<1>1. Sound(o)
  BY <1>0 DEF IInv, HeapInv
<1>2. tt[o] = "table" => \A v \in traversetable(o) \cap Addr : v \in Alive
  BY <1>0, <1>1 DEF Sound, traversetable, Valid, AliveTables
<1>3. tt[o] = "thread" => \A v \in InStack(o) \cap Addr : v \in Alive
  BY <1>1 DEF Sound, InStack, Valid
<1> QED BY <1>1, <1>2, <1>3 DEF Sound

(* propagatemark: the object that turns black has all it refers to marked. *)
LEMMA PropagateStep == ASSUME IInv, Propagate PROVE IInv'
<1> USE DEF IInv
<1>1. PICK o \in First(gray) :
        /\ gcstate = "propagate"
        /\ propagatemark(o)
        /\ UNCHANGED <<tt, meta, attr, val, upvals, stack, text, finalized, called,
                       chains, sweeps, running, full, ops>>
  BY DEF Propagate
<1>0. /\ Typed /\ "gray" \notin Whites /\ "black" \notin Whites /\ currentwhite \in Whites
      /\ nil \notin Addr /\ mark \in [Addr -> Colours] /\ Other(currentwhite) \in Whites
      /\ Alive = Objects /\ Objects \subseteq Addr
      /\ ListInv /\ BlackInv /\ GrayInv
      /\ \A a \in Addr : /\ tt[a] = "thread" => mark[a] # "black"
                         /\ tt[a] = "userdata" => mark[a] # "gray"
                         /\ tt[a] = "free" => mark[a] \in Whites
                         /\ isopen(a) => mark[a] # "black"
  BY <1>1, MarkPhase, TwoWhites
<1>2. o \in gray /\ o \in Objects /\ o \in Addr /\ mark[o] = "gray" /\ tt[o] \in {"table", "function", "thread"}
      /\ o \notin grayagain /\ o \notin weak
  <2>1. o \in gray
    BY FirstIn
  <2> QED BY <1>0, <2>1 DEF ListInv, Listed
<1> DEFINE isweak == tt[o] = "table" /\ mode(o) # {}
           colour == IF isweak \/ tt[o] = "thread" THEN "gray" ELSE "black"
           m == [mark EXCEPT ![o] = colour]
           S == CASE tt[o] = "table" -> traversetable(o)
                  [] tt[o] = "function" -> {upval[o]}
                  [] tt[o] = "thread" -> InStack(o)
           cleared == IF tt[o] = "table" /\ val[o] = nil /\ mode(o) # {"k", "v"} THEN {o} ELSE {}
<1>3. /\ mark' = reallymarkobject(m, S) /\ gray' = (gray \ {o}) \cup Queued(m, S)
      /\ grayagain' = IF tt[o] = "thread" THEN grayagain \cup {o} ELSE grayagain
      /\ weak' = IF isweak THEN weak \cup {o} ELSE weak
      /\ key' = [a \in Addr |-> IF a \in cleared /\ key[a] \in Addr THEN nil ELSE key[a]]
  BY <1>1 DEF propagatemark, Mark, removeentries
<1>4. m \in [Addr -> Colours] /\ m[o] = colour /\ \A a \in Addr \ {o} : m[a] = mark[a]
  BY <1>0, <1>2 DEF Colours
<1>5. colour \in {"gray", "black"} /\ (tt[o] = "thread" => colour = "gray")
      /\ (colour = "gray" <=> isweak \/ tt[o] = "thread")
  OBVIOUS
<1>6. \A a \in S \cap Addr : a \in Alive
  BY <1>1, <1>2, TraversedAlive
<1>7. UNCHANGED <<tt, meta, attr, val, upvals, upval, stack, text, finalized, called, rootgc, tmudata,
                  gcstate, currentwhite, sweepstrgc, sweepgc, atomic, running, full>>
  BY <1>1 DEF chains, sweeps, upvals
<1>8. /\ key' \in [Addr -> Values]
      /\ \A a \in Addr : key'[a] = key[a] \/ (key'[a] = nil /\ val[a] = nil)
      /\ tt[o] = "table" /\ val[o] = nil /\ ~isweak => key'[o] \notin Addr
      /\ \A a \in Addr : val[a] # nil => key'[a] = key[a]
  BY <1>0, <1>2, <1>3 DEF Typed, Values
<1>9. tt[o] = "thread" => S = InStack(o)
  OBVIOUS
<1>10. tt[o] = "table" => S = traversetable(o)
  OBVIOUS
<1>11. tt[o] = "function" => S = {upval[o]}
  OBVIOUS
<1>12. isweak => tt[o] = "table"
  OBVIOUS
<1>13. tt[o] = "table" /\ ~isweak => S = {meta[o], val[o]} \cup (IF val[o] = nil THEN {} ELSE {key[o]})
  BY <1>10 DEF traversetable
<1> HIDE DEF m, S, colour, isweak, cleared
<1>14. /\ mark' \in [Addr -> Colours]
       /\ \A a \in Addr : /\ mark'[a] # Other(currentwhite) \/ mark'[a] = mark[a]
                          /\ tt[a] = "thread" => mark'[a] # "black"
                          /\ tt[a] = "userdata" => mark'[a] # "gray"
                          /\ tt[a] = "free" => mark'[a] \in Whites
                          /\ isopen(a) => mark'[a] # "black"
       /\ Queued(m, S) \in SUBSET Addr
  <2>1. ASSUME NEW a \in Addr
        PROVE  /\ m[a] # Other(currentwhite) \/ m[a] = mark[a]
               /\ tt[a] = "thread" => m[a] # "black"
               /\ tt[a] = "userdata" => m[a] # "gray"
               /\ tt[a] = "free" => m[a] \in Whites
               /\ isopen(a) => m[a] # "black"
    BY <1>0, <1>2, <1>4, <1>5 DEF isopen
  <2> QED BY <1>0, <1>3, <1>4, <1>6, <2>1, MarkingColours
<1>15. Marks
  <2>1. /\ atomic' \in {"no", "upvals", "weak", "again", "tmudata"} /\ full' \in {"no", "clearing", "marking"}
        /\ gray' \in SUBSET Addr /\ grayagain' \in SUBSET Addr /\ weak' \in SUBSET Addr
        /\ finalized' \in SUBSET Addr /\ rootgc' \cap tmudata' = {}
    BY <1>2, <1>3, <1>7, <1>14 DEF TypeOK
  <2> QED BY <1>1, <1>7, <1>8, <1>14, <2>1 DEF Marks, Sweeping
<1>16. \A a \in Addr : m[a] \in Whites => mark[a] \in Whites
  BY <1>0, <1>2, <1>4, <1>5
<1>17. \A v \in S : Dark(v)'
  BY <1>0, <1>3, <1>4, <1>6, <1>7, <1>8, <1>16, MarkingDarkens
<1>18. \A a \in Addr : StrongDark(a) => StrongDark(a)'
  BY <1>0, <1>3, <1>4, <1>6, <1>7, <1>8, <1>16, MarkingDarkens
<1>19. colour = "black" => AllDark(o)'
  <2>1. CASE tt[o] = "table" /\ ~isweak
    <3>1. Dark(meta[o])' /\ Dark(val[o])'
      BY <1>7, <1>13, <1>17, <2>1
    <3>2. Dark(key[o])'
      <4>1. CASE val[o] = nil
        BY <1>8, <2>1, <4>1 DEF Dark
      <4>2. CASE val[o] # nil
        <5>1. key'[o] = key[o] /\ key[o] \in S
          BY <1>2, <1>8, <1>13, <2>1, <4>2
        <5> QED BY <1>17, <5>1
      <4> QED BY <4>1, <4>2
    <3> QED BY <1>7, <2>1, <3>1, <3>2 DEF AllDark
  <2>2. CASE tt[o] = "function"
    BY <1>7, <1>11, <1>17, <2>2 DEF AllDark
  <2> QED BY <1>2, <1>5, <2>1, <2>2
<1>20. StrongDark(o)'
  <2>1. CASE tt[o] = "table"
    <3>1. traversetable(o)' \subseteq traversetable(o)
      BY <1>2, <1>7, <1>8 DEF traversetable, mode, Meta
    <3> QED BY <1>7, <1>10, <1>17, <2>1, <3>1 DEF StrongDark
  <2>2. CASE tt[o] = "function"
    BY <1>7, <1>11, <1>17, <2>2 DEF StrongDark
  <2>3. CASE tt[o] = "thread"
    <3>1. \A i \in DOMAIN stack[o] : stack[o][i] \in S
      BY <1>9, <2>3 DEF InStack
    <3> QED BY <1>7, <1>17, <2>3, <3>1 DEF StrongDark
  <2> QED BY <1>2, <2>1, <2>2, <2>3
<1>21. \A a \in Queued(m, S) : m[a] \in Whites /\ a \in Addr
  BY DEF Queued, Reached, WhiteOf
<1>22. /\ \A a \in Listed' : a \in Queued(m, S) \/ (a \in Listed /\ m[a] = "gray")
       /\ \A a \in Listed : a \in Listed' \/ m[a] # "gray"
  <2>1. ASSUME NEW a \in Listed', a \notin Queued(m, S)
        PROVE  a \in Listed /\ m[a] = "gray"
    <3>1. a \in Listed
      BY <1>2, <1>3, <2>1 DEF Listed
    <3>2. a \in Addr /\ mark[a] = "gray"
      BY <1>0, <3>1 DEF ListInv
    <3>3. a = o => colour = "gray"
      BY <1>2, <1>3, <1>5, <2>1 DEF Listed
    <3> QED BY <1>4, <3>1, <3>2, <3>3
  <2>2. ASSUME NEW a \in Listed PROVE a \in Listed' \/ m[a] # "gray"
    BY <1>3, <1>4, <1>5 DEF Listed
  <2> QED BY <2>1, <2>2
<1>23. gray' \cap grayagain' = {} /\ weak' \cap (gray' \cup grayagain') = {}
  <2>1. \A a \in Queued(m, S) : a # o /\ a \notin Listed
    BY <1>0, <1>4, <1>5, <1>21 DEF ListInv
  <2>2. gray \cap grayagain = {} /\ weak \cap (gray \cup grayagain) = {}
    BY <1>0 DEF ListInv
  <2> QED BY <1>2, <1>3, <1>12, <2>1, <2>2 DEF Listed
<1>24. ASSUME atomic' # "no", NEW a \in Objects \ Todo', m[a] = "gray" PROVE StrongDark(a)'
  <2>1. CASE a = o
    BY <1>20, <2>1
  <2>2. CASE a # o
    <3>1. mark[a] = "gray" /\ a \in Addr
      BY <1>0, <1>4, <1>24, <2>2
    <3>2. a \notin Todo
      BY <1>3, <1>7, <1>24, <2>2 DEF Todo, Listed
    <3>3. StrongDark(a)
      BY <1>0, <1>7, <1>24, <3>1, <3>2 DEF GrayInv
    <3> QED BY <1>18, <3>1, <3>3
  <2> QED BY <2>1, <2>2
<1>25. /\ \A a \in weak' : tt[a] = "table"
       /\ atomic' \in {"again", "tmudata"} => \A a \in grayagain' : tt[a] = "thread"
  BY <1>0, <1>3, <1>7, <1>12 DEF ListInv
<1>26. \A a \in Addr : \/ m[a] = mark[a]
                       \/ m[a] \in Whites /\ a \in S /\ tt[a] = "userdata"
                       \/ m[a] = "black" /\ mark[a] = "gray" /\ AllDark(a)'
  BY <1>2, <1>4, <1>5, <1>19
<1>27. atomic' = "tmudata" => \A a \in tmudata' : Dark(a) \/ a \in S
  BY <1>1, <1>7, MarkPhase DEF RootInv
<1> QED BY <1>1, <1>3, <1>4, <1>6, <1>7, <1>8, <1>15, <1>22, <1>23, <1>24, <1>25, <1>26, <1>27, MarksKeep

-----------------------------------------------------------------------------
(***************************************************************************)
(* The parts of atomic that mark from the colours as they are.             *)
(***************************************************************************)
LEMMA AtomicMarks ==
  ASSUME IInv, NEW before, NEW after \in {"upvals", "weak", "again"}, AtomicPart(before, after),
         before # "tmudata",
         NEW S, \A o \in S \cap Addr : o \in Alive,
         mark' = reallymarkobject(mark, S),
         UNCHANGED <<tt, fields, chains, gcstate, currentwhite, sweepstrgc, sweepgc>>,
         grayagain' \in SUBSET Addr, weak' \in SUBSET Addr, gray' \in SUBSET Addr,
         Queued(mark, S) \subseteq gray', Listed' = Listed \cup Queued(mark, S),
         \A o \in weak' : tt[o] = "table",
         after = "again" => \A o \in grayagain' : tt[o] = "thread",
         gray' \cap grayagain' = {} /\ weak' \cap (gray' \cup grayagain') = {},
         \A o \in Objects \ Todo' : mark[o] = "gray" => StrongDark(o)'
  PROVE  IInv'
<1> USE DEF IInv
<1>1. /\ gcstate = "propagate" /\ gray = {} /\ atomic = before /\ atomic' = after
      /\ UNCHANGED <<running, full, tt, meta, attr, key, val, upvals, stack, text, finalized, called,
                     rootgc, tmudata, gcstate, currentwhite, sweepstrgc, sweepgc>>
  BY DEF AtomicPart, fields, entries, chains
<1>0. /\ Typed /\ "gray" \notin Whites /\ "black" \notin Whites
      /\ mark \in [Addr -> Colours] /\ Objects \subseteq Addr /\ ListInv
      /\ \A a \in Addr : /\ tt[a] = "thread" => mark[a] # "black"
                         /\ tt[a] = "userdata" => mark[a] # "gray"
                         /\ tt[a] = "free" => mark[a] \in Whites
                         /\ isopen(a) => mark[a] # "black"
  BY <1>1, MarkPhase
<1>2. /\ mark' \in [Addr -> Colours]
      /\ \A a \in Addr : /\ mark'[a] # Other(currentwhite) \/ mark'[a] = mark[a]
                         /\ tt[a] = "thread" => mark'[a] # "black"
                         /\ tt[a] = "userdata" => mark'[a] # "gray"
                         /\ tt[a] = "free" => mark'[a] \in Whites
                         /\ isopen(a) => mark'[a] # "black"
  BY <1>0, MarkingColours
<1>3. Marks
  <2>1. /\ key' \in [Addr -> Values] /\ finalized' \in SUBSET Addr
        /\ rootgc' \cap tmudata' = {} /\ full' \in {"no", "clearing", "marking"}
    BY <1>0, <1>1 DEF Typed, TypeOK
  <2> QED BY <1>1, <1>2, <2>1 DEF Marks, Sweeping
<1>4. \A o \in Listed : mark[o] = "gray"
  BY <1>0 DEF ListInv
<1> QED BY <1>0, <1>1, <1>3, <1>4, MarksKeep

(* remarkupvals: the values of open upvalues, dead threads' too.           *)
LEMMA RemarkUpvalsStep == ASSUME IInv, RemarkUpvals PROVE IInv'
<1> USE DEF IInv
<1> DEFINE S == {UpvalValue(u) : u \in {x \in Addr : isopen(x) /\ mark[x] = "gray"}}
<1>1. /\ AtomicPart("no", "upvals")
      /\ mark' = reallymarkobject(mark, S) /\ gray' = Queued(mark, S)
      /\ UNCHANGED <<tt, fields, chains, grayagain, weak, gcstate, currentwhite, sweepstrgc, sweepgc>>
  BY DEF RemarkUpvals, Mark
<1>2. /\ gcstate = "propagate" /\ gray = {} /\ atomic = "no" /\ atomic' = "upvals"
      /\ UNCHANGED <<tt, meta, attr, key, val, upvals, stack, grayagain, weak>>
  BY <1>1 DEF AtomicPart, fields, entries
<1>0. /\ Typed /\ "gray" \notin Whites /\ "black" \notin Whites
      /\ mark \in [Addr -> Colours] /\ Alive = Objects /\ Objects \subseteq Addr
      /\ ListInv /\ GrayInv
  BY <1>2, MarkPhase
<1>3. \A o \in S \cap Addr : o \in Alive
  <2> SUFFICES ASSUME NEW u \in Addr, isopen(u), UpvalValue(u) \in Addr PROVE UpvalValue(u) \in Alive
    OBVIOUS
  <2>1. u \in Alive /\ tt[u] = "upval"
    BY <1>0 DEF isopen, Objects
  <2> QED BY <2>1 DEF HeapInv, Sound, Valid
<1>4. \A u \in Addr : isopen(u) /\ mark[u] = "gray" => UpvalValue(u) \in S
  OBVIOUS
<1> HIDE DEF S
<1>5. \A a \in Queued(mark, S) : mark[a] \in Whites /\ a \in Addr
  BY DEF Queued, Reached, WhiteOf
<1>6. Listed' = Listed \cup Queued(mark, S) /\ Todo' = Listed'
  BY <1>1, <1>2 DEF Listed, Todo
<1>7. gray' \cap grayagain' = {} /\ weak' \cap (gray' \cup grayagain') = {}
  BY <1>0, <1>1, <1>5 DEF ListInv, Listed
<1>8. ASSUME NEW o \in Objects \ Todo', mark[o] = "gray" PROVE StrongDark(o)'
  <2>1. tt[o] = "string" \/ isopen(o)
    BY <1>0, <1>2, <1>6, <1>8 DEF GrayInv
  <2>2. ASSUME isopen(o) PROVE Dark(UpvalValue(o))'
    <3>1. UpvalValue(o) \in S
      BY <1>0, <1>4, <1>8, <2>2
    <3>2. \A v \in S : DarkIn(mark', v)
      BY <1>0, <1>1, <1>3, Marking
    <3>3. UpvalValue(o)' = UpvalValue(o)
      BY <1>2 DEF UpvalValue, isopen, upvals
    <3> QED BY <3>1, <3>2, <3>3 DEF Dark, DarkIn, iswhite
  <2>3. isopen(o) => tt[o] = "upval"
    BY DEF isopen
  <2> QED BY <1>2, <2>1, <2>2, <2>3 DEF StrongDark
<1>9. /\ \A o \in weak' : tt[o] = "table"
      /\ gray' \in SUBSET Addr /\ grayagain' \in SUBSET Addr /\ weak' \in SUBSET Addr
  BY <1>0, <1>1, <1>2, <1>5 DEF ListInv, TypeOK
<1>10. UNCHANGED <<tt, fields, chains, gcstate, currentwhite, sweepstrgc, sweepgc>>
  BY <1>1
<1> QED BY <1>1, <1>3, <1>6, <1>7, <1>8, <1>9, <1>10, AtomicMarks

(* The weak tables are traversed again, and the running thread.            *)
LEMMA RemarkWeakStep == ASSUME IInv, RemarkWeak PROVE IInv'
<1> USE DEF IInv
<1>1. /\ AtomicPart("upvals", "weak")
      /\ mark' = reallymarkobject(mark, {L}) /\ gray' = weak \cup Queued(mark, {L}) /\ weak' = {}
      /\ UNCHANGED <<tt, fields, chains, grayagain, gcstate, currentwhite, sweepstrgc, sweepgc>>
  BY DEF RemarkWeak, Mark
<1>2. /\ gcstate = "propagate" /\ gray = {} /\ atomic = "upvals" /\ atomic' = "weak"
      /\ UNCHANGED <<tt, meta, attr, key, val, upvals, stack, grayagain>>
  BY <1>1 DEF AtomicPart, fields, entries
<1>0. /\ Typed /\ "gray" \notin Whites /\ "black" \notin Whites
      /\ mark \in [Addr -> Colours] /\ Objects \subseteq Addr
      /\ ListInv /\ GrayInv
  BY <1>2, MarkPhase
<1>3. \A o \in {L} \cap Addr : o \in Alive
  BY RunningThread
<1>4. \A a \in Queued(mark, {L}) : mark[a] \in Whites /\ a \in Addr
  BY DEF Queued, Reached, WhiteOf
<1> HIDE DEF L
<1>5. Listed' = Listed \cup Queued(mark, {L})
  BY <1>1, <1>2 DEF Listed
<1>6. gray' \cap grayagain' = {} /\ weak' \cap (gray' \cup grayagain') = {}
  BY <1>0, <1>1, <1>2, <1>4 DEF ListInv, Listed
<1>7. ASSUME NEW o \in Objects \ Todo', mark[o] = "gray" PROVE StrongDark(o)'
  <2>1. o \notin Todo
    BY <1>1, <1>2, <1>7 DEF Todo, Listed
  <2>2. StrongDark(o)
    BY <1>0, <1>2, <1>7, <2>1 DEF GrayInv
  <2> QED BY <1>0, <1>1, <1>2, <1>3, <1>7, <2>2, MarkingDarkens DEF iswhite
<1>8. /\ \A o \in weak' : tt[o] = "table"
      /\ gray' \in SUBSET Addr /\ grayagain' \in SUBSET Addr /\ weak' \in SUBSET Addr
  BY <1>1, <1>4 DEF TypeOK
<1>9. UNCHANGED <<tt, fields, chains, gcstate, currentwhite, sweepstrgc, sweepgc>>
  BY <1>1
<1> QED BY <1>1, <1>3, <1>5, <1>6, <1>7, <1>8, <1>9, AtomicMarks

(* What is left are threads, and tables that a barrier made gray.          *)
LEMMA RemarkAgainStep == ASSUME IInv, RemarkAgain PROVE IInv'
<1> USE DEF IInv
<1>1. /\ AtomicPart("weak", "again")
      /\ gray' = grayagain /\ grayagain' = {} /\ weak' = weak /\ mark' = mark
      /\ UNCHANGED <<tt, fields, chains, gcstate, currentwhite, sweepstrgc, sweepgc>>
  BY DEF RemarkAgain, heads
<1>2. /\ gcstate = "propagate" /\ gray = {} /\ atomic = "weak" /\ atomic' = "again"
      /\ UNCHANGED <<tt, meta, attr, key, val, upvals, stack>>
  BY <1>1 DEF AtomicPart, fields, entries
<1>0. /\ Typed /\ mark \in [Addr -> Colours] /\ Objects \subseteq Addr /\ ListInv /\ GrayInv /\ nil \notin Addr
  BY <1>2, MarkPhase
<1>3. Reached(mark, {}) = {}
  BY DEF Reached, WhiteOf
<1>4. Queued(mark, {}) = {} /\ reallymarkobject(mark, {}) = mark
  BY <1>0, <1>3 DEF Queued, reallymarkobject
<1>5. Listed' = Listed \cup Queued(mark, {})
  BY <1>1, <1>2, <1>4 DEF Listed
<1>6. gray' \cap grayagain' = {} /\ weak' \cap (gray' \cup grayagain') = {}
  BY <1>0, <1>1 DEF ListInv
<1>7. ASSUME NEW o \in Objects \ Todo', mark[o] = "gray" PROVE StrongDark(o)'
  <2>1. o \notin Todo
    BY <1>1, <1>2, <1>7 DEF Todo, Listed
  <2>2. StrongDark(o)
    BY <1>0, <1>2, <1>7, <2>1 DEF GrayInv
  <2> QED BY <1>0, <1>1, <1>2, <1>7, <2>2, DarkKept DEF iswhite
<1>8. /\ \A o \in weak' : tt[o] = "table"
      /\ gray' \in SUBSET Addr /\ grayagain' \in SUBSET Addr /\ weak' \in SUBSET Addr
  BY <1>0, <1>1 DEF ListInv, TypeOK
<1>9. UNCHANGED <<tt, fields, chains, gcstate, currentwhite, sweepstrgc, sweepgc>>
  BY <1>1
<1> QED BY <1>1, <1>4, <1>5, <1>6, <1>7, <1>8, <1>9, AtomicMarks

(* Userdata that wait for their finalizer are marked, whatever they were.  *)
LEMMA SeparateUdataStep == ASSUME IInv, SeparateUdata PROVE IInv'
<1> USE DEF IInv
<1> DEFINE queued == {o \in Unreached : "gc" \in Meta(o)}
           S == tmudata \cup queued
           m == With(mark, S, currentwhite)
<1>1. /\ AtomicPart("again", "tmudata")
      /\ finalized' = finalized \cup Unreached
      /\ tmudata' = S /\ rootgc' = rootgc \ queued
      /\ mark' = reallymarkobject(m, S) /\ gray' = Queued(m, S)
      /\ UNCHANGED <<tt, entries, upvals, stack, text, called, grayagain, weak,
                     gcstate, currentwhite, sweepstrgc, sweepgc>>
  BY DEF SeparateUdata, Mark, markfinalized
<1>2. /\ gcstate = "propagate" /\ gray = {} /\ atomic = "again" /\ atomic' = "tmudata"
      /\ UNCHANGED <<running, full, tt, meta, attr, key, val, upvals, stack, text, called, grayagain, weak,
                     gcstate, currentwhite, sweepstrgc, sweepgc>>
  BY <1>1 DEF AtomicPart, entries
<1>0. /\ Typed /\ "gray" \notin Whites /\ "black" \notin Whites /\ currentwhite \in Whites
      /\ currentwhite # Other(currentwhite)
      /\ mark \in [Addr -> Colours] /\ Alive = Objects /\ Objects \subseteq Addr
      /\ ListInv /\ GrayInv
      /\ \A a \in Addr : /\ tt[a] = "thread" => mark[a] # "black"
                         /\ tt[a] = "userdata" => mark[a] # "gray"
                         /\ tt[a] = "free" => mark[a] \in Whites
                         /\ isopen(a) => mark[a] # "black"
  BY <1>2, MarkPhase
<1>3. /\ queued \subseteq rootgc /\ queued \subseteq Unreached
      /\ rootgc \subseteq Objects /\ tmudata \subseteq Objects
      /\ \A u \in Unreached : u \in Addr /\ tt[u] = "userdata" /\ u \notin finalized
      /\ \A u \in tmudata : tt[u] = "userdata"
  BY DEF Unreached, TypeOK, TmuInv, Objects
<1> HIDE DEF queued
<1>4. /\ S \subseteq Addr /\ \A o \in S : o \in Alive /\ tt[o] = "userdata"
      /\ tmudata \subseteq S
  BY <1>0, <1>3
<1> HIDE DEF S
<1>5. m \in [Addr -> Colours] /\ \A a \in Addr : m[a] = IF a \in S THEN currentwhite ELSE mark[a]
  BY <1>0 DEF With, Colours, Whites
<1> HIDE DEF m
<1>6. /\ mark' \in [Addr -> Colours]
      /\ \A a \in Addr : /\ mark'[a] # Other(currentwhite) \/ mark'[a] = mark[a]
                         /\ tt[a] = "thread" => mark'[a] # "black"
                         /\ tt[a] = "userdata" => mark'[a] # "gray"
                         /\ tt[a] = "free" => mark'[a] \in Whites
                         /\ isopen(a) => mark'[a] # "black"
      /\ Queued(m, S) \in SUBSET Addr
  <2>1. ASSUME NEW a \in Addr
        PROVE  /\ m[a] # Other(currentwhite) \/ m[a] = mark[a]
               /\ tt[a] = "thread" => m[a] # "black"
               /\ tt[a] = "userdata" => m[a] # "gray"
               /\ tt[a] = "free" => m[a] \in Whites
               /\ isopen(a) => m[a] # "black"
    BY <1>0, <1>5
  <2> QED BY <1>0, <1>1, <1>4, <1>5, <2>1, MarkingColours
<1>7. called \cap Unreached = {} /\ finalized \subseteq Addr /\ called \subseteq finalized
  BY <1>3 DEF TypeOK
<1>8. Marks
  <2>1. /\ key' \in [Addr -> Values] /\ finalized' \in SUBSET Addr /\ finalized \subseteq finalized'
        /\ full' \in {"no", "clearing", "marking"} /\ weak' \in SUBSET Addr /\ grayagain' \in SUBSET Addr
    BY <1>0, <1>1, <1>2, <1>3 DEF Typed, TypeOK
  <2>2. rootgc' \cup tmudata' = rootgc \cup tmudata /\ rootgc' \cap tmudata' = {}
    BY <1>1, <1>3 DEF S, TypeOK
  <2>3. \A u \in tmudata' : u \in tmudata \/ (tt[u] = "userdata" /\ u \in finalized' /\ u \notin called)
    BY <1>1, <1>3, <1>7 DEF S
  <2> QED BY <1>1, <1>2, <1>6, <2>1, <2>2, <2>3 DEF Marks, Sweeping
<1>9. \A a \in Queued(m, S) : m[a] \in Whites /\ a \in Addr /\ tt[a] \in {"table", "function", "thread"}
  BY DEF Queued, Reached, WhiteOf
<1>10. \A o \in Listed : o \in Addr /\ o \notin S /\ mark[o] = "gray" /\ m[o] = "gray"
  BY <1>0, <1>4, <1>5 DEF ListInv
<1>11. Listed' = Listed \cup Queued(m, S)
  BY <1>1, <1>2 DEF Listed
<1>12. gray' \cap grayagain' = {} /\ weak' \cap (gray' \cup grayagain') = {}
  <2>1. Queued(m, S) \cap Listed = {}
    BY <1>0, <1>9, <1>10
  <2> QED BY <1>0, <1>1, <1>2, <2>1 DEF ListInv, Listed
<1>13. ASSUME NEW o \in Objects \ Todo', m[o] = "gray" PROVE StrongDark(o)'
  <2>1. o \in Addr /\ mark[o] = "gray"
    BY <1>0, <1>5, <1>13
  <2>2. o \notin Todo
    BY <1>2 DEF Todo
  <2>3. StrongDark(o)
    BY <1>0, <1>2, <1>13, <2>1, <2>2 DEF GrayInv
  <2>4. \A a \in Addr : m[a] \in Whites => mark[a] \in Whites \/ a \in S
    BY <1>5
  <2> QED BY <1>0, <1>1, <1>2, <1>4, <1>5, <2>1, <2>3, <2>4, MarkingDarkens
<1>14. /\ \A o \in weak' : tt[o] = "table"
       /\ \A o \in grayagain' : tt[o] = "thread"
  BY <1>0, <1>2 DEF ListInv
<1> QED BY <1>0, <1>1, <1>2, <1>4, <1>5, <1>8, <1>10, <1>11, <1>12, <1>13, <1>14, MarksKeep

-----------------------------------------------------------------------------
(***************************************************************************)
(* The end of atomic: what is dark, or a string in an entry, is alive when *)
(* the white is flipped.                                                   *)
(***************************************************************************)
LEMMA ClearedFields ==
  ASSUME IInv, ClearWeak
  PROVE  /\ gcstate = "propagate" /\ atomic = "tmudata" /\ gray = {}
         /\ UNCHANGED <<tt, meta, attr, upval, thread, level, stack, text, finalized, called, rootgc, tmudata,
                        gray, grayagain, weak, running, full>>
         /\ currentwhite' = Other(currentwhite) /\ Other(currentwhite)' = currentwhite
         /\ gcstate' = "sweepstring" /\ sweepstrgc' = 0 /\ sweepgc' = rootgc /\ atomic' = "no"
         /\ mark' \in [Addr -> Colours] /\ val' \in [Addr -> Values] /\ key' \in [Addr -> Values]
         /\ \A a \in Addr : mark'[a] = IF a \in StringEntries THEN "gray" ELSE mark[a]
         /\ \A a \in Addr : val'[a] = IF a \in Collected THEN nil ELSE val[a]
         /\ \A a \in Addr \ Collected : key'[a] = key[a]
         /\ \A a \in Collected : a \in weak /\ tt[a] = "table"
         /\ Alive' = {a \in Objects : ~iswhite(a) \/ a \in StringEntries}
<1>1. /\ AtomicPart("tmudata", "no")
      /\ mark' = With(mark, StringEntries, "gray")
      /\ val' = With(val, Collected, nil)
      /\ key' = [a \in Addr |-> IF a \in Collected /\ key[a] \in Addr THEN nil ELSE key[a]]
      /\ currentwhite' = Other(currentwhite)
      /\ sweepstrgc' = 0 /\ sweepgc' = rootgc
      /\ gcstate' = "sweepstring"
      /\ UNCHANGED <<tt, meta, attr, upvals, stack, text, finalized, called, chains, lists>>
  BY DEF ClearWeak, removeentries
<1>2. /\ gcstate = "propagate" /\ atomic = "tmudata" /\ gray = {}
      /\ UNCHANGED <<tt, meta, attr, upval, thread, level, stack, text, finalized, called, rootgc, tmudata,
                        gray, grayagain, weak, running, full>>
      /\ atomic' = "no"
  BY <1>1 DEF AtomicPart, upvals, chains, lists
<1>3. /\ Typed /\ "gray" \notin Whites /\ "black" \notin Whites /\ currentwhite \in Whites
      /\ mark \in [Addr -> Colours] /\ Alive = Objects /\ Objects \subseteq Addr /\ ListInv
  BY <1>2, MarkPhase
<1>4. Other(currentwhite)' = currentwhite
  BY <1>1, <1>3 DEF Other, Whites
<1>5. /\ mark' \in [Addr -> Colours] /\ val' \in [Addr -> Values] /\ key' \in [Addr -> Values]
      /\ \A a \in Addr : mark'[a] = IF a \in StringEntries THEN "gray" ELSE mark[a]
      /\ \A a \in Addr : val'[a] = IF a \in Collected THEN nil ELSE val[a]
      /\ \A a \in Addr \ Collected : key'[a] = key[a]
  BY <1>1, <1>3 DEF With, Typed, Colours, Values
<1>6. \A a \in Collected : a \in weak /\ tt[a] = "table"
  BY <1>3 DEF Collected, ListInv
<1>7. \A a \in Objects : ~isdead(a) /\ a \in Addr
  BY <1>3 DEF Alive
<1>8. \A a \in Objects : isdead(a)' <=> (iswhite(a) /\ a \notin StringEntries)
  <2> SUFFICES ASSUME NEW a \in Objects PROVE isdead(a)' <=> (iswhite(a) /\ a \notin StringEntries)
    OBVIOUS
  <2>1. isdead(a)' <=> mark'[a] = currentwhite
    BY <1>4 DEF isdead
  <2>2. iswhite(a) <=> mark[a] = currentwhite
    BY <1>3, <1>7, TwoWhites DEF iswhite, isdead
  <2>3. a \in Addr
    BY <1>7
  <2>4. CASE a \in StringEntries
    <3>1. mark'[a] = "gray"
      BY <1>5, <2>3, <2>4
    <3> QED BY <1>3, <2>1, <2>4, <3>1
  <2>5. CASE a \notin StringEntries
    <3>1. mark'[a] = mark[a]
      BY <1>5, <2>3, <2>5
    <3> QED BY <2>1, <2>2, <2>5, <3>1
  <2> QED BY <2>4, <2>5
<1>9. Objects' = Objects
  BY <1>2 DEF Objects
<1>10. Alive' = {a \in Objects : ~iswhite(a) \/ a \in StringEntries}
  BY <1>8, <1>9 DEF Alive
<1> QED BY <1>1, <1>2, <1>4, <1>5, <1>6, <1>10

(* cleartable: after the flip, what the entries left refer to is alive.    *)
LEMMA ClearWeakHeap ==
  ASSUME IInv, ClearWeak
  PROVE  HeapInv'
<1> USE DEF IInv
<1>1. /\ gcstate = "propagate" /\ atomic = "tmudata" /\ gray = {}
      /\ UNCHANGED <<tt, meta, attr, upval, thread, level, stack, text, finalized, called, rootgc, tmudata,
                        gray, grayagain, weak, running, full>>
      /\ \A a \in Addr : mark'[a] = IF a \in StringEntries THEN "gray" ELSE mark[a]
      /\ \A a \in Addr : val'[a] = IF a \in Collected THEN nil ELSE val[a]
      /\ \A a \in Addr \ Collected : key'[a] = key[a]
      /\ \A a \in Collected : a \in weak /\ tt[a] = "table"
      /\ Alive' = {a \in Objects : ~iswhite(a) \/ a \in StringEntries}
  BY ClearedFields
<1>0. /\ nil \notin Addr /\ nil \in Values
      /\ mark \in [Addr -> Colours] /\ Alive = Objects /\ Objects \subseteq Addr
      /\ ListInv /\ BlackInv /\ GrayInv
      /\ \A o \in Addr : /\ tt[o] = "thread" => mark[o] # "black"
                         /\ tt[o] = "userdata" => mark[o] # "gray"
  BY <1>1, MarkPhase DEF Values
<1>2. \A v \in Valid : (v \in Addr => ~iswhite(v) \/ v \in StringEntries) => v \in Valid'
  BY <1>0, <1>1 DEF Valid
<1>3. \A v \in Valid : Dark(v) => v \in Valid'
  BY <1>2 DEF Dark
<1>4. \A v \in AliveTables \cup {nil} : Dark(v) => v \in (AliveTables \cup {nil})'
  BY <1>0, <1>1 DEF AliveTables, Dark
<1> SUFFICES ASSUME NEW o \in Alive' PROVE Sound(o)'
  BY DEF HeapInv
<1>5. o \in Objects /\ o \in Addr /\ Sound(o) /\ (tt[o] = "string" \/ ~iswhite(o))
  BY <1>0, <1>1 DEF HeapInv, StringEntries
<1>6. CASE tt[o] = "string"
  BY <1>1, <1>6 DEF Sound
<1>7. ASSUME ~iswhite(o) PROVE isblack(o) \/ mark[o] = "gray"
  BY <1>0, <1>5, <1>7 DEF isblack, iswhite, Colours, Whites
<1>8. ASSUME isblack(o) PROVE AllDark(o)
  BY <1>0, <1>1, <1>5, <1>8 DEF BlackInv
<1>9. ASSUME mark[o] = "gray" PROVE StrongDark(o)
  BY <1>0, <1>1, <1>5, <1>9 DEF GrayInv, Todo
<1>10. CASE tt[o] = "table" /\ isblack(o)
  <2>1. o \notin Collected
    BY <1>0, <1>1, <1>10 DEF ListInv, Listed, isblack
  <2> QED BY <1>1, <1>3, <1>4, <1>5, <1>8, <1>10, <2>1 DEF Sound, AllDark
<1>11. CASE tt[o] = "table" /\ mark[o] = "gray"
  <2>1. o \in weak
    BY <1>0, <1>1, <1>5, <1>11 DEF ListInv, Listed
  <2>2. meta[o] \in (AliveTables \cup {nil})'
    BY <1>4, <1>5, <1>9, <1>11 DEF Sound, StrongDark, traversetable
  <2>3. CASE o \in Collected \/ val[o] = nil
    <3>1. val'[o] = nil /\ nil \in Valid'
      BY <1>0, <1>1, <1>5, <2>3 DEF Valid
    <3> QED BY <1>1, <1>11, <2>2, <3>1 DEF Sound
  <2>4. CASE o \notin Collected /\ val[o] # nil
    <3>1. ~iscleared(key[o], TRUE) /\ ~iscleared(val[o], FALSE)
      BY <2>1, <2>4 DEF Collected
    <3>2. key[o] \in Valid /\ val[o] \in Valid
      BY <1>5, <1>11, <2>4 DEF Sound
    <3>3. key[o] \in Addr => ~iswhite(key[o]) \/ key[o] \in StringEntries
      BY <2>1, <2>4, <3>1 DEF iscleared, StringEntries
    <3>4. val[o] \in Addr => ~iswhite(val[o]) \/ val[o] \in StringEntries
      BY <2>1, <2>4, <3>1 DEF iscleared, StringEntries
    <3> QED BY <1>1, <1>2, <1>5, <1>11, <2>2, <2>4, <3>2, <3>3, <3>4 DEF Sound
  <2> QED BY <2>3, <2>4
<1>12. CASE tt[o] = "userdata"
  <2>1. Dark(meta[o])
    BY <1>0, <1>5, <1>7, <1>8, <1>12 DEF AllDark
  <2> QED BY <1>1, <1>4, <1>5, <1>12, <2>1 DEF Sound
<1>13. CASE tt[o] = "function"
  <2>1. Dark(upval[o]) /\ upval[o] \in Alive /\ tt[upval[o]] = "upval"
    BY <1>5, <1>7, <1>8, <1>9, <1>13 DEF AllDark, StrongDark, Sound
  <2>2. upval[o] \in Alive'
    BY <1>0, <1>1, <2>1 DEF Dark
  <2> QED BY <1>1, <1>13, <2>1, <2>2 DEF Sound
<1>14. CASE tt[o] = "upval"
  <2>1. Dark(UpvalValue(o)) /\ UpvalValue(o) \in Valid
    BY <1>5, <1>7, <1>8, <1>9, <1>14 DEF AllDark, StrongDark, Sound
  <2>2. val'[o] = val[o]
    BY <1>1, <1>5, <1>14
  <2>3. UpvalValue(o)' = UpvalValue(o)
    BY <1>1, <2>2 DEF UpvalValue, isopen
  <2> QED BY <1>1, <1>3, <1>14, <2>1, <2>3 DEF Sound
<1>15. CASE tt[o] = "thread"
  <2>1. \A i \in DOMAIN stack[o] : Dark(stack[o][i]) /\ stack[o][i] \in Valid
    BY <1>0, <1>5, <1>7, <1>9, <1>15 DEF StrongDark, Sound, isblack
  <2> QED BY <1>1, <1>3, <1>15, <2>1 DEF Sound
<1>16. CASE tt[o] \notin {"table", "userdata", "function", "upval", "thread"}
  BY <1>1, <1>16 DEF Sound
<1> QED BY <1>5, <1>6, <1>7, <1>10, <1>11, <1>12, <1>13, <1>14, <1>15, <1>16

(* Who runs is dark: each is on the stack of the one before.               *)
LEMMA RunningDark ==
  ASSUME IInv, gcstate = "propagate", atomic = "tmudata", gray = {}
  PROVE  \A i \in DOMAIN running : ~iswhite(running[i])
<1> USE DEF IInv
<1>0. /\ mark \in [Addr -> Colours] /\ Alive = Objects /\ Objects \subseteq Addr
      /\ ListInv /\ BlackInv /\ GrayInv /\ RootInv
      /\ \A o \in Addr : tt[o] = "thread" => mark[o] # "black"
  BY MarkPhase
<1>1. /\ Len(running) \in Nat \ {0} /\ DOMAIN running = 1 .. Len(running)
      /\ running[1] = Main /\ Main \in Addr
      /\ \A i \in DOMAIN running : running[i] \in Alive /\ tt[running[i]] = "thread"
      /\ \A i \in DOMAIN running : i + 1 \in DOMAIN running => Holds(running[i], running[i + 1])
  BY RunningThread, MemoryAssumption DEF RunningInv
<1> DEFINE D == {n \in Nat : n + 1 \in DOMAIN running => ~iswhite(running[n + 1])}
<1>2. 0 \in D
  BY <1>0, <1>1 DEF RootInv, Dark
<1>3. ASSUME NEW n \in Nat, n \in D PROVE n + 1 \in D
  <2> SUFFICES ASSUME (n + 1) + 1 \in DOMAIN running PROVE ~iswhite(running[(n + 1) + 1])
    OBVIOUS
  <2>1. n + 1 \in DOMAIN running
    BY <1>1
  <2> DEFINE t == running[n + 1]
             s == running[(n + 1) + 1]
  <2>2. t \in Objects /\ t \in Addr /\ tt[t] = "thread" /\ ~iswhite(t) /\ Holds(t, s)
    BY <1>0, <1>1, <1>3, <2>1
  <2>3. s \in Addr
    BY <1>0, <1>1
  <2> HIDE DEF t, s
  <2>4. mark[t] = "gray"
    BY <1>0, <2>2 DEF iswhite, Colours, Whites
  <2>5. StrongDark(t)
    BY <1>0, <2>2, <2>4 DEF GrayInv, Todo
  <2>6. \E j \in DOMAIN stack[t] : stack[t][j] = s
    BY <2>2 DEF Holds
  <2>7. Dark(s)
    BY <2>2, <2>5, <2>6 DEF StrongDark
  <2> QED BY <2>3, <2>7 DEF Dark, s
<1> HIDE DEF D
<1>4. \A n \in Nat : n \in D
  BY <1>2, <1>3, NatSetInduction
<1>5. ASSUME NEW i \in DOMAIN running PROVE ~iswhite(running[i])
  <2>1. i - 1 \in D /\ (i - 1) + 1 = i
    BY <1>1, <1>4
  <2> QED BY <2>1 DEF D
<1> QED BY <1>5

(* The flip: all that is white then is dead, and nothing alive refers to   *)
(* it.                                                                     *)
LEMMA ClearWeakStep == ASSUME IInv, ClearWeak PROVE IInv'
<1> USE DEF IInv
<1>1. /\ gcstate = "propagate" /\ atomic = "tmudata" /\ gray = {}
      /\ UNCHANGED <<tt, meta, attr, upval, thread, level, stack, text, finalized, called, rootgc, tmudata,
                        gray, grayagain, weak, running, full>>
      /\ currentwhite' = Other(currentwhite)
      /\ gcstate' = "sweepstring" /\ sweepstrgc' = 0 /\ sweepgc' = rootgc /\ atomic' = "no"
      /\ mark' \in [Addr -> Colours] /\ val' \in [Addr -> Values] /\ key' \in [Addr -> Values]
      /\ \A a \in Addr : mark'[a] = IF a \in StringEntries THEN "gray" ELSE mark[a]
      /\ Alive' = {a \in Objects : ~iswhite(a) \/ a \in StringEntries}
  BY ClearedFields
<1>0. /\ Typed /\ mark \in [Addr -> Colours] /\ Alive = Objects /\ Objects \subseteq Addr /\ RootInv
      /\ Other(currentwhite) \in Whites
  BY <1>1, MarkPhase, TwoWhites
<1>2. Objects' = Objects /\ \A o \in Addr : isopen(o)' <=> isopen(o)
  BY <1>1 DEF Objects, isopen
<1>3. HeapInv'
  BY ClearWeakHeap
<1>4. \A a \in StringEntries : tt[a] = "string"
  BY DEF StringEntries
<1>5. OpenInv'
  BY <1>1, <1>2 DEF OpenInv
<1>6. RunningInv'
  <2>1. \A i \in DOMAIN running : running[i] \in Alive'
    <3>1. \A i \in DOMAIN running : running[i] \in Objects
      BY <1>0 DEF RunningInv
    <3> QED BY <1>1, <3>1, RunningDark
  <2>2. Globals \in AliveTables'
    BY <1>0, <1>1 DEF RunningInv, AliveTables, RootInv, Dark
  <2>3. \A s, t : Holds(s, t)' <=> Holds(s, t)
    BY <1>1, <1>2 DEF Holds
  <2> QED BY <1>1, <2>1, <2>2, <2>3 DEF RunningInv
<1>7. TmuInv'
  <2>1. \A u \in tmudata : u \in Alive'
    BY <1>0, <1>1 DEF TmuInv, RootInv, Dark
  <2> QED BY <1>1, <2>1 DEF TmuInv
<1>8. SweepInv'
  <2>1. \A s \in Objects : tt[s] = "string" => text[s] \in Texts
    BY DEF SweepInv
  <2>2. \A s \in Objects : tt[s] = "string" => ~(text[s] <= 0)
    BY <2>1 DEF Texts
  <2>3. 0 < NTexts
    BY MemoryAssumption
  <2> QED BY <1>1, <1>2, <2>1, <2>2, <2>3 DEF SweepInv, Sweeping
<1>9. MarkInv'
  BY <1>1 DEF MarkInv
<1>10. ColourInv'
  <2>1. ASSUME NEW o \in Addr
        PROVE  /\ tt[o] = "thread" => mark'[o] # "black"
               /\ tt[o] = "userdata" => mark'[o] # "gray"
               /\ tt[o] = "free" => mark'[o] \in Whites
    BY <1>1, <1>4 DEF ColourInv, isblack, iswhite
  <2> QED BY <1>1, <2>1 DEF ColourInv, isblack, iswhite
<1>11. TypeOK'
  <2>1. rootgc' \cup tmudata' = {a \in Objects' : tt'[a] # "string" /\ ~isopen(a)'}
    <3>1. rootgc \cup tmudata = {a \in Objects : tt[a] # "string" /\ ~isopen(a)}
      BY DEF TypeOK
    <3> QED BY <1>0, <1>1, <1>2, <3>1
  <2>2. \A a, b \in Objects' : tt'[a] = "string" /\ tt'[b] = "string" /\ text'[a] = text'[b] => a = b
    BY <1>1, <1>2 DEF TypeOK
  <2>3. /\ mark' \in [Addr -> Whites' \cup {"gray", "black"}] /\ currentwhite' \in Whites'
    BY <1>0, <1>1 DEF Whites, Colours
  <2> QED BY <1>1, <2>1, <2>2, <2>3 DEF TypeOK
<1> QED BY <1>3, <1>5, <1>6, <1>7, <1>8, <1>9, <1>10, <1>11

-----------------------------------------------------------------------------
(***************************************************************************)
(* The sweeps free what is dead.                                           *)
(***************************************************************************)
StringList  == {a \in Objects : tt[a] = "string" /\ text[a] = sweepstrgc + 1}
DeadStrings == {a \in StringList : isdead(a)}
(* A list of the string table is swept: what is freed was dead.            *)
LEMMA SweepStringStep == ASSUME IInv, SweepString PROVE IInv'
<1> USE DEF IInv
<1>1. /\ gcstate = "sweepstring"
      /\ tt' = With(tt, DeadStrings, "free")
      /\ mark' = With(With(mark, StringList, currentwhite), DeadStrings, "white0")
      /\ text' = With(text, DeadStrings, 0)
      /\ sweepstrgc' = sweepstrgc + 1
      /\ gcstate' = IF sweepstrgc' >= NTexts THEN "sweep" ELSE gcstate
      /\ UNCHANGED <<entries, upvals, stack, finalized, called, chains, lists,
                     currentwhite, sweepgc, atomic, running, full, ops>>
  BY DEF SweepString, Swept, StringList, DeadStrings
<1>2. UNCHANGED <<meta, attr, key, val, upval, thread, level, stack, finalized, called, rootgc, tmudata,
                  gray, grayagain, weak, currentwhite, sweepgc, atomic, running, full>>
  BY <1>1 DEF entries, upvals, chains, lists
<1>0. /\ Typed /\ currentwhite # Other(currentwhite) /\ "white0" \in Whites /\ "white0" \in Colours
      /\ Other(currentwhite) \in Whites /\ currentwhite \in Colours
      /\ "black" \notin Whites /\ currentwhite \in Whites
  BY FieldTypes, TwoWhites DEF Whites, Colours
<1>3. /\ DeadStrings \subseteq StringList /\ StringList \subseteq Addr
      /\ \A a \in StringList : tt[a] = "string" /\ text[a] = sweepstrgc + 1 /\ a \in Objects
      /\ \A a \in StringList : a \in DeadStrings <=> isdead(a)
  BY DEF DeadStrings, StringList, Objects
<1>4. /\ tt' \in [Addr -> Types] /\ mark' \in [Addr -> Colours] /\ text' \in [Addr -> Nat]
      /\ \A a \in Addr : tt'[a] = IF a \in DeadStrings THEN "free" ELSE tt[a]
      /\ \A a \in Addr : text'[a] = IF a \in DeadStrings THEN 0 ELSE text[a]
      /\ \A a \in Addr : mark'[a] = IF a \in DeadStrings THEN "white0"
                                    ELSE IF a \in StringList THEN currentwhite ELSE mark[a]
  BY <1>0, <1>1 DEF With, Typed, Types, Colours
<1>5. Objects' = Objects \ DeadStrings
  BY <1>4 DEF Objects
<1>6. /\ Alive' = Alive
      /\ \A a \in Alive : a \in Addr /\ a \notin DeadStrings /\ tt'[a] = tt[a]
  <2>1. \A a \in Alive : a \in Addr /\ a \notin DeadStrings
    BY <1>3 DEF Alive, Objects
  <2>2. \A a \in Objects \ DeadStrings : isdead(a)' <=> isdead(a)
    BY <1>0, <1>2, <1>3, <1>4 DEF isdead, Objects
  <2> QED BY <1>4, <1>5, <2>1, <2>2 DEF Alive
<1>7. Valid' = Valid /\ AliveTables' = AliveTables
  BY <1>6 DEF Valid, AliveTables
<1>8. \A o \in Addr : /\ isopen(o)' <=> isopen(o)
                      /\ UpvalValue(o)' = UpvalValue(o)
                      /\ isopen(o) => o \notin StringList
  BY <1>2, <1>3, <1>4 DEF isopen, UpvalValue
<1>9. HeapInv'
  <2> SUFFICES ASSUME NEW o \in Alive PROVE Sound(o)'
    BY <1>6 DEF HeapInv
  <2>1. Sound(o) /\ o \in Addr /\ tt'[o] = tt[o]
    BY <1>6 DEF HeapInv
  <2> QED BY <1>2, <1>6, <1>7, <1>8, <2>1 DEF Sound
<1>10. OpenInv'
  <2>1. ASSUME NEW u \in Addr, isopen(u)
        PROVE  /\ thread[u] \in Addr /\ tt'[thread[u]] = "thread"
               /\ level[u] \in DOMAIN stack[thread[u]]
               /\ mark'[u] # "black"
    <3>1. thread[u] \in Addr /\ tt[thread[u]] = "thread" /\ level[u] \in DOMAIN stack[thread[u]]
          /\ mark[u] # "black"
      BY <2>1 DEF OpenInv
    <3> QED BY <1>3, <1>4, <1>8, <2>1, <3>1
  <2> QED BY <1>2, <1>8, <2>1 DEF OpenInv
<1>11. RunningInv' /\ TmuInv'
  <2>1. \A s, t : Holds(s, t)' <=> Holds(s, t)
    BY <1>2, <1>8 DEF Holds
  <2>2. RunningInv'
    BY <1>2, <1>6, <1>7, <2>1 DEF RunningInv
  <2> QED BY <1>2, <1>6, <2>2 DEF TmuInv
<1>12. sweepgc = rootgc /\ sweepstrgc \in Nat /\ sweepstrgc < NTexts /\ NTexts \in Nat
       /\ gcstate' \in {"sweepstring", "sweep"} /\ atomic' = "no"
  BY <1>1, <1>2, MemoryAssumption DEF SweepInv, TypeOK, ColourInv
<1>13. SweepInv'
  <2>1. ASSUME NEW s \in Objects', tt'[s] = "string"
        PROVE  text'[s] \in Texts /\ (text'[s] <= sweepstrgc' => mark'[s] = currentwhite)
    <3>1. s \in Objects /\ s \in Addr /\ s \notin DeadStrings /\ tt[s] = "string" /\ text'[s] = text[s]
      BY <1>4, <1>5, <2>1 DEF Objects
    <3>2. text[s] \in Texts /\ (text[s] <= sweepstrgc => mark[s] = currentwhite)
      BY <1>1, <3>1 DEF SweepInv
    <3>3. CASE text[s] = sweepstrgc + 1
      <4>1. s \in StringList
        BY <3>1, <3>3 DEF StringList
      <4> QED BY <1>4, <3>1, <3>2, <4>1
    <3>4. CASE text[s] # sweepstrgc + 1
      <4>1. s \notin StringList
        BY <1>3, <3>4
      <4>2. text[s] \in Nat
        BY <1>0, <3>1 DEF Typed
      <4>3. text[s] <= sweepstrgc' => text[s] <= sweepstrgc
        BY <1>1, <1>12, <3>4, <4>2
      <4> QED BY <1>4, <3>1, <3>2, <4>1, <4>3
    <3> QED BY <3>3, <3>4
  <2>2. gcstate' = "sweep" => \A s \in Objects' : tt'[s] = "string" => mark'[s] = currentwhite
    <3>1. gcstate' = "sweep" => sweepstrgc' = NTexts
      BY <1>1, <1>12
    <3>2. \A s \in Objects' : tt'[s] = "string" => text'[s] <= NTexts
      BY <2>1 DEF Texts
    <3> QED BY <2>1, <3>1, <3>2
  <2>3. \A u \in Addr : isopen(u)' => thread'[u] \in sweepgc'
    <3> SUFFICES ASSUME NEW u \in Addr, isopen(u) PROVE thread[u] \in rootgc
      BY <1>2, <1>8, <1>12
    <3>1. thread[u] \in Addr /\ tt[thread[u]] = "thread"
      BY DEF OpenInv
    <3>2. thread[u] \in rootgc \cup tmudata
      BY <3>1 DEF TypeOK, Objects, isopen
    <3> QED BY <3>1, <3>2 DEF TmuInv
  <2>4. gcstate' = "sweepstring" => sweepstrgc' < NTexts
    BY <1>1, <1>12
  <2> QED BY <1>2, <1>12, <2>1, <2>2, <2>3, <2>4 DEF SweepInv, Sweeping
<1>14. MarkInv'
  BY <1>12 DEF MarkInv
<1>15. ColourInv'
  <2>1. ASSUME NEW o \in Addr
        PROVE  /\ tt'[o] = "thread" => mark'[o] # "black"
               /\ tt'[o] = "userdata" => mark'[o] # "gray"
               /\ tt'[o] = "free" => mark'[o] \in Whites
    <3>1. /\ tt[o] = "thread" => mark[o] # "black"
          /\ tt[o] = "userdata" => mark[o] # "gray"
          /\ tt[o] = "free" => mark[o] \in Whites
      BY DEF ColourInv, isblack, iswhite
    <3> QED BY <1>0, <1>3, <1>4, <3>1
  <2> QED BY <1>12, <2>1 DEF ColourInv, isblack, iswhite
<1>16. TypeOK'
  <2>1. rootgc' \cup tmudata' = {a \in Objects' : tt'[a] # "string" /\ ~isopen(a)'}
    <3>1. rootgc \cup tmudata = {a \in Objects : tt[a] # "string" /\ ~isopen(a)}
      BY DEF TypeOK
    <3>2. \A a \in Objects : a \in Addr
      BY DEF Objects
    <3> QED BY <1>2, <1>3, <1>4, <1>5, <1>8, <3>1, <3>2
  <2>2. \A a, b \in Objects' : tt'[a] = "string" /\ tt'[b] = "string" /\ text'[a] = text'[b] => a = b
    <3>1. \A a \in Objects' : a \in Objects /\ tt'[a] = tt[a] /\ text'[a] = text[a]
      BY <1>4, <1>5 DEF Objects
    <3> QED BY <3>1 DEF TypeOK
  <2>3. /\ mark' \in [Addr -> Whites' \cup {"gray", "black"}] /\ currentwhite' \in Whites'
    BY <1>0, <1>2, <1>4 DEF Whites, Colours
  <2>4. sweepstrgc' \in Nat /\ gcstate' \in {"pause", "propagate", "sweepstring", "sweep", "finalize"}
    BY <1>1, <1>12
  <2> QED BY <1>2, <1>4, <2>1, <2>2, <2>3, <2>4 DEF TypeOK
<1> QED BY <1>9, <1>10, <1>11, <1>13, <1>14, <1>15, <1>16

(* What an object of the list takes along, what is freed of it, and the    *)
(* upvalues that survive their thread.                                     *)
SweptWith(o) == OpenUpvals(o) \cup {o}
DeadOf(o)    == {x \in SweptWith(o) : isdead(x) /\ x # Main}
ClosedOf(o)  == IF o \in DeadOf(o) THEN OpenUpvals(o) \ DeadOf(o) ELSE {}

(* What the sweep of one object changes.                                   *)
LEMMA SweepFields ==
  ASSUME IInv, NEW o \in sweepgc,
         tt' = With(tt, DeadOf(o), "free"),
         mark' = With(With(mark, SweptWith(o), currentwhite), DeadOf(o), "white0"),
         meta' = With(meta, DeadOf(o), nil), attr' = With(attr, DeadOf(o), {}),
         key' = With(key, DeadOf(o), nil), upval' = With(upval, DeadOf(o), nil),
         closeupvals(ClosedOf(o), DeadOf(o)),
         stack' = With(stack, DeadOf(o), <<>>),
         UNCHANGED <<text, currentwhite>>
  PROVE  /\ Typed'
         /\ o \in Addr /\ o \in Objects /\ o \in rootgc /\ tt[o] # "string"
         /\ OpenUpvals(o) \cap (rootgc \cup tmudata) = {}
         /\ SweptWith(o) \subseteq Addr
         /\ \A x \in SweptWith(o) : tt[x] # "string" /\ x \in Objects
         /\ \A x \in DeadOf(o) : x \in SweptWith(o) /\ x \notin Alive
         /\ \A a \in Addr : mark'[a] = IF a \in DeadOf(o) THEN "white0"
                                       ELSE IF a \in SweptWith(o) THEN currentwhite ELSE mark[a]
         /\ \A a \in Addr : tt'[a] = IF a \in DeadOf(o) THEN "free" ELSE tt[a]
         /\ \A a \in Addr \ DeadOf(o) : meta'[a] = meta[a] /\ attr'[a] = attr[a] /\ key'[a] = key[a]
                                        /\ upval'[a] = upval[a] /\ stack'[a] = stack[a]
                                        /\ (a \notin ClosedOf(o) => val'[a] = val[a])
         /\ Objects' = Objects \ DeadOf(o)
         /\ \A u \in Addr : isopen(u)' <=> isopen(u) /\ u \notin ClosedOf(o) \cup DeadOf(o)
         /\ \A u \in Addr : isopen(u)' => thread'[u] = thread[u] /\ level'[u] = level[u]
                                          /\ thread[u] \notin DeadOf(o)
         /\ \A u \in ClosedOf(o) : u \in OpenUpvals(o) /\ u \notin DeadOf(o) /\ val'[u] = UpvalValue(u)
         /\ Alive' = Alive /\ \A a \in Alive : a \in Addr /\ a \notin DeadOf(o) /\ tt'[a] = tt[a]
<1> USE DEF IInv
<1>0. /\ Typed /\ currentwhite # Other(currentwhite) /\ "white0" \in Colours /\ currentwhite \in Colours
  BY FieldTypes, TwoWhites DEF Whites, Colours
<1>1. /\ o \in rootgc /\ o \in Objects /\ o \in Addr /\ tt[o] # "string" /\ ~isopen(o)
      /\ \A a \in rootgc \cup tmudata : ~isopen(a)
  BY DEF TypeOK, Objects
<1>2. \A u \in OpenUpvals(o) : u \in Addr /\ isopen(u) /\ tt[u] = "upval" /\ thread[u] = o /\ u \in Objects
  BY DEF OpenUpvals, isopen, Objects
<1>3. /\ OpenUpvals(o) \cap (rootgc \cup tmudata) = {}
      /\ SweptWith(o) \subseteq Addr
      /\ \A x \in SweptWith(o) : tt[x] # "string" /\ x \in Objects
  BY <1>1, <1>2 DEF SweptWith
<1>4. Main \in Alive
  <2>1. 1 \in DOMAIN running
    BY RunningThread
  <2> QED BY <2>1 DEF RunningInv
<1>5. /\ DeadOf(o) \subseteq SweptWith(o)
      /\ \A x \in SweptWith(o) : x \in DeadOf(o) <=> x \notin Alive
  BY <1>3, <1>4 DEF DeadOf, Alive
<1>6. \A u \in ClosedOf(o) : u \in OpenUpvals(o) /\ u \notin DeadOf(o) /\ o \in DeadOf(o) /\ u \in Addr /\ isopen(u)
  BY <1>2 DEF ClosedOf
<1>7. /\ tt' \in [Addr -> Types] /\ mark' \in [Addr -> Colours]
      /\ meta' \in [Addr -> Addr \cup {nil}] /\ attr' \in [Addr -> SUBSET Sayings]
      /\ key' \in [Addr -> Values] /\ upval' \in [Addr -> Addr \cup {nil}] /\ stack' \in [Addr -> Seq(Values)]
  BY <1>0 DEF With, Typed, Types, Colours
<1>8. /\ \A a \in Addr : mark'[a] = IF a \in DeadOf(o) THEN "white0"
                                    ELSE IF a \in SweptWith(o) THEN currentwhite ELSE mark[a]
      /\ \A a \in Addr : tt'[a] = IF a \in DeadOf(o) THEN "free" ELSE tt[a]
      /\ \A a \in Addr \ DeadOf(o) : meta'[a] = meta[a] /\ attr'[a] = attr[a] /\ key'[a] = key[a]
                                     /\ upval'[a] = upval[a] /\ stack'[a] = stack[a]
  BY <1>0 DEF With, Typed
<1>9. /\ val' = [a \in Addr |-> IF a \in ClosedOf(o) THEN UpvalValue(a) ELSE IF a \in DeadOf(o) THEN nil ELSE val[a]]
      /\ thread' = With(thread, ClosedOf(o) \cup DeadOf(o), nil)
      /\ level' = With(level, ClosedOf(o) \cup DeadOf(o), 0)
  BY DEF closeupvals
<1>10. /\ thread' \in [Addr -> Addr \cup {nil}] /\ level' \in [Addr -> Nat]
       /\ \A a \in Addr : /\ thread'[a] = IF a \in ClosedOf(o) \cup DeadOf(o) THEN nil ELSE thread[a]
                          /\ level'[a] = IF a \in ClosedOf(o) \cup DeadOf(o) THEN 0 ELSE level[a]
  BY <1>0, <1>9 DEF Typed, With
<1>11. \A u \in ClosedOf(o) : UpvalValue(u) \in Values
  <2> SUFFICES ASSUME NEW u \in ClosedOf(o) PROVE UpvalValue(u) \in Values
    OBVIOUS
  <2>1. thread[u] \in Addr /\ level[u] \in DOMAIN stack[thread[u]] /\ isopen(u)
    BY <1>6 DEF OpenInv
  <2>2. stack[thread[u]] \in Seq(Values)
    BY <1>0, <2>1 DEF Typed
  <2>3. stack[thread[u]][level[u]] \in Values
    BY <2>1, <2>2, ElementOfSeq, LenProperties
  <2> QED BY <2>1, <2>3 DEF UpvalValue
<1>12. /\ val' \in [Addr -> Values]
       /\ \A u \in ClosedOf(o) : val'[u] = UpvalValue(u)
       /\ \A a \in Addr \ DeadOf(o) : a \notin ClosedOf(o) => val'[a] = val[a]
  BY <1>0, <1>6, <1>9, <1>11 DEF Typed
<1>13. Typed'
  BY <1>0, <1>7, <1>10, <1>12 DEF Typed, Colours
<1>14. Objects' = Objects \ DeadOf(o)
  BY <1>8 DEF Objects
<1>15. \A u \in Addr : isopen(u)' <=> isopen(u) /\ u \notin ClosedOf(o) \cup DeadOf(o)
  BY <1>8, <1>10 DEF isopen
<1>16. ASSUME NEW u \in Addr, isopen(u)'
       PROVE  thread'[u] = thread[u] /\ level'[u] = level[u] /\ thread[u] \notin DeadOf(o)
  <2>1. isopen(u) /\ u \notin ClosedOf(o) \cup DeadOf(o)
    BY <1>15, <1>16
  <2>2. thread[u] \in Addr /\ tt[thread[u]] = "thread"
    BY <2>1 DEF OpenInv
  <2>3. thread[u] \in DeadOf(o) => thread[u] = o
    BY <1>2, <1>5, <2>2 DEF SweptWith
  <2>4. thread[u] = o => o \notin DeadOf(o)
    BY <2>1 DEF ClosedOf, OpenUpvals
  <2> QED BY <1>10, <2>1, <2>3, <2>4
<1>17. /\ Alive' = Alive
       /\ \A a \in Alive : a \in Addr /\ a \notin DeadOf(o) /\ tt'[a] = tt[a]
  <2>1. \A a \in Alive : a \in Addr /\ a \in Objects /\ a \notin DeadOf(o)
    BY <1>5 DEF Alive, Objects
  <2>2. ASSUME NEW a \in Objects \ DeadOf(o) PROVE isdead(a)' <=> isdead(a)
    <3>1. a \in Addr
      BY DEF Objects
    <3>2. CASE a \in SweptWith(o)
      <4>1. a \in Alive
        BY <1>5, <3>2
      <4>2. mark'[a] = currentwhite
        BY <1>8, <3>1, <3>2
      <4> QED BY <1>0, <4>1, <4>2 DEF isdead, Alive
    <3>3. CASE a \notin SweptWith(o)
      <4>1. mark'[a] = mark[a]
        BY <1>8, <3>1, <3>3
      <4> QED BY <4>1 DEF isdead
    <3> QED BY <3>2, <3>3
  <2> QED BY <1>8, <1>14, <2>1, <2>2 DEF Alive
<1> QED BY <1>1, <1>3, <1>5, <1>6, <1>8, <1>12, <1>13, <1>14, <1>15, <1>16, <1>17

(* sweeplist: what is freed was dead, so nothing alive refers to it.       *)
LEMMA SweepStep == ASSUME IInv, Sweep PROVE IInv'
<1> USE DEF IInv
<1>1. PICK o \in First(sweepgc) :
        /\ gcstate = "sweep"
        /\ tt' = With(tt, DeadOf(o), "free")
        /\ mark' = With(With(mark, SweptWith(o), currentwhite), DeadOf(o), "white0")
        /\ meta' = With(meta, DeadOf(o), nil) /\ attr' = With(attr, DeadOf(o), {})
        /\ key' = With(key, DeadOf(o), nil) /\ upval' = With(upval, DeadOf(o), nil)
        /\ closeupvals(ClosedOf(o), DeadOf(o))
        /\ stack' = With(stack, DeadOf(o), <<>>)
        /\ finalized' = finalized \ DeadOf(o) /\ called' = called \ DeadOf(o)
        /\ rootgc' = (rootgc \ DeadOf(o)) \cup ClosedOf(o)
        /\ sweepgc' = ahead(ClosedOf(o), rootgc \ DeadOf(o), sweepgc \ {o})
        /\ gcstate' = IF sweepgc' = {} THEN "finalize" ELSE gcstate
        /\ UNCHANGED <<text, tmudata, lists, currentwhite, sweepstrgc, atomic, running, full, ops>>
  BY DEF Sweep, SweptWith, DeadOf, ClosedOf, Swept, linkupvals
<1>2. UNCHANGED <<text, tmudata, gray, grayagain, weak, currentwhite, sweepstrgc, atomic, running, full>>
  BY <1>1 DEF lists
<1>3. o \in sweepgc
  BY FirstIn
<1>4. /\ Typed'
      /\ o \in Addr /\ o \in Objects /\ o \in rootgc /\ tt[o] # "string"
      /\ OpenUpvals(o) \cap (rootgc \cup tmudata) = {}
      /\ SweptWith(o) \subseteq Addr
      /\ \A x \in SweptWith(o) : tt[x] # "string" /\ x \in Objects
      /\ \A x \in DeadOf(o) : x \in SweptWith(o) /\ x \notin Alive
      /\ \A a \in Addr : mark'[a] = IF a \in DeadOf(o) THEN "white0"
                                    ELSE IF a \in SweptWith(o) THEN currentwhite ELSE mark[a]
      /\ \A a \in Addr : tt'[a] = IF a \in DeadOf(o) THEN "free" ELSE tt[a]
      /\ \A a \in Addr \ DeadOf(o) : meta'[a] = meta[a] /\ attr'[a] = attr[a] /\ key'[a] = key[a]
                                     /\ upval'[a] = upval[a] /\ stack'[a] = stack[a]
                                     /\ (a \notin ClosedOf(o) => val'[a] = val[a])
      /\ Objects' = Objects \ DeadOf(o)
      /\ \A u \in Addr : isopen(u)' <=> isopen(u) /\ u \notin ClosedOf(o) \cup DeadOf(o)
      /\ \A u \in Addr : isopen(u)' => thread'[u] = thread[u] /\ level'[u] = level[u]
                                       /\ thread[u] \notin DeadOf(o)
      /\ \A u \in ClosedOf(o) : u \in OpenUpvals(o) /\ u \notin DeadOf(o) /\ val'[u] = UpvalValue(u)
      /\ Alive' = Alive /\ \A a \in Alive : a \in Addr /\ a \notin DeadOf(o) /\ tt'[a] = tt[a]
  BY <1>1, <1>2, <1>3, SweepFields
<1>0. /\ Typed /\ currentwhite # Other(currentwhite) /\ "white0" \in Whites
      /\ "black" \notin Whites /\ "gray" \notin Whites /\ currentwhite \in Whites
  BY FieldTypes, TwoWhites DEF Whites
<1>5. Valid' = Valid /\ AliveTables' = AliveTables
  BY <1>4 DEF Valid, AliveTables
<1>6. \A u \in OpenUpvals(o) : u \in Addr /\ isopen(u) /\ tt[u] = "upval" /\ thread[u] = o /\ u \in SweptWith(o)
  BY DEF OpenUpvals, isopen, SweptWith
<1>7. HeapInv'
  <2> SUFFICES ASSUME NEW a \in Alive PROVE Sound(a)'
    BY <1>4 DEF HeapInv
  <2>1. Sound(a) /\ a \in Addr /\ a \notin DeadOf(o) /\ tt'[a] = tt[a]
    BY <1>4 DEF HeapInv
  <2>2. ASSUME tt[a] = "upval" PROVE UpvalValue(a)' = UpvalValue(a)
    <3>1. CASE a \in ClosedOf(o)
      BY <1>4, <2>1, <3>1 DEF UpvalValue
    <3>2. CASE a \notin ClosedOf(o) /\ isopen(a)
      <4>1. isopen(a)' /\ thread'[a] = thread[a] /\ level'[a] = level[a] /\ thread[a] \notin DeadOf(o)
        BY <1>4, <2>1, <3>2
      <4>2. thread[a] \in Addr
        BY <2>1, <3>2 DEF OpenInv
      <4>3. stack'[thread[a]] = stack[thread[a]]
        BY <1>4, <4>1, <4>2
      <4> QED BY <3>2, <4>1, <4>3 DEF UpvalValue
    <3>3. CASE a \notin ClosedOf(o) /\ ~isopen(a)
      <4>1. ~isopen(a)' /\ val'[a] = val[a]
        BY <1>4, <2>1, <3>3
      <4> QED BY <3>3, <4>1 DEF UpvalValue
    <3> QED BY <3>1, <3>2, <3>3
  <2>3. tt[a] # "upval" => a \notin ClosedOf(o)
    BY <1>4, <1>6
  <2> QED BY <1>4, <1>5, <2>1, <2>2, <2>3 DEF Sound
<1>8. OpenInv'
  <2> SUFFICES ASSUME NEW u \in Addr, isopen(u)'
               PROVE  /\ thread'[u] \in Addr /\ tt'[thread'[u]] = "thread"
                      /\ level'[u] \in DOMAIN stack'[thread'[u]]
                      /\ mark'[u] # "black"
    BY DEF OpenInv
  <2>1. /\ isopen(u) /\ u \notin DeadOf(o)
        /\ thread'[u] = thread[u] /\ level'[u] = level[u] /\ thread[u] \notin DeadOf(o)
    BY <1>4
  <2>2. /\ thread[u] \in Addr /\ tt[thread[u]] = "thread" /\ level[u] \in DOMAIN stack[thread[u]]
        /\ mark[u] # "black"
    BY <2>1 DEF OpenInv
  <2>3. stack'[thread[u]] = stack[thread[u]] /\ tt'[thread[u]] = "thread"
    BY <1>4, <2>1, <2>2
  <2> QED BY <1>0, <1>4, <2>1, <2>2, <2>3
<1>9. RunningInv'
  <2>1. ASSUME NEW i \in DOMAIN running, i + 1 \in DOMAIN running
        PROVE  Holds(running[i], running[i + 1])'
    <3>1. running[i] \in Alive /\ Holds(running[i], running[i + 1])
      BY <2>1 DEF RunningInv
    <3>2. stack'[running[i]] = stack[running[i]]
      BY <1>4, <3>1
    <3>3. \A u \in Addr : isopen(u)' => isopen(u) /\ thread'[u] = thread[u] /\ level'[u] = level[u]
      BY <1>4
    <3> QED BY <1>2, <3>1, <3>2, <3>3 DEF Holds
  <2> QED BY <1>2, <1>4, <1>5, <2>1 DEF RunningInv
<1>10. TmuInv'
  BY <1>1, <1>2, <1>4 DEF TmuInv
<1>11. sweepgc' \subseteq rootgc'
  <2>1. \A a \in sweepgc \ {o} : a \in rootgc /\ a \notin DeadOf(o)
    <3>1. sweepgc \subseteq rootgc
      BY DEF TypeOK
    <3>2. \A x \in DeadOf(o) : x = o \/ x \in OpenUpvals(o)
      BY <1>4 DEF SweptWith
    <3> QED BY <1>4, <3>1, <3>2
  <2> QED BY <1>1, <2>1 DEF ahead
<1>12. sweepgc \ {o} \subseteq sweepgc'
  BY <1>1 DEF ahead
\* what the sweep has passed is white
<1>13. ASSUME NEW a \in rootgc' \ sweepgc' PROVE mark'[a] = currentwhite
  <2>1. CASE a \in ClosedOf(o)
    BY <1>4, <1>6, <2>1
  <2>2. CASE a = o
    <3>1. a \notin DeadOf(o)
      BY <1>1, <1>4, <1>6, <2>2 DEF ClosedOf, TypeOK
    <3> QED BY <1>4, <2>2, <3>1 DEF SweptWith
  <2>3. CASE a \notin ClosedOf(o) /\ a # o
    <3>1. a \in rootgc /\ a \notin DeadOf(o) /\ a \notin sweepgc
      BY <1>1, <1>12, <1>13, <2>3
    <3>2. mark[a] = currentwhite /\ a \in Addr
      BY <1>1, <3>1 DEF SweepInv, TypeOK, Objects
    <3> QED BY <1>4, <3>1, <3>2
  <2> QED BY <2>1, <2>2, <2>3
<1>14. ASSUME NEW u \in Addr, isopen(u)', thread'[u] \notin sweepgc' PROVE mark'[u] = currentwhite
  <2>1. isopen(u) /\ u \notin DeadOf(o) /\ thread'[u] = thread[u]
    BY <1>4, <1>14
  <2>2. CASE thread[u] = o
    <3>1. u \in SweptWith(o)
      BY <2>1, <2>2 DEF SweptWith, OpenUpvals
    <3> QED BY <1>4, <2>1, <3>1
  <2>3. CASE thread[u] # o
    <3>1. thread[u] \notin sweepgc
      BY <1>12, <1>14, <2>1, <2>3
    <3>2. mark[u] = currentwhite
      BY <1>1, <2>1, <3>1 DEF SweepInv
    <3> QED BY <1>4, <2>1, <3>2
  <2> QED BY <2>2, <2>3
<1>15. ASSUME NEW s \in Objects', tt'[s] = "string"
       PROVE  text'[s] \in Texts /\ mark'[s] = currentwhite
  <2>1. s \in Objects /\ s \in Addr /\ s \notin DeadOf(o) /\ tt[s] = "string" /\ s \notin SweptWith(o)
    BY <1>4, <1>15 DEF Objects
  <2> QED BY <1>1, <1>2, <1>4, <2>1 DEF SweepInv
<1>16. rootgc' \cup tmudata' = {a \in Objects' : tt'[a] # "string" /\ ~isopen(a)'}
  <2>1. rootgc \cup tmudata = {a \in Objects : tt[a] # "string" /\ ~isopen(a)}
    BY DEF TypeOK
  <2>2. \A a \in Objects' : a \in Objects /\ a \in Addr /\ a \notin DeadOf(o) /\ tt'[a] = tt[a]
    BY <1>4 DEF Objects
  <2>3. \A a \in ClosedOf(o) : a \in Objects' /\ tt'[a] # "string" /\ ~isopen(a)'
    BY <1>4, <1>6
  <2>4. \A a \in tmudata : a \in Objects /\ a \in Addr /\ a \notin DeadOf(o)
    BY <1>4 DEF TmuInv, Alive
  <2>5. ASSUME NEW a \in Objects'
        PROVE  a \in rootgc' \cup tmudata' <=> tt'[a] # "string" /\ ~isopen(a)'
    <3>1. a \in rootgc \cup tmudata <=> tt'[a] # "string" /\ ~isopen(a)
      BY <2>1, <2>2
    <3>2. isopen(a)' <=> isopen(a) /\ a \notin ClosedOf(o)
      BY <1>4, <2>2
    <3>3. a \in rootgc' \cup tmudata' <=> a \in rootgc \cup tmudata \/ a \in ClosedOf(o)
      BY <1>1, <1>2, <2>2
    <3> QED BY <2>3, <3>1, <3>2, <3>3
  <2>6. rootgc' \cup tmudata' \subseteq Objects'
    BY <1>1, <1>2, <1>4, <2>1, <2>3, <2>4
  <2> QED BY <2>5, <2>6
<1>17. gcstate' \in {"sweep", "finalize"} /\ (gcstate' = "sweep" <=> sweepgc' # {}) /\ atomic' = "no"
  BY <1>1, <1>2 DEF ColourInv
<1>18. SweepInv'
  <2>1. ASSUME gcstate' = "finalize", NEW a \in Objects' \ tmudata PROVE mark'[a] = currentwhite
    <3>0. a \in Addr
      BY DEF Objects
    <3>1. a \in rootgc' \/ tt'[a] = "string" \/ isopen(a)'
      BY <1>2, <1>16
    <3> QED BY <1>13, <1>14, <1>15, <1>17, <2>1, <3>0, <3>1
  <2>2. ASSUME gcstate' = "finalize", NEW a \in Objects' PROVE ~isdead(a)'
    <3>1. CASE a \in tmudata
      BY <1>4, <3>1 DEF TmuInv, Alive
    <3>2. CASE a \notin tmudata
      BY <1>0, <1>2, <2>1, <2>2, <3>2 DEF isdead
    <3> QED BY <3>1, <3>2
  <2> QED BY <1>2, <1>13, <1>14, <1>15, <1>17, <2>1, <2>2 DEF SweepInv, Sweeping
<1>19. MarkInv'
  BY <1>17 DEF MarkInv
<1>20. ColourInv'
  <2>1. ASSUME NEW a \in Addr
        PROVE  /\ tt'[a] = "thread" => mark'[a] # "black"
               /\ tt'[a] = "userdata" => mark'[a] # "gray"
               /\ tt'[a] = "free" => mark'[a] \in Whites
    <3>1. /\ tt[a] = "thread" => mark[a] # "black"
          /\ tt[a] = "userdata" => mark[a] # "gray"
          /\ tt[a] = "free" => mark[a] \in Whites
      BY DEF ColourInv, isblack, iswhite
    <3> QED BY <1>0, <1>4, <3>1
  <2> QED BY <1>17, <2>1 DEF ColourInv, isblack, iswhite
<1>21. TypeOK'
  <2>1. rootgc' \cap tmudata' = {}
    <3>1. ClosedOf(o) \cap tmudata = {}
      BY <1>4
    <3> QED BY <1>1, <1>2, <3>1 DEF TypeOK
  <2>2. \A a, b \in Objects' : tt'[a] = "string" /\ tt'[b] = "string" /\ text'[a] = text'[b] => a = b
    <3>1. \A a \in Objects' : a \in Objects /\ tt'[a] = tt[a]
      BY <1>4 DEF Objects
    <3> QED BY <1>2, <3>1 DEF TypeOK
  <2>3. /\ mark' \in [Addr -> Whites' \cup {"gray", "black"}] /\ currentwhite' \in Whites'
    BY <1>4 DEF Typed, Whites
  <2>4. finalized' \in SUBSET Addr /\ called' \in SUBSET finalized'
    BY <1>1 DEF TypeOK
  <2> QED BY <1>2, <1>4, <1>11, <1>16, <1>17, <2>1, <2>2, <2>3, <2>4 DEF TypeOK, Typed
<1> QED BY <1>7, <1>8, <1>9, <1>10, <1>18, <1>19, <1>20, <1>21

-----------------------------------------------------------------------------
(* A finalizer is called, and may keep its userdata.                       *)
LEMMA FinalizeStep == ASSUME IInv, Finalize PROVE IInv'
<1> USE DEF IInv
<1>1. PICK u \in First(tmudata) :
        /\ gcstate = "finalize"
        /\ tmudata' = tmudata \ {u}
        /\ rootgc' = rootgc \cup {u}
        /\ mark' = [mark EXCEPT ![u] = currentwhite]
        /\ called' \in {called, called \cup {u}}
        /\ \/ key' = key /\ val' = val
           \/ /\ key' = [key EXCEPT ![Globals] = number]
              /\ val' = [val EXCEPT ![Globals] = u]
        /\ UNCHANGED <<tt, meta, attr, upvals, stack, text, finalized, lists, sweeps, running, full, ops>>
  BY DEF Finalize
<1>2. UNCHANGED <<tt, meta, attr, upval, thread, level, stack, text, finalized, gray, grayagain, weak,
                  gcstate, currentwhite, sweepstrgc, sweepgc, atomic, running, full>>
  BY <1>1 DEF upvals, lists, sweeps
<1>0. /\ Typed /\ currentwhite # Other(currentwhite) /\ currentwhite \in Whites /\ currentwhite \in Colours
      /\ "black" \notin Whites /\ "gray" \notin Whites
      /\ Globals \in Addr /\ number \in Values /\ number \notin Addr /\ nil \notin Addr /\ number # nil
  BY FieldTypes, TwoWhites, MemoryAssumption DEF Whites, Colours, Values
<1>3. u \in tmudata /\ u \in Alive /\ u \in Addr /\ tt[u] = "userdata" /\ u \in finalized /\ u \in Objects
  BY FirstIn DEF TmuInv, Alive, Objects
<1>4. /\ mark' \in [Addr -> Colours] /\ mark'[u] = currentwhite
      /\ \A a \in Addr \ {u} : mark'[a] = mark[a]
  BY <1>0, <1>1, <1>3 DEF Typed, Colours
<1>5. /\ key' \in [Addr -> Values] /\ val' \in [Addr -> Values]
      /\ \A a \in Addr \ {Globals} : key'[a] = key[a] /\ val'[a] = val[a]
      /\ \/ key'[Globals] = key[Globals] /\ val'[Globals] = val[Globals]
         \/ key'[Globals] = number /\ val'[Globals] = u
  <2>1. CASE key' = key /\ val' = val
    BY <1>0, <2>1 DEF Typed
  <2>2. CASE /\ key' = [key EXCEPT ![Globals] = number]
             /\ val' = [val EXCEPT ![Globals] = u]
    <3>1. key \in [Addr -> Values] /\ val \in [Addr -> Values] /\ u \in Values
      BY <1>0, <1>3 DEF Typed
    <3> QED BY <1>0, <2>2, <3>1
  <2> QED BY <1>1, <2>1, <2>2
<1>6. Typed'
  BY <1>0, <1>2, <1>4, <1>5 DEF Typed, Colours
<1>7. Objects' = Objects /\ \A o \in Addr : isopen(o)' <=> isopen(o)
  BY <1>2 DEF Objects, isopen
<1>8. Alive' = Alive /\ \A a \in Objects : a \in Addr /\ (isdead(a)' <=> isdead(a))
  <2>1. \A a \in Objects : a \in Addr /\ (isdead(a)' <=> isdead(a))
    BY <1>0, <1>2, <1>3, <1>4 DEF isdead, Alive, Objects
  <2> QED BY <1>7, <2>1 DEF Alive
<1>9. Valid' = Valid /\ AliveTables' = AliveTables
  BY <1>2, <1>8 DEF Valid, AliveTables
<1>10. tt[Globals] = "table"
  BY DEF RunningInv, AliveTables
<1>11. HeapInv'
  <2> SUFFICES ASSUME NEW o \in Alive PROVE Sound(o)'
    BY <1>8 DEF HeapInv
  <2>1. Sound(o) /\ o \in Addr
    BY DEF HeapInv, Alive, Objects
  <2>2. u \in Valid /\ number \in Valid
    BY <1>0, <1>3 DEF Valid, Values
  <2>3. tt[o] = "upval" => UpvalValue(o)' = UpvalValue(o)
    BY <1>2, <1>5, <1>7, <1>10, <2>1 DEF UpvalValue
  <2>4. tt[o] = "table" => val'[o] \in Valid /\ (val'[o] # nil => key'[o] \in Valid)
    BY <1>5, <2>1, <2>2 DEF Sound
  <2> QED BY <1>2, <1>8, <1>9, <2>1, <2>3, <2>4 DEF Sound
<1>12. OpenInv'
  BY <1>0, <1>2, <1>4, <1>7 DEF OpenInv
<1>13. RunningInv' /\ TmuInv'
  <2>1. \A s, t : Holds(s, t)' <=> Holds(s, t)
    BY <1>2, <1>7 DEF Holds
  <2>2. RunningInv'
    BY <1>2, <1>8, <1>9, <2>1 DEF RunningInv
  <2>3. TmuInv'
    BY <1>1, <1>2, <1>8 DEF TmuInv
  <2> QED BY <2>2, <2>3
<1>14. SweepInv'
  <2>1. \A a \in Objects \ tmudata' : mark'[a] = currentwhite
    BY <1>1, <1>4, <1>8 DEF SweepInv
  <2>2. sweepgc = {} /\ \A a \in Objects : ~isdead(a)
    BY <1>1 DEF SweepInv, Sweeping
  <2>3. \A s \in Objects : tt[s] = "string" => text[s] \in Texts
    BY DEF SweepInv
  <2> QED BY <1>1, <1>2, <1>7, <1>8, <2>1, <2>2, <2>3 DEF SweepInv, Sweeping
<1>15. MarkInv'
  BY <1>1, <1>2 DEF MarkInv
<1>16. ColourInv'
  <2>1. ASSUME NEW a \in Addr
        PROVE  /\ tt'[a] = "thread" => mark'[a] # "black"
               /\ tt'[a] = "userdata" => mark'[a] # "gray"
               /\ tt'[a] = "free" => mark'[a] \in Whites
    BY <1>0, <1>2, <1>3, <1>4 DEF ColourInv, isblack, iswhite
  <2> QED BY <1>2, <2>1 DEF ColourInv, isblack, iswhite
<1>17. TypeOK'
  <2>1. rootgc' \cup tmudata' = {a \in Objects' : tt'[a] # "string" /\ ~isopen(a)'}
    <3>1. rootgc \cup tmudata = {a \in Objects : tt[a] # "string" /\ ~isopen(a)}
      BY DEF TypeOK
    <3> QED BY <1>1, <1>2, <1>3, <1>7, <1>8, <3>1
  <2>2. \A a, b \in Objects' : tt'[a] = "string" /\ tt'[b] = "string" /\ text'[a] = text'[b] => a = b
    BY <1>2, <1>7 DEF TypeOK
  <2>3. /\ mark' \in [Addr -> Whites' \cup {"gray", "black"}] /\ currentwhite' \in Whites'
    BY <1>6 DEF Typed, Whites
  <2>4. /\ tmudata' \in SUBSET Addr /\ rootgc' \cap tmudata' = {} /\ sweepgc' \in SUBSET rootgc'
        /\ called' \in SUBSET finalized'
    BY <1>1, <1>2, <1>3 DEF TypeOK
  <2> QED BY <1>2, <1>6, <2>1, <2>2, <2>3, <2>4 DEF TypeOK, Typed
<1> QED BY <1>11, <1>12, <1>13, <1>14, <1>15, <1>16, <1>17

(* A cycle ends, or a full collection begins: no object changes.           *)
LEMMA SameHeap ==
  ASSUME IInv, UNCHANGED <<heads, fields, chains, currentwhite, atomic, running>>,
         gray' \in SUBSET Addr, grayagain' \in SUBSET Addr, weak' \in SUBSET Addr,
         gcstate' \in {"pause", "propagate", "sweepstring", "sweep", "finalize"},
         full' \in {"no", "clearing", "marking"}, sweepstrgc' \in Nat, sweepgc' \in SUBSET rootgc,
         gcstate' # "propagate" => atomic = "no"
  PROVE  /\ TypeOK' /\ HeapInv' /\ OpenInv' /\ RunningInv' /\ TmuInv' /\ ColourInv'
         /\ Objects' = Objects /\ \A o : (isdead(o)' <=> isdead(o)) /\ (isopen(o)' <=> isopen(o))
<1> USE DEF IInv
<1>1. UNCHANGED <<tt, mark, meta, attr, key, val, upval, thread, level, stack, text, finalized, called,
                  rootgc, tmudata, currentwhite, atomic, running>>
  BY DEF heads, fields, entries, upvals, chains
<1>2. /\ Objects' = Objects /\ \A o : (isdead(o)' <=> isdead(o)) /\ (isopen(o)' <=> isopen(o))
      /\ \A o : UpvalValue(o)' = UpvalValue(o)
  BY <1>1 DEF Objects, isdead, isopen, UpvalValue, Other
<1>3. Alive' = Alive /\ Valid' = Valid /\ AliveTables' = AliveTables
  BY <1>1, <1>2 DEF Alive, Valid, AliveTables
<1>4. HeapInv' /\ OpenInv' /\ TmuInv'
  BY <1>1, <1>2, <1>3 DEF HeapInv, Sound, OpenInv, TmuInv
<1>5. RunningInv'
  <2>1. \A s, t : Holds(s, t)' <=> Holds(s, t)
    BY <1>1, <1>2 DEF Holds
  <2> QED BY <1>1, <1>3, <2>1 DEF RunningInv
<1>6. ColourInv'
  BY <1>1 DEF ColourInv, isblack, iswhite
<1>7. TypeOK'
  <2>1. rootgc' \cup tmudata' = {a \in Objects' : tt'[a] # "string" /\ ~isopen(a)'}
    <3>1. rootgc \cup tmudata = {a \in Objects : tt[a] # "string" /\ ~isopen(a)}
      BY DEF TypeOK
    <3> QED BY <1>1, <1>2, <3>1
  <2> QED BY <1>1, <1>2, <2>1 DEF TypeOK, Whites
<1> QED BY <1>2, <1>4, <1>5, <1>6, <1>7

(* The end of a cycle: all objects are of the current white.               *)
LEMMA EndCycleStep == ASSUME IInv, EndCycle PROVE IInv'
<1> USE DEF IInv
<1>1. /\ gcstate = "finalize" /\ tmudata = {} /\ gcstate' = "pause" /\ full' = "no" /\ atomic = "no"
      /\ UNCHANGED <<heads, fields, chains, lists, currentwhite, sweepstrgc, sweepgc, atomic, running>>
      /\ UNCHANGED <<gray, grayagain, weak, tt, mark, text, tmudata, rootgc>>
  BY DEF EndCycle, ColourInv, lists, heads, fields, chains
<1>2. /\ TypeOK' /\ HeapInv' /\ OpenInv' /\ RunningInv' /\ TmuInv' /\ ColourInv'
      /\ Objects' = Objects /\ \A o : (isdead(o)' <=> isdead(o)) /\ (isopen(o)' <=> isopen(o))
  <2>1. /\ gray' \in SUBSET Addr /\ grayagain' \in SUBSET Addr /\ weak' \in SUBSET Addr
        /\ sweepstrgc' \in Nat /\ sweepgc' \in SUBSET rootgc
    BY <1>1 DEF TypeOK
  <2> QED BY <1>1, <2>1, SameHeap
<1>3. SweepInv'
  BY <1>1, <1>2 DEF SweepInv, Sweeping
<1>4. MarkInv'
  BY <1>1 DEF MarkInv
<1> QED BY <1>2, <1>3, <1>4

(* luaC_fullgc: the marks are given up, and swept.                         *)
LEMMA FullGCStep == ASSUME IInv, FullGC PROVE IInv'
<1> USE DEF IInv
<1>1. /\ full' = "clearing" /\ atomic = "no"
      /\ UNCHANGED <<heads, fields, chains, currentwhite, atomic, running>>
      /\ UNCHANGED <<tt, mark, text, tmudata, rootgc, upvals, thread>>
  BY DEF FullGC, heads, fields, chains, upvals
<1>2. CASE gcstate \in {"pause", "propagate"}
  <2>1. /\ gray' = {} /\ grayagain' = {} /\ weak' = {} /\ sweepstrgc' = 0 /\ sweepgc' = rootgc
        /\ gcstate' = "sweepstring"
    BY <1>2 DEF FullGC
  <2>2. /\ TypeOK' /\ HeapInv' /\ OpenInv' /\ RunningInv' /\ TmuInv' /\ ColourInv'
        /\ Objects' = Objects
    BY <1>1, <2>1, SameHeap
  <2>3. SweepInv'
    <3>1. \A s \in Objects : tt[s] = "string" => text[s] \in Texts /\ ~(text[s] <= 0)
      BY DEF SweepInv, Texts
    <3> QED BY <1>1, <2>1, <2>2, <3>1, MemoryAssumption DEF SweepInv, Sweeping
  <2>4. MarkInv'
    BY <2>1 DEF MarkInv
  <2> QED BY <2>2, <2>3, <2>4
<1>3. CASE gcstate \notin {"pause", "propagate"}
  <2>1. UNCHANGED <<gray, grayagain, weak, sweepstrgc, sweepgc, gcstate>>
    BY <1>3 DEF FullGC, lists
  <2>2. /\ TypeOK' /\ HeapInv' /\ OpenInv' /\ RunningInv' /\ TmuInv' /\ ColourInv'
        /\ Objects' = Objects /\ \A o : (isdead(o)' <=> isdead(o)) /\ (isopen(o)' <=> isopen(o))
    <3>1. /\ gray' \in SUBSET Addr /\ grayagain' \in SUBSET Addr /\ weak' \in SUBSET Addr
          /\ sweepstrgc' \in Nat /\ sweepgc' \in SUBSET rootgc
          /\ gcstate' \in {"pause", "propagate", "sweepstring", "sweep", "finalize"}
      BY <1>1, <2>1 DEF TypeOK
    <3> QED BY <1>1, <2>1, <3>1, SameHeap
  <2>3. SweepInv'
    <3>1. currentwhite' = currentwhite
      BY <1>1
    <3> QED BY <1>1, <1>3, <2>1, <2>2, <3>1 DEF SweepInv, Sweeping
  <2>4. MarkInv'
    BY <1>3, <2>1 DEF MarkInv, TypeOK
  <2> QED BY <2>2, <2>3, <2>4
<1> QED BY <1>2, <1>3

-----------------------------------------------------------------------------
(***************************************************************************)
(* The invariant holds of a heap before its first collection, and no step  *)
(* of the program or of the collector breaks it.                           *)
(***************************************************************************)
(* At first no object is dead, and all are white.                          *)
LEMMA Initially == ASSUME Init PROVE IInv
<1>1. PICK h \in Heaps :
        /\ tt = h.tt /\ meta = h.meta /\ attr = h.attr /\ key = h.key /\ val = h.val
        /\ upval = h.upval /\ thread = h.thread /\ level = h.level
        /\ stack = h.stack /\ text = h.text
  BY DEF Init
<1>2. /\ mark = [a \in Addr |-> "white0"] /\ currentwhite = "white0"
      /\ finalized = {} /\ called = {}
      /\ rootgc = {a \in Objects : tt[a] # "string" /\ ~isopen(a)} /\ tmudata = {}
      /\ gray = {} /\ grayagain = {} /\ weak = {}
      /\ gcstate = "pause" /\ sweepstrgc = 0 /\ sweepgc = {} /\ atomic = "no"
      /\ running = <<Main>> /\ full = "no"
  BY DEF Init
<1>3. /\ tt \in [Addr -> Types] /\ tt[Main] = "thread" /\ tt[Globals] = "table"
      /\ meta \in [Addr -> Addr \cup {nil}] /\ attr \in [Addr -> SUBSET Sayings]
      /\ key \in [Addr -> Values] /\ val \in [Addr -> Values]
      /\ upval \in [Addr -> Addr \cup {nil}]
      /\ thread \in [Addr -> Addr \cup {nil}] /\ level \in [Addr -> Nat]
      /\ stack \in [Addr -> Seq(Values)] /\ text \in [Addr -> Nat]
      /\ \A a, b \in Addr : tt[a] = "string" /\ tt[b] = "string" /\ text[a] = text[b] => a = b
  BY <1>1, HeapsAssumption
<1> DEFINE there(v) == v \in Addr => tt[v] \notin {"free", "upval"}
<1>4. \A a \in Addr :
         /\ tt[a] \in {"table", "userdata"} => meta[a] = nil \/ tt[meta[a]] = "table"
         /\ tt[a] = "table" => there(key[a]) /\ there(val[a])
         /\ tt[a] = "function" => upval[a] \in Addr /\ tt[upval[a]] = "upval"
         /\ tt[a] = "upval" /\ thread[a] = nil => there(val[a])
         /\ tt[a] = "upval" /\ thread[a] # nil => /\ tt[thread[a]] = "thread"
                                                  /\ level[a] \in DOMAIN stack[thread[a]]
         /\ tt[a] = "thread" => \A i \in DOMAIN stack[a] : there(stack[a][i])
         /\ tt[a] = "string" => text[a] \in Texts
  BY <1>1, HeapsAssumption
<1>5. /\ \A a \in Addr : mark[a] = "white0" /\ ~isdead(a) /\ mark[a] = currentwhite /\ iswhite(a)
      /\ "white0" \in Whites
  BY <1>2 DEF isdead, Other, iswhite, Whites
<1>6. Alive = Objects /\ AliveTables = {a \in Addr : tt[a] = "table"}
  BY <1>5 DEF Alive, AliveTables, Objects
<1>7. \A v \in Values : there(v) => v \in Valid
  BY <1>6 DEF Valid, Objects
<1>8. Main \in Addr /\ Globals \in Addr /\ nil \notin Addr /\ nil \in Values
  BY MemoryAssumption DEF Values
<1>9. running \in Seq(Addr) /\ Len(running) = 1 /\ DOMAIN running = {1} /\ running[1] = Main
  BY <1>2, <1>8
<1>10. TypeOK
  <2>1. rootgc \in SUBSET Addr /\ mark \in [Addr -> Whites \cup {"gray", "black"}] /\ currentwhite \in Whites
    BY <1>2, <1>5 DEF Objects
  <2>2. \A a, b \in Objects : tt[a] = "string" /\ tt[b] = "string" /\ text[a] = text[b] => a = b
    BY <1>3 DEF Objects
  <2>3. /\ finalized \in SUBSET Addr /\ called \in SUBSET finalized
        /\ gcstate \in {"pause", "propagate", "sweepstring", "sweep", "finalize"}
        /\ atomic \in {"no", "upvals", "weak", "again", "tmudata"}
        /\ full \in {"no", "clearing", "marking"} /\ sweepstrgc \in Nat
        /\ tmudata \in SUBSET Addr /\ sweepgc \in SUBSET rootgc
        /\ gray \in SUBSET Addr /\ grayagain \in SUBSET Addr /\ weak \in SUBSET Addr
        /\ rootgc \cap tmudata = {}
        /\ rootgc \cup tmudata = {a \in Objects : tt[a] # "string" /\ ~isopen(a)}
    BY <1>2
  <2> QED BY <1>3, <1>9, <2>1, <2>2, <2>3 DEF TypeOK
<1>11. OpenInv
  <2> SUFFICES ASSUME NEW u \in Addr, isopen(u)
               PROVE  /\ thread[u] \in Addr /\ tt[thread[u]] = "thread"
                      /\ level[u] \in DOMAIN stack[thread[u]]
                      /\ mark[u] # "black"
    BY DEF OpenInv
  <2>1. thread[u] \in Addr
    BY <1>3 DEF isopen
  <2>2. tt[thread[u]] = "thread" /\ level[u] \in DOMAIN stack[thread[u]]
    BY <1>4 DEF isopen
  <2> QED BY <1>5, <2>1, <2>2
<1>12. HeapInv
  <2> SUFFICES ASSUME NEW o \in Alive PROVE Sound(o)
    BY DEF HeapInv
  <2>1. o \in Addr
    BY <1>6 DEF Objects
  <2>2. tt[o] \in {"table", "userdata"} => meta[o] \in AliveTables \cup {nil}
    BY <1>3, <1>4, <1>6, <2>1
  <2>3. tt[o] = "table" => val[o] \in Valid /\ key[o] \in Valid
    <3>1. key[o] \in Values /\ val[o] \in Values
      BY <1>3, <2>1
    <3>2. tt[o] = "table" => there(key[o]) /\ there(val[o])
      BY <1>4, <2>1
    <3> HIDE DEF there
    <3> QED BY <1>7, <3>1, <3>2
  <2>4. tt[o] = "function" => upval[o] \in Alive /\ tt[upval[o]] = "upval"
    BY <1>4, <1>6, <2>1 DEF Objects
  <2>5. ASSUME tt[o] = "upval" PROVE UpvalValue(o) \in Valid
    <3>1. CASE thread[o] = nil
      <4>1. UpvalValue(o) = val[o] /\ val[o] \in Values /\ there(val[o])
        BY <1>3, <1>4, <2>1, <2>5, <3>1 DEF UpvalValue, isopen
      <4> HIDE DEF there
      <4> QED BY <1>7, <4>1
    <3>2. CASE thread[o] # nil
      <4>1. isopen(o)
        BY <2>5, <3>2 DEF isopen
      <4>2. thread[o] \in Addr /\ tt[thread[o]] = "thread" /\ level[o] \in DOMAIN stack[thread[o]]
        BY <1>11, <2>1, <4>1 DEF OpenInv
      <4>3. stack[thread[o]][level[o]] \in Values
        <5>1. stack[thread[o]] \in Seq(Values)
          BY <1>3, <4>2
        <5> QED BY <4>2, <5>1
      <4>4. there(stack[thread[o]][level[o]])
        BY <1>4, <4>2
      <4> HIDE DEF there
      <4> QED BY <1>7, <4>1, <4>3, <4>4 DEF UpvalValue
    <3> QED BY <3>1, <3>2
  <2>6. ASSUME tt[o] = "thread", NEW i \in DOMAIN stack[o] PROVE stack[o][i] \in Valid
    <3>1. stack[o] \in Seq(Values)
      BY <1>3, <2>1
    <3>2. stack[o][i] \in Values
      BY <2>6, <3>1
    <3>3. there(stack[o][i])
      BY <1>4, <2>1, <2>6
    <3> HIDE DEF there
    <3> QED BY <1>7, <3>2, <3>3
  <2> QED BY <2>2, <2>3, <2>4, <2>5, <2>6 DEF Sound
<1>13. RunningInv
  <2>1. Globals \in AliveTables /\ Main \in Alive
    BY <1>3, <1>6, <1>8 DEF Objects
  <2>2. \A i \in DOMAIN running : i + 1 \notin DOMAIN running
    BY <1>9
  <2> QED BY <1>3, <1>9, <2>1, <2>2 DEF RunningInv
<1>14. TmuInv
  BY <1>2 DEF TmuInv
<1>15. SweepInv
  <2>1. \A s \in Objects : tt[s] = "string" => text[s] \in Texts
    BY <1>4 DEF Objects
  <2>2. \A o \in Objects : ~isdead(o) /\ mark[o] = currentwhite
    BY <1>5 DEF Objects
  <2> QED BY <1>2, <2>1, <2>2 DEF SweepInv, Sweeping
<1>16. MarkInv
  BY <1>2 DEF MarkInv
<1>17. ColourInv
  <2>1. \A o \in Addr : ~isblack(o) /\ mark[o] # "gray" /\ iswhite(o)
    BY <1>5 DEF isblack
  <2> QED BY <1>2, <2>1 DEF ColourInv
<1> QED BY <1>10, <1>11, <1>12, <1>13, <1>14, <1>15, <1>16, <1>17 DEF IInv

(* A step that changes nothing.                                            *)
LEMMA Stutter == ASSUME IInv, UNCHANGED vars PROVE IInv'
<1> USE DEF IInv
<1>1. UNCHANGED <<tt, mark, meta, attr, key, val, upval, thread, level, stack, text, finalized, called,
                  rootgc, tmudata, gray, grayagain, weak, gcstate, currentwhite, sweepstrgc, sweepgc,
                  atomic, running, full>>
  BY DEF vars, heads, fields, entries, upvals, chains, lists, sweeps
<1>2. IInv /\ UNCHANGED <<heads, fields, chains, currentwhite, atomic, running>>
  BY DEF vars, sweeps
<1>3. TypeOK'
  BY <1>1 DEF TypeOK, Objects, isopen
<1>4. Objects' = Objects /\ Alive' = Alive /\ Valid' = Valid /\ AliveTables' = AliveTables
  BY <1>1 DEF Objects, Alive, isdead, Valid, AliveTables
<1>5. HeapInv'
  BY <1>1, <1>4 DEF HeapInv, Sound, UpvalValue, isopen
<1>6. OpenInv' /\ TmuInv'
  BY <1>1, <1>4 DEF OpenInv, TmuInv, isopen
<1>7. RunningInv'
  BY <1>1, <1>4 DEF RunningInv, Holds, isopen
<1>8. SweepInv'
  BY <1>1, <1>4 DEF SweepInv, Sweeping, isdead, isopen
<1>9. MarkInv'
  BY <1>1, <1>4 DEF MarkInv, ListInv, BlackInv, GrayInv, RootInv, Listed, Todo, Dark, AllDark, StrongDark,
                    traversetable, mode, Meta, UpvalValue, isopen, isblack, iswhite
<1>10. ColourInv'
  BY <1>1 DEF ColourInv, isblack, iswhite
<1> QED BY <1>3, <1>5, <1>6, <1>7, <1>8, <1>9, <1>10

(* One step for each action.                                               *)
LEMMA Invariance == ASSUME IInv, [Next]_vars PROVE IInv'
<1>1. CASE NewTable \/ NewUdata \/ NewThread \/ NewString \/ NewClosure
  BY <1>1, NewTableStep, NewUdataStep, NewThreadStep, NewStringStep, NewClosureStep
<1>2. CASE GetTable \/ Next_ \/ GetUpval
  BY <1>2, GetTableStep, NextStep, GetUpvalStep
<1>3. CASE SetTable \/ SetMetatable \/ SetUpval
  BY <1>3, SetTableStep, SetMetatableStep, SetUpvalStep
<1>4. CASE Pop \/ Resume \/ Yield
  BY <1>4, PopStep, ResumeStep, YieldStep
<1>5. CASE FullGC
  BY <1>5, FullGCStep
<1>6. CASE MarkRoot \/ Propagate
  BY <1>6, MarkRootStep, PropagateStep
<1>7. CASE Atomic
  BY <1>7, RemarkUpvalsStep, RemarkWeakStep, RemarkAgainStep, SeparateUdataStep, ClearWeakStep DEF Atomic
<1>8. CASE SweepString \/ Sweep
  BY <1>8, SweepStringStep, SweepStep
<1>9. CASE Finalize \/ EndCycle
  BY <1>9, FinalizeStep, EndCycleStep
<1>10. CASE UNCHANGED vars
  BY <1>10, Stutter
<1> QED BY <1>1, <1>2, <1>3, <1>4, <1>5, <1>6, <1>7, <1>8, <1>9, <1>10 DEF Next, Program, singlestep

(* The invariant holds always.                                             *)
LEMMA Always == Spec => []IInv
<1>1. Init => IInv
  BY Initially
<1>2. IInv /\ [Next]_vars => IInv'
  BY Invariance
<1> QED BY <1>1, <1>2, PTL DEF Spec

-----------------------------------------------------------------------------
(***************************************************************************)
(* What the invariant says of the heap as the program sees it.             *)
(***************************************************************************)
(* What an object that is alive keeps, is alive.                           *)
LEMMA StrongAlive == ASSUME IInv, NEW o \in Alive PROVE Strong(o) \subseteq Alive
<1> USE DEF IInv
<1>1. Typed /\ o \in Addr /\ Sound(o) /\ nil \notin Addr
  BY FieldTypes DEF HeapInv, Alive, Objects, Typed
<1>2. \A v \in Valid : v \in Addr => v \in Alive
  BY DEF Valid
<1>3. CASE tt[o] = "table"
  <2>1. meta[o] \in Addr => meta[o] \in Alive
    BY <1>1, <1>3 DEF Sound, AliveTables
  <2>2. val[o] \in Valid /\ (val[o] # nil => key[o] \in Valid)
    BY <1>1, <1>3 DEF Sound
  <2> QED BY <1>2, <1>3, <2>1, <2>2 DEF Strong
<1>4. CASE tt[o] = "userdata"
  BY <1>1, <1>4 DEF Strong, Refs, Sound, AliveTables
<1>5. CASE tt[o] = "function"
  BY <1>1, <1>5 DEF Strong, Refs, Sound
<1>6. CASE tt[o] = "upval"
  BY <1>1, <1>2, <1>6 DEF Strong, Sound
<1>7. CASE tt[o] = "thread"
  <2>1. \A v \in InStack(o) : v \in Valid
    BY <1>1, <1>7 DEF Sound, InStack
  <2> QED BY <1>2, <1>7, <2>1 DEF Strong, Refs
<1>8. CASE tt[o] \notin {"table", "userdata", "function", "upval", "thread"}
  BY <1>8 DEF Strong, Refs
<1> QED BY <1>3, <1>4, <1>5, <1>6, <1>7, <1>8

(* The roots are alive.                                                    *)
LEMMA RootsAlive == ASSUME IInv PROVE Roots \subseteq Alive
<1> USE DEF IInv
<1>1. Main \in Alive
  BY MainListed
<1>2. Globals \in Alive /\ \A i \in DOMAIN running : running[i] \in Alive
  BY DEF RunningInv, AliveTables
<1>3. tmudata \subseteq Alive
  BY DEF TmuInv
<1> QED BY <1>1, <1>2, <1>3 DEF Roots

(* So what the program can get at is alive.                                *)
LEMMA ReachableAlive == ASSUME IInv PROVE Reachable \subseteq Alive
<1> DEFINE S == SUBSET Alive
           spread(R) == R \cup UNION {Strong(o) : o \in R}
           step == [R \in S |-> spread(R)]
           within[n \in Nat] == IF n = 0 THEN Roots
                                ELSE LET near == within[n - 1]
                                     IN  near \cup UNION {Strong(o) : o \in near}
<1>1. \A R \in S : spread(R) \in S
  BY StrongAlive
<1>2. PICK f \in [Nat -> S] : f[0] = Roots /\ \A n \in Nat : f[n + 1] = spread(f[n])
  <2>1. step \in [S -> S]
    BY <1>1
  <2>2. \A R \in S : step[R] = spread(R)
    OBVIOUS
  <2>3. Roots \in S
    BY RootsAlive
  <2> HIDE DEF S, step, spread, within
  <2>4. \E f \in [Nat -> S] : f[0] = Roots /\ \A n \in Nat : f[n + 1] = step[f[n]]
    BY <2>1, <2>3, NatRecursion
  <2>5. PICK f \in [Nat -> S] : f[0] = Roots /\ \A n \in Nat : f[n + 1] = step[f[n]]
    BY <2>4
  <2>6. \A n \in Nat : f[n + 1] = spread(f[n])
    BY <2>2, <2>5
  <2> QED BY <2>5, <2>6
<1>3. f = [n \in Nat |-> IF n = 0 THEN Roots ELSE spread(f[n - 1])]
  <2> HIDE DEF spread, within
  <2>1. ASSUME NEW n \in Nat, n # 0 PROVE f[n] = spread(f[n - 1])
    <3>1. n - 1 \in Nat /\ (n - 1) + 1 = n
      BY <2>1
    <3> QED BY <1>2, <3>1
  <2> QED BY <1>2, <2>1
<1>4. within = [n \in Nat |-> IF n = 0 THEN Roots ELSE spread(within[n - 1])]
  BY <1>3
<1>5. Reachable = within[Cardinality(Addr)]
  BY DEF Reachable
<1> HIDE DEF within, spread
<1> DEFINE D == {n \in Nat : within[n] \in S}
<1>6. 0 \in D /\ \A n \in Nat : n \in D => n + 1 \in D
  <2>1. 0 \in D
    BY <1>4, RootsAlive
  <2>2. ASSUME NEW n \in Nat, within[n] \in S PROVE within[n + 1] \in S
    <3>1. n + 1 \in Nat /\ n + 1 # 0 /\ (n + 1) - 1 = n
      OBVIOUS
    <3>2. within[n + 1] = spread(within[n])
      BY <1>4, <3>1
    <3> HIDE DEF S
    <3> QED BY <1>1, <2>2, <3>2
  <2> QED BY <2>1, <2>2
<1> HIDE DEF D
<1>7. \A n \in Nat : n \in D
  BY <1>6, NatSetInduction
<1>8. Cardinality(Addr) \in Nat
  BY MemoryAssumption, FS_CardinalityType
<1> QED BY <1>5, <1>7, <1>8 DEF D

(* The fields have their types, an object is in one list, there is one     *)
(* string for a text, whatever the heap at the beginning.                  *)
THEOREM TypeCorrect == Spec => []TypeOK
<1>1. IInv => TypeOK
  BY DEF IInv
<1> QED BY <1>1, Always, PTL

(* Nothing the program can get at is dead: singlestep never frees it.      *)
THEOREM NothingReachableIsFreed == Spec => []NothingReachableDies
<1>1. IInv => NothingReachableDies
  BY ReachableAlive DEF NothingReachableDies, Alive
<1> QED BY <1>1, Always, PTL

(* What the program can get at refers to objects only: cleartable leaves   *)
(* no entry of a weak table, and luaF_close no upvalue, that dangles.      *)
THEOREM NothingDangles == Spec => []NoDangling
<1>1. ASSUME IInv, NEW o \in Alive PROVE Refs(o) \subseteq Objects
  <2> USE DEF IInv
  <2>1. Typed /\ o \in Addr /\ Sound(o) /\ nil \notin Addr
    BY <1>1, FieldTypes DEF HeapInv, Alive, Objects, Typed
  <2>2. \A v \in Valid : v \in Addr => v \in Objects
    BY DEF Valid, Alive
  <2>3. CASE tt[o] = "table"
    <3>1. meta[o] \in Addr => meta[o] \in Objects
      BY <2>1, <2>3 DEF Sound, AliveTables, Alive
    <3>2. val[o] \in Valid /\ (val[o] # nil => key[o] \in Valid)
      BY <2>1, <2>3 DEF Sound
    <3> QED BY <2>2, <2>3, <3>1, <3>2 DEF Refs
  <2>4. CASE tt[o] = "userdata"
    BY <2>1, <2>4 DEF Refs, Sound, AliveTables, Alive
  <2>5. CASE tt[o] = "function"
    BY <2>1, <2>5 DEF Refs, Sound, Alive
  <2>6. CASE tt[o] = "upval"
    <3>1. thread[o] \in Addr => thread[o] \in Objects
      BY <1>1, <2>1, <2>6 DEF OpenInv, isopen, Objects
    <3>2. UpvalValue(o) \in Addr => UpvalValue(o) \in Objects
      BY <2>1, <2>2, <2>6 DEF Sound
    <3> QED BY <2>6, <3>1, <3>2 DEF Refs
  <2>7. CASE tt[o] = "thread"
    <3>1. \A v \in InStack(o) : v \in Valid
      BY <2>1, <2>7 DEF Sound, InStack
    <3> QED BY <2>2, <2>7, <3>1 DEF Refs
  <2>8. CASE tt[o] \notin {"table", "userdata", "function", "upval", "thread"}
    BY <2>8 DEF Refs
  <2> QED BY <2>3, <2>4, <2>5, <2>6, <2>7, <2>8
<1>2. IInv => NoDangling
  BY <1>1, ReachableAlive DEF NoDangling
<1> QED BY <1>2, Always, PTL

(* The barriers keep black objects from white ones while the collector     *)
(* marks, and what is gray is in one of its lists.                         *)
THEOREM ThreeColours == Spec => []TriColour
<1>1. ASSUME IInv, gcstate = "propagate", NEW o \in Objects \ tmudata
      PROVE  /\ isblack(o) => \A v \in Strong(o) : ~iswhite(v)
             /\ mark[o] = "gray" /\ tt[o] \in {"table", "function", "thread"}
                   => o \in gray \cup grayagain \cup weak
  <2> USE DEF IInv
  <2>1. ListInv /\ BlackInv
    BY <1>1 DEF MarkInv
  <2>2. o \in Addr
    BY DEF Objects
  <2>3. ASSUME isblack(o), NEW v \in Strong(o) PROVE ~iswhite(v)
    <3>1. AllDark(o)
      BY <2>1, <2>3 DEF BlackInv
    <3>2. tt[o] # "thread"
      BY <1>1, <2>2, <2>3 DEF ColourInv
    <3>3. v \in Addr => Dark(v)
      BY <2>3, <3>1, <3>2 DEF Strong, Refs, AllDark
    <3>4. v \in Addr
      BY <2>3 DEF Strong, Refs
    <3> QED BY <3>3, <3>4 DEF Dark
  <2>4. mark[o] = "gray" /\ tt[o] \in {"table", "function", "thread"} => o \in Listed
    BY <2>1 DEF ListInv
  <2> QED BY <2>3, <2>4 DEF Listed
<1>2. IInv => TriColour
  BY <1>1 DEF TriColour
<1> QED BY <1>2, Always, PTL
=============================================================================
