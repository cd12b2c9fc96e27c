-------------------------- MODULE Sections_proofs --------------------------
(***************************************************************************)
(* Theorems about Sections: what the run checks on a few                   *)
(* levels holds for every set of levels, any number of headers, blocks and *)
(* documents.                                                              *)
(***************************************************************************)
EXTENDS Sections, SequenceFacts

-----------------------------------------------------------------------------
(* What the operators on sequences return.                                 *)

(* Front(s) is s without its last element, and Last(s) is that element.    *)
LEMMA FrontLast ==
  ASSUME NEW S, NEW s \in Seq(S), s # <<>>
  PROVE  /\ Front(s) \in Seq(S)
         /\ Len(s) \in Nat \ {0}
         /\ Len(Front(s)) = Len(s) - 1
         /\ \A i \in 1 .. Len(s) - 1 : Front(s)[i] = s[i]
         /\ Last(s) \in S
<1>1. Len(s) \in Nat \ {0}
  BY EmptySeq
<1>2. \A i \in 1 .. Len(s) : s[i] \in S
  BY ElementOfSeq
<1>3. /\ Front(s) \in Seq(S)
      /\ Len(Front(s)) = Len(s) - 1
      /\ \A i \in 1 .. Len(s) - 1 : Front(s)[i] = s[i]
  <2> DEFINE n == Len(s) - 1
  <2>1. 1 \in Int /\ n \in Int /\ \A i \in 1 .. n : s[i] \in S
    BY <1>1, <1>2
  <2>2. /\ SubSeq(s, 1, n) \in Seq(S)
        /\ Len(SubSeq(s, 1, n)) = IF 1 <= n THEN n - 1 + 1 ELSE 0
        /\ \A i \in 1 .. n - 1 + 1 : SubSeq(s, 1, n)[i] = s[1 + i - 1]
    <3> HIDE DEF n
    <3> QED BY <2>1, SubSeqProperties
  <2>3. n - 1 + 1 = n /\ \A i \in 1 .. n : 1 + i - 1 = i
    BY <1>1
  <2>4. n \in Nat /\ (1 <= n \/ n = 0)
    <3>1. \A m \in Nat \ {0} : m - 1 \in Nat /\ (1 <= m - 1 \/ m - 1 = 0)
      OBVIOUS
    <3> QED BY <1>1, <3>1
  <2>5. \A i \in 1 .. n : SubSeq(s, 1, n)[i] = s[i]
    <3>1. ASSUME NEW i \in 1 .. n PROVE SubSeq(s, 1, n)[i] = s[i]
      <4>1. i \in 1 .. n - 1 + 1 /\ 1 + i - 1 = i
        BY <2>3
      <4>2. SubSeq(s, 1, n)[i] = s[1 + i - 1]
        BY <2>2, <4>1
      <4> QED BY <4>1, <4>2
    <3> QED BY <3>1
  <2>6. Len(SubSeq(s, 1, n)) = n
    <3> HIDE DEF n
    <3> QED BY <2>2, <2>3, <2>4
  <2> QED BY <2>2, <2>5, <2>6, Zenon DEF Front
<1> QED BY <1>1, <1>2, <1>3 DEF Last

(* The same facts about the indices of Front(s).                           *)
LEMMA FrontDomain ==
  ASSUME NEW S, NEW s \in Seq(S), s # <<>>
  PROVE  /\ DOMAIN s = 1 .. Len(s)
         /\ DOMAIN Front(s) = 1 .. Len(s) - 1
         /\ \A i \in DOMAIN Front(s) : i \in DOMAIN s /\ i # Len(s) /\ Front(s)[i] = s[i]
         /\ \A i \in DOMAIN s : i = Len(s) \/ i \in DOMAIN Front(s)
<1>1. DOMAIN s = 1 .. Len(s) /\ DOMAIN Front(s) = 1 .. Len(Front(s))
  BY FrontLast, LenProperties
<1>2. /\ Len(s) \in Nat \ {0}
      /\ Len(Front(s)) = Len(s) - 1
      /\ \A i \in 1 .. Len(s) - 1 : Front(s)[i] = s[i]
  BY FrontLast
<1> HIDE DEF Front
<1> QED BY <1>1, <1>2

(* DropLast(s, e) is a sequence over the same set.                         *)
LEMMA DropLastType ==
  ASSUME NEW S, NEW s \in Seq(S), NEW e \in Elems(s)
  PROVE  DropLast(s, e) \in Seq(S)
<1> DEFINE k == CHOOSE i \in DOMAIN s :
                  s[i] = e /\ \A j \in DOMAIN s : j > i => s[j] # e
           f == [i \in 1 .. Len(s) - 1 |-> IF i < k THEN s[i] ELSE s[i + 1]]
<1>1. Len(s) - 1 \in Nat
  BY EmptySeq, LenProperties DEF Elems
<1>2. \A i \in 1 .. Len(s) - 1 : f[i] \in S
  <2> SUFFICES ASSUME NEW i \in 1 .. Len(s) - 1 PROVE f[i] \in S
    OBVIOUS
  <2> HIDE DEF k
  <2>1. i \in 1 .. Len(s) /\ i + 1 \in 1 .. Len(s)
    BY <1>1
  <2>2. s[i] \in S /\ s[i + 1] \in S
    BY <2>1, ElementOfSeq
  <2> QED BY <2>2
<1> HIDE DEF k
<1>3. f \in [1 .. Len(s) - 1 -> S]
  BY <1>2
<1>4. f \in Seq(S)
  BY <1>1, <1>3, SeqDef
<1> QED BY <1>4 DEF DropLast, k

-----------------------------------------------------------------------------
(* The typing invariant.                                                   *)

(* The variables of every reachable state hold values of their kinds, and  *)
(* each open section has the header that opened it.                        *)
THEOREM TypeCorrect == Spec => []TypeOK
<1>1. Init => TypeOK
  BY DEF Init, TypeOK, PCs
<1>2. TypeOK /\ [Next]_vars => TypeOK'
  <2> SUFFICES ASSUME TypeOK, [Next]_vars PROVE TypeOK'
    OBVIOUS
  <2> USE SectionsAssumption
  <2>1. CASE StartDocument
    BY <2>1 DEF StartDocument, TypeOK, PCs
  <2>2. CASE EnterBlock
    BY <2>2 DEF EnterBlock, TypeOK, PCs
  <2>3. ASSUME NEW t \in {"block", "section"}, EndTag(t)
        PROVE  tags' \in Seq({"block", "section"}) /\ torn' \in Nat
    <3> HIDE DEF TypeOK
    <3>0. tags \in Seq({"block", "section"}) /\ torn \in Nat
      BY DEF TypeOK
    <3>1. CASE tags # <<>> /\ Last(tags) = t
      <4>1. tags' = Front(tags) /\ torn' = torn
        BY <2>3, <3>1 DEF EndTag
      <4> QED BY <3>0, <3>1, <4>1, FrontLast
    <3>2. CASE ~(tags # <<>> /\ Last(tags) = t)
      <4>1. torn' = torn + 1 /\ tags' = IF t \in Elems(tags) THEN DropLast(tags, t) ELSE tags
        BY <2>3, <3>2 DEF EndTag
      <4> QED BY <3>0, <4>1, DropLastType
    <3> QED BY <3>1, <3>2
  <2>4. CASE LeaveBlock
    <3>1. tags' \in Seq({"block", "section"}) /\ torn' \in Nat
      BY <2>4, <2>3 DEF LeaveBlock
    <3> QED BY <2>4, <3>1 DEF LeaveBlock, TypeOK
  <2>5. CASE \E l \in Levels : Header(l)
    BY <2>5 DEF Header, Lev, TypeOK, PCs
  <2>6. CASE CloseSection
    <3>1. tags' \in Seq({"block", "section"}) /\ torn' \in Nat
      BY <2>6, <2>3 DEF CloseSection
    <3>2. header_level_stack # <<>> /\ open # <<>>
      BY <2>6, EmptySeq DEF CloseSection, InnermostEnds, TypeOK
    <3>3. /\ header_level_stack' \in Seq(Nat \ {0})
          /\ open' \in Seq(Nat)
          /\ Len(open') = Len(header_level_stack')
      BY <2>6, <3>2, FrontLast DEF CloseSection, TypeOK
    <3> QED BY <2>6, <3>1, <3>3 DEF CloseSection, TypeOK
  <2>7. CASE StartSection
    <3>1. /\ header_level_stack' \in Seq(Nat \ {0})
          /\ Len(header_level_stack') = Len(header_level_stack) + 1
      BY <2>7, AppendDomain DEF StartSection, TypeOK
    <3>2. Len(heads) \in Nat /\ heads' \in Seq(Nat \ {0})
      BY <2>7, AppendDomain DEF StartSection, TypeOK
    <3>3. open' \in Seq(Nat) /\ Len(open') = Len(open) + 1
      <4>1. Len(heads) + 1 \in Nat
        BY <3>2
      <4> QED BY <2>7, <4>1, AppendDomain DEF StartSection, TypeOK
    <3>4. tags' \in Seq({"block", "section"})
      BY <2>7, AppendDomain DEF StartSection, TypeOK
    <3> QED BY <2>7, <3>1, <3>2, <3>3, <3>4 DEF StartSection, TypeOK, PCs
  <2>8. CASE StopDocument
    BY <2>8 DEF StopDocument, Top, TypeOK, PCs
  <2>9. CASE Finish
    BY <2>9 DEF Finish, TypeOK, PCs
  <2>10. CASE Fail
    BY <2>10 DEF Fail, TypeOK, PCs
  <2>11. CASE UNCHANGED vars
    BY <2>11 DEF vars, TypeOK
  <2> QED
    BY <2>1, <2>2, <2>4, <2>5, <2>6, <2>7, <2>8, <2>9, <2>10, <2>11 DEF Next
<1> QED BY <1>1, <1>2, PTL DEF Spec

-----------------------------------------------------------------------------
(* The stack of levels.                                                    *)

(* A step changes the stack only by taking its last entry off, or by       *)
(* putting the level of a header on top of smaller ones.                   *)
LEMMA StackSteps ==
  ASSUME TypeOK, [Next]_vars
  PROVE  \/ UNCHANGED header_level_stack
         \/ CloseSection /\ header_level_stack # <<>>
         \/ StartSection
BY DEF Next, vars, StartDocument, EnterBlock, LeaveBlock, Header, CloseSection,
       InnermostEnds, StopDocument, Finish, Fail

(* When the loop of stop_section ends, every open section outranks the     *)
(* header in hand.                                                         *)
LEMMA TopBelow ==
  ASSUME TypeOK, StackIncreasing, ~InnermostEnds
  PROVE  \A k \in DOMAIN header_level_stack : header_level_stack[k] < level
<1> SUFFICES ASSUME NEW k \in DOMAIN header_level_stack
             PROVE  header_level_stack[k] < level
  OBVIOUS
<1> DEFINE n == Len(header_level_stack)
<1>1. /\ n \in Nat
      /\ DOMAIN header_level_stack = 1 .. n
      /\ \A i \in 1 .. n : header_level_stack[i] \in Nat \ {0}
      /\ level \in Nat
  BY LenProperties, ElementOfSeq DEF TypeOK
<1>2. header_level_stack # <<>>
  BY <1>1, EmptySeq
<1>3. header_level_stack[n] < level
  BY <1>1, <1>2 DEF InnermostEnds, Last
<1>4. k = n \/ header_level_stack[k] < header_level_stack[n]
  BY <1>1 DEF StackIncreasing
<1> QED BY <1>1, <1>3, <1>4

(* In every reachable state the levels on the stack increase from the      *)
(* outermost section to the innermost one.                                 *)
THEOREM StackIncreases == Spec => []StackIncreasing
<1>1. Init => StackIncreasing
  BY DEF Init, StackIncreasing
<1>2. TypeOK /\ StackIncreasing /\ [Next]_vars => StackIncreasing'
  <2> SUFFICES ASSUME TypeOK, StackIncreasing, [Next]_vars
               PROVE  StackIncreasing'
    OBVIOUS
  <2>1. CASE UNCHANGED header_level_stack
    BY <2>1 DEF StackIncreasing
  <2>2. CASE CloseSection /\ header_level_stack # <<>>
    <3>1. \A i \in DOMAIN Front(header_level_stack) :
            /\ i \in DOMAIN header_level_stack
            /\ Front(header_level_stack)[i] = header_level_stack[i]
      BY <2>2, FrontDomain DEF TypeOK
    <3> QED BY <2>2, <3>1 DEF CloseSection, StackIncreasing
  <2>3. CASE StartSection
    <3>1. \A i \in DOMAIN header_level_stack : header_level_stack[i] < level
      BY <2>3, TopBelow DEF StartSection
    <3>2. level \in Nat \ {0} /\ header_level_stack \in Seq(Nat \ {0})
      BY DEF TypeOK
    <3>3. header_level_stack' = Append(header_level_stack, level)
      BY <2>3 DEF StartSection
    <3> QED BY <3>1, <3>2, <3>3, AppendDomain DEF StackIncreasing
  <2> QED BY <2>1, <2>2, <2>3, StackSteps
<1> QED BY <1>1, <1>2, TypeCorrect, PTL DEF Spec

(* With `slides` no section ever contains another one.                     *)
THEOREM SlidesAreFlat == Spec => []SlidesNeverNest
<1> DEFINE AllOne ==
      option = "slides" =>
        /\ \A i \in DOMAIN header_level_stack : header_level_stack[i] = 1
        /\ Len(header_level_stack) <= 1
        /\ level = 1
<1>1. Init => AllOne
  BY DEF Init
<1>2. TypeOK /\ AllOne /\ [Next]_vars => AllOne'
  <2> SUFFICES ASSUME TypeOK, AllOne, [Next]_vars, option' = "slides" PROVE AllOne'
    OBVIOUS
  <2>0. option = "slides"
    BY DEF Next, vars, StartDocument, EnterBlock, LeaveBlock, Header,
           CloseSection, StartSection, StopDocument, Finish, Fail
  <2>1. level' = 1
    BY <2>0 DEF Next, vars, StartDocument, EnterBlock, LeaveBlock, Header, Lev,
           CloseSection, StartSection, StopDocument, Top, Finish, Fail
  <2>2. CASE UNCHANGED header_level_stack
    BY <2>0, <2>1, <2>2
  <2>3. CASE CloseSection /\ header_level_stack # <<>>
    <3>1. /\ header_level_stack \in Seq(Nat \ {0})
          /\ header_level_stack' = Front(header_level_stack)
      BY <2>3 DEF CloseSection, TypeOK
    <3> QED BY <2>0, <2>1, <2>3, <3>1, FrontLast
  <2>4. CASE StartSection
    <3>1. header_level_stack = <<>>
      BY <2>0, <2>4, EmptySeq DEF StartSection, InnermostEnds, Last, TypeOK
    <3> QED BY <2>1, <2>4, <3>1 DEF StartSection
  <2> QED BY <2>2, <2>3, <2>4, StackSteps
<1>3. AllOne => SlidesNeverNest
  BY DEF SlidesNeverNest
<1> QED BY <1>1, <1>2, <1>3, TypeCorrect, PTL DEF Spec

-----------------------------------------------------------------------------
(* The outline.                                                            *)

(* Why Outline holds: an open section belongs to a header of its level     *)
(* that no later header has ended; and a header whose section is not open  *)
(* was ended by a later one, or is being ended by the one in hand.         *)
OutlineInv ==
  stale = 0 /\ pc # "idle" =>
    /\ \A k \in DOMAIN open :
         /\ open[k] \in DOMAIN heads
         /\ header_level_stack[k] = heads[open[k]]
         /\ \A j \in DOMAIN heads : j > open[k] => heads[j] > heads[open[k]]
    /\ \A i \in DOMAIN heads :
         \/ \E k \in DOMAIN open : open[k] = i
         \/ \E j \in DOMAIN heads : j > i /\ heads[j] <= heads[i]
         \/ pc \in {"stop_section", "stop_document"} /\ heads[i] >= level

(* Between two blocks exactly the sections of the headers that no later    *)
(* header has ended are open.                                              *)
THEOREM OutlineCorrect == Spec => []Outline
<1>1. Init => OutlineInv
  BY DEF Init, OutlineInv
<1>2. TypeOK /\ StackIncreasing /\ OutlineInv /\ [Next]_vars => OutlineInv'
  <2> SUFFICES ASSUME TypeOK, StackIncreasing, OutlineInv, [Next]_vars,
                      stale' = 0, pc' # "idle"
               PROVE  OutlineInv'
    BY DEF OutlineInv
  <2>1. CASE StartDocument
    <3>1. open' = <<>> /\ heads' = <<>>
      BY <2>1, EmptySeq DEF StartDocument, TypeOK
    <3> QED BY <3>1 DEF OutlineInv
  <2>2. CASE EnterBlock
    BY <2>2 DEF EnterBlock, OutlineInv
  <2>3. CASE LeaveBlock
    BY <2>3 DEF LeaveBlock, OutlineInv
  <2>4. CASE \E l \in Levels : Header(l)
    BY <2>4 DEF Header, OutlineInv
  <2>5. CASE CloseSection
    <3>1. /\ open # <<>>
          /\ header_level_stack # <<>>
          /\ Last(header_level_stack) >= level
      BY <2>5, EmptySeq DEF CloseSection, InnermostEnds, TypeOK
    <3>2. /\ Len(open) \in Nat \ {0}
          /\ Len(Front(open)) = Len(open) - 1
          /\ \A i \in 1 .. Len(open) - 1 : Front(open)[i] = open[i]
          /\ \A i \in 1 .. Len(open) - 1 : Front(header_level_stack)[i] = header_level_stack[i]
          /\ Len(Front(header_level_stack)) = Len(open) - 1
      BY <3>1, FrontLast DEF TypeOK
    <3>3. /\ DOMAIN open' = 1 .. Len(open) - 1
          /\ DOMAIN open = 1 .. Len(open)
          /\ \A i \in DOMAIN open' : open'[i] = open[i] /\ header_level_stack'[i] = header_level_stack[i]
      <4>1. open' = Front(open) /\ header_level_stack' = Front(header_level_stack)
        BY <2>5 DEF CloseSection
      <4>2. DOMAIN Front(open) = 1 .. Len(open) - 1 /\ DOMAIN open = 1 .. Len(open)
        BY <3>1, FrontDomain DEF TypeOK
      <4> QED BY <3>2, <4>1, <4>2
    <3>4. heads[open[Len(open)]] >= level
      BY <2>5, <3>1, <3>2, <3>3 DEF CloseSection, OutlineInv, Last, TypeOK
    <3>5. UNCHANGED <<pc, level, heads, stale>>
      BY <2>5 DEF CloseSection
    <3>6. pc \in {"stop_section", "stop_document"}
      BY <2>5 DEF CloseSection
    <3> QED BY <3>2, <3>3, <3>4, <3>5, <3>6 DEF OutlineInv
  <2>6. CASE StartSection
    <3>1. \A k \in DOMAIN header_level_stack : header_level_stack[k] < level
      BY <2>6, TopBelow DEF StartSection
    <3>2. /\ DOMAIN heads' = 1 .. Len(heads) + 1
          /\ DOMAIN heads = 1 .. Len(heads)
          /\ \A i \in DOMAIN heads : heads'[i] = heads[i]
          /\ heads'[Len(heads) + 1] = level
          /\ Len(heads) \in Nat
      BY <2>6 DEF StartSection, TypeOK
    <3>3. /\ DOMAIN open' = 1 .. Len(open) + 1
          /\ DOMAIN open = 1 .. Len(open)
          /\ DOMAIN header_level_stack = DOMAIN open
          /\ Len(open) \in Nat
          /\ \A k \in DOMAIN open : open'[k] = open[k] /\ header_level_stack'[k] = header_level_stack[k]
          /\ open'[Len(open) + 1] = Len(heads) + 1
          /\ header_level_stack'[Len(open) + 1] = level
      BY <2>6 DEF StartSection, TypeOK
    <3>4. /\ pc = "stop_section" /\ pc' = "body"
          /\ UNCHANGED <<level, stale>>
          /\ level \in Nat
          /\ \A i \in DOMAIN heads : heads[i] \in Nat
          /\ \A k \in DOMAIN open : open[k] \in Nat
      BY <2>6 DEF StartSection, TypeOK
    <3>5. \A k \in DOMAIN open' :
            /\ open'[k] \in DOMAIN heads'
            /\ header_level_stack'[k] = heads'[open'[k]]
            /\ \A j \in DOMAIN heads' : j > open'[k] => heads'[j] > heads'[open'[k]]
      <4> SUFFICES ASSUME NEW k \in DOMAIN open'
                   PROVE  /\ open'[k] \in DOMAIN heads'
                          /\ header_level_stack'[k] = heads'[open'[k]]
                          /\ \A j \in DOMAIN heads' :
                               j > open'[k] => heads'[j] > heads'[open'[k]]
        OBVIOUS
      <4>1. CASE k = Len(open) + 1
        BY <4>1, <3>2, <3>3
      <4>2. CASE k \in DOMAIN open
        <5>1. /\ open[k] \in DOMAIN heads
              /\ header_level_stack[k] = heads[open[k]]
              /\ \A j \in DOMAIN heads : j > open[k] => heads[j] > heads[open[k]]
          BY <4>2, <3>4 DEF OutlineInv
        <5>2. heads[open[k]] < level
          BY <4>2, <5>1, <3>1, <3>3
        <5>3. \A j \in DOMAIN heads' : j \in DOMAIN heads \/ j = Len(heads) + 1
          BY <3>2
        <5> QED BY <4>2, <5>1, <5>2, <5>3, <3>2, <3>3, <3>4
      <4> QED BY <4>1, <4>2, <3>3
    <3>6. ASSUME NEW i \in DOMAIN heads'
          PROVE  \/ \E k \in DOMAIN open' : open'[k] = i
                 \/ \E j \in DOMAIN heads' : j > i /\ heads'[j] <= heads'[i]
      <4>1. CASE i = Len(heads) + 1
        BY <4>1, <3>3
      <4>2. CASE i \in DOMAIN heads
        <5>1. CASE \E k \in DOMAIN open : open[k] = i
          BY <5>1, <3>3
        <5>2. CASE \E j \in DOMAIN heads : j > i /\ heads[j] <= heads[i]
          BY <4>2, <5>2, <3>2
        <5>3. CASE heads[i] >= level
          BY <4>2, <5>3, <3>2, <3>4
        <5> QED BY <4>2, <5>1, <5>2, <5>3, <3>4 DEF OutlineInv
      <4> QED BY <4>1, <4>2, <3>2
    <3> QED BY <3>5, <3>6 DEF OutlineInv
  <2>7. CASE StopDocument
    BY <2>7 DEF StopDocument, OutlineInv
  <2>8. CASE Finish \/ Fail
    BY <2>8 DEF Finish, Fail
  <2>9. CASE UNCHANGED vars
    BY <2>9 DEF vars, OutlineInv
  <2> QED
    BY <2>1, <2>2, <2>3, <2>4, <2>5, <2>6, <2>7, <2>8, <2>9 DEF Next
<1>3. TypeOK /\ OutlineInv => Outline
  <2> SUFFICES ASSUME TypeOK, OutlineInv, pc = "body", stale = 0 PROVE Outline
    BY DEF Outline
  <2>1. ASSUME NEW i \in DOMAIN heads
        PROVE  i \in Elems(open) <=> \A j \in DOMAIN heads : j > i => heads[j] > heads[i]
    <3>1. \A j \in DOMAIN heads : heads[j] \in Nat
      BY DEF TypeOK
    <3> QED BY <3>1 DEF OutlineInv, Elems
  <2> QED BY <2>1 DEF Outline, OutlineInv
<1> QED BY <1>1, <1>2, <1>3, TypeCorrect, StackIncreases, PTL DEF Spec

-----------------------------------------------------------------------------
(* The tags.                                                               *)

(* Why Balanced holds: while no header sits inside a block, the elements   *)
(* open in the output are the sections on the stack and then the blocks,   *)
(* and when sections are being closed there are no blocks.                 *)
BalancedInv ==
  inside = 0 /\ stale = 0 =>
    /\ torn = 0
    /\ Len(tags) >= Len(header_level_stack)
    /\ \A i \in DOMAIN tags :
         tags[i] = IF i <= Len(header_level_stack) THEN "section" ELSE "block"
    /\ pc \in {"stop_section", "stop_document"} => Len(tags) = Len(header_level_stack)

(* Without a block open there are no more elements than sections.          *)
LEMMA NoBlockOpen ==
  ASSUME TypeOK, BalancedInv, inside = 0, stale = 0, "block" \notin Elems(tags)
  PROVE  Len(tags) = Len(header_level_stack)
<1>1. /\ Len(tags) \in Nat /\ Len(header_level_stack) \in Nat
      /\ DOMAIN tags = 1 .. Len(tags)
  BY LenProperties DEF TypeOK
<1>2. Len(tags) >= Len(header_level_stack)
  BY DEF BalancedInv
<1>3. ASSUME Len(tags) > Len(header_level_stack) PROVE FALSE
  <2>1. Len(tags) \in DOMAIN tags /\ ~(Len(tags) <= Len(header_level_stack))
    BY <1>1, <1>3
  <2>2. tags[Len(tags)] = "block"
    BY <2>1 DEF BalancedInv
  <2> QED BY <2>1, <2>2 DEF Elems
<1> QED BY <1>1, <1>2, <1>3

(* The tags of every document balance, unless a header sits in a block     *)
(* with tags of its own or the conversion before this one failed.          *)
THEOREM TagsBalance == Spec => []Balanced
<1>1. Init => BalancedInv
  BY DEF Init, BalancedInv
<1>2. TypeOK /\ BalancedInv /\ [Next]_vars => BalancedInv'
  <2> SUFFICES ASSUME TypeOK, BalancedInv, [Next]_vars, inside' = 0, stale' = 0
               PROVE  BalancedInv'
    BY DEF BalancedInv
  <2>0. /\ Len(tags) \in Nat /\ Len(header_level_stack) \in Nat
        /\ DOMAIN tags = 1 .. Len(tags)
        /\ inside \in Nat
    BY LenProperties DEF TypeOK
  <2>1. CASE StartDocument
    <3>1. tags' = <<>> /\ torn' = 0 /\ Len(header_level_stack') = 0 /\ pc' = "body"
      BY <2>1, <2>0 DEF StartDocument
    <3> QED BY <3>1 DEF BalancedInv
  <2>2. CASE EnterBlock
    <3>1. /\ inside = 0 /\ stale = 0 /\ torn' = torn /\ pc' = "body"
          /\ header_level_stack' = header_level_stack
      BY <2>2 DEF EnterBlock
    <3>2. /\ Len(tags') = Len(tags) + 1
          /\ DOMAIN tags' = 1 .. Len(tags) + 1
          /\ \A i \in DOMAIN tags : tags'[i] = tags[i]
          /\ tags'[Len(tags) + 1] = "block"
      BY <2>2, AppendDomain DEF EnterBlock, TypeOK
    <3> QED BY <2>0, <3>1, <3>2 DEF BalancedInv
  <2>3. CASE LeaveBlock
    <3>1. /\ inside = 0 /\ stale = 0 /\ pc' = "body"
          /\ header_level_stack' = header_level_stack
          /\ EndTag("block") /\ "block" \in Elems(tags)
      BY <2>3 DEF LeaveBlock
    <3>2. PICK k \in DOMAIN tags : tags[k] = "block"
      BY <3>1 DEF Elems
    <3>3. Len(tags) > Len(header_level_stack) /\ tags # <<>>
      BY <2>0, <3>1, <3>2 DEF BalancedInv
    <3>4. Last(tags) = "block"
      <4>1. Len(tags) \in DOMAIN tags /\ ~(Len(tags) <= Len(header_level_stack))
        BY <2>0, <3>3
      <4> QED BY <3>1, <4>1 DEF BalancedInv, Last
    <3>5. tags' = Front(tags) /\ torn' = torn
      BY <3>1, <3>3, <3>4 DEF EndTag
    <3>6. Len(tags') = Len(tags) - 1
      BY <3>3, <3>5, FrontLast DEF TypeOK
    <3>7. \A i \in DOMAIN tags' : i \in DOMAIN tags /\ tags'[i] = tags[i]
      BY <3>3, <3>5, FrontDomain DEF TypeOK
    <3> QED BY <2>0, <3>1, <3>3, <3>5, <3>6, <3>7 DEF BalancedInv
  <2>4. CASE \E l \in Levels : Header(l)
    <3>1. /\ stale = 0 /\ torn' = torn /\ tags' = tags
          /\ header_level_stack' = header_level_stack
          /\ inside' = IF "block" \in Elems(tags) THEN inside + 1 ELSE inside
      BY <2>4 DEF Header
    <3>2. "block" \notin Elems(tags) /\ inside = 0
      BY <2>0, <3>1
    <3> QED BY <3>1, <3>2, NoBlockOpen DEF BalancedInv
  <2>5. CASE CloseSection
    <3>1. /\ inside = 0 /\ stale = 0 /\ EndTag("section") /\ pc' = pc
          /\ pc \in {"stop_section", "stop_document"}
      BY <2>5 DEF CloseSection
    <3>2. header_level_stack # <<>> /\ header_level_stack' = Front(header_level_stack)
      BY <2>5 DEF CloseSection, InnermostEnds
    <3>3. Len(tags) = Len(header_level_stack) /\ tags # <<>>
      BY <3>1, <3>2, EmptySeq DEF BalancedInv, TypeOK
    <3>4. Last(tags) = "section"
      <4>1. Len(tags) \in DOMAIN tags /\ Len(tags) <= Len(header_level_stack)
        BY <2>0, <3>3, FrontDomain, FrontLast DEF TypeOK
      <4> QED BY <3>1, <4>1 DEF BalancedInv, Last
    <3>5. tags' = Front(tags) /\ torn' = torn
      BY <3>1, <3>3, <3>4 DEF EndTag
    <3>6. Len(tags') = Len(tags) - 1 /\ Len(header_level_stack') = Len(header_level_stack) - 1
      BY <3>2, <3>3, <3>5, FrontLast DEF TypeOK
    <3>7. \A i \in DOMAIN tags' : i \in DOMAIN tags /\ i # Len(tags) /\ tags'[i] = tags[i]
      BY <3>3, <3>5, FrontDomain DEF TypeOK
    <3> QED BY <2>0, <3>1, <3>3, <3>5, <3>6, <3>7 DEF BalancedInv
  <2>6. CASE StartSection
    <3>1. /\ inside = 0 /\ stale = 0 /\ torn' = torn /\ pc = "stop_section" /\ pc' = "body"
      BY <2>6 DEF StartSection
    <3>2. Len(header_level_stack') = Len(header_level_stack) + 1
      BY <2>6, AppendDomain DEF StartSection, TypeOK
    <3>3. /\ Len(tags') = Len(tags) + 1
          /\ DOMAIN tags' = 1 .. Len(tags) + 1
          /\ \A i \in DOMAIN tags : tags'[i] = tags[i]
          /\ tags'[Len(tags) + 1] = "section"
      BY <2>6, AppendDomain DEF StartSection, TypeOK
    <3>4. Len(tags) = Len(header_level_stack)
      BY <3>1 DEF BalancedInv
    <3> QED BY <2>0, <3>1, <3>2, <3>3, <3>4 DEF BalancedInv
  <2>7. CASE StopDocument
    <3>1. /\ inside = 0 /\ stale = 0 /\ torn' = torn /\ tags' = tags
          /\ header_level_stack' = header_level_stack
          /\ "block" \notin Elems(tags)
      BY <2>7 DEF StopDocument
    <3> QED BY <3>1, NoBlockOpen DEF BalancedInv
  <2>8. CASE Finish \/ Fail
    BY <2>8 DEF Finish, Fail, BalancedInv
  <2>9. CASE UNCHANGED vars
    BY <2>9 DEF vars, BalancedInv
  <2> QED
    BY <2>1, <2>2, <2>3, <2>4, <2>5, <2>6, <2>7, <2>8, <2>9 DEF Next
<1>3. BalancedInv => Balanced
  BY DEF BalancedInv, Balanced
<1> QED BY <1>1, <1>2, <1>3, TypeCorrect, PTL DEF Spec

(* A conversion that reaches its end leaves no section open: every level   *)
(* on the stack is at least 1, which is what stop_document asks for.       *)
THEOREM EndsEmpty == Spec => NothingLeftOpen
<1> DEFINE LevelInv == pc = "stop_document" => level = 1
<1>1. Init => LevelInv
  BY DEF Init
<1>2. LevelInv /\ [Next]_vars => LevelInv'
  BY DEF Next, vars, StartDocument, EnterBlock, LeaveBlock, Header,
         CloseSection, StartSection, StopDocument, Top, Finish, Fail
<1>3. TypeOK /\ LevelInv /\ [Next]_vars
        => [pc = "stop_document" /\ pc' = "idle" => header_level_stack' = <<>>]_vars
  <2> SUFFICES ASSUME TypeOK, LevelInv, [Next]_vars,
                      pc = "stop_document", pc' = "idle"
               PROVE  header_level_stack' = <<>>
    OBVIOUS
  <2>1. Finish
    BY DEF Next, vars, StartDocument, EnterBlock, LeaveBlock, Header,
           CloseSection, StartSection, StopDocument, Fail
  <2>2. header_level_stack # <<>> => Last(header_level_stack) \in Nat \ {0}
    BY FrontLast DEF TypeOK
  <2>3. ~InnermostEnds /\ level = 1 /\ header_level_stack' = header_level_stack
    BY <2>1 DEF Finish
  <2>4. header_level_stack = <<>>
    BY <2>2, <2>3 DEF InnermostEnds
  <2> QED BY <2>3, <2>4
<1> QED BY <1>1, <1>2, <1>3, TypeCorrect, PTL DEF Spec, NothingLeftOpen
=============================================================================
