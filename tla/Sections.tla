------------------------------ MODULE Sections ------------------------------
(***************************************************************************)
(* Section containers of the XML writers.                                  *)
(*                                                                         *)
(* With the options `containers` or `slides` a header opens a <div> or     *)
(* <section> that stays open until a header of the same or a higher rank   *)
(* arrives, or until the document ends.  Nothing in the document says      *)
(* where a section ends: the writer keeps header_level_stack and closes    *)
(* what the next header makes obsolete (lunamark/writer/xml.lua, used by   *)
(* html.lua and docbook.lua).                                              *)
(*                                                                         *)
(* Two things happen behind the back of that stack.  A header may sit in   *)
(* a block with tags of its own (a block quotation, a list item), which    *)
(* the writer does not know when it closes a section; so the model keeps   *)
(* the elements that are open in the output, in `tags`.  And a conversion  *)
(* may end in an error, which leaves the stack as it is for the next one.  *)
(***************************************************************************)
EXTENDS Naturals, Sequences, FiniteSets

CONSTANTS
  Levels,      (* header levels a document may use                            *)
  MaxHeaders,  (* bound: headers in one document                              *)
  MaxBlocks,   (* bound: blocks with tags of their own open at the same time  *)
  MaxDocs      (* bound: documents converted by the same writer               *)

ASSUME SectionsAssumption ==
  /\ Levels \subseteq Nat \ {0}
  /\ MaxHeaders \in Nat
  /\ MaxBlocks \in Nat
  /\ MaxDocs \in Nat

VARIABLES
  option,              (* which of the writer's options is set                *)
  pc,                  (* where the writer is: see PCs                        *)
  level,               (* argument of the stop_section call being executed    *)
  header_level_stack,  (* levels of the open sections, innermost last         *)
  open,                (* history: which header opened each of them           *)
  heads,               (* history: section levels of this document's headers  *)
  tags,                (* history: elements open in the output                *)
  torn,                (* history: end tags that did not match the element    *)
  inside,              (* history: headers inside a block with tags           *)
  stale,               (* history: sections open when this document began     *)
  docs                 (* documents started                                   *)

vars == <<option, pc, level, header_level_stack, open, heads, tags, torn,
          inside, stale, docs>>

(* Neither of them, `containers`, or `slides`: containers that never nest. *)
Options == {"none", "containers", "slides"}
PCs == {"idle", "body", "stop_section", "stop_document"}

(* A mutant of Lev: `slides` is taken for `containers`.                    *)
LevOfContainers(l) == l

(* The level header() hands to stop_section and to start_section. *)
Lev(l) == IF option = "slides" THEN 1 ELSE l

Last(s) == s[Len(s)]
Front(s) == SubSeq(s, 1, Len(s) - 1)
Elems(s) == {s[i] : i \in DOMAIN s}

(* s without the last of its elements that equal e *)
DropLast(s, e) ==
  LET k == CHOOSE i \in DOMAIN s :
             s[i] = e /\ \A j \in DOMAIN s : j > i => s[j] # e
  IN  [i \in 1 .. Len(s) - 1 |-> IF i < k THEN s[i] ELSE s[i + 1]]

-----------------------------------------------------------------------------

Init ==
  /\ option \in Options
  /\ pc = "idle"
  /\ level = 1
  /\ header_level_stack = <<>>
  /\ open = <<>>
  /\ heads = <<>>
  /\ tags = <<>>
  /\ torn = 0
  /\ inside = 0
  /\ stale = 0
  /\ docs = 0

(* writer.start_document(): the stack is not touched. *)
StartDocument ==
  /\ pc = "idle"
  /\ docs < MaxDocs
  /\ pc' = "body"
  /\ docs' = docs + 1
  /\ heads' = <<>>
  /\ tags' = <<>>
  /\ torn' = 0
  /\ inside' = 0
  /\ stale' = Len(header_level_stack)
  /\ UNCHANGED <<option, level, header_level_stack, open>>

(* The output of a block with tags of its own begins. *)
EnterBlock ==
  /\ pc = "body"
  /\ Cardinality({i \in DOMAIN tags : tags[i] = "block"}) < MaxBlocks
  /\ tags' = Append(tags, "block")
  /\ UNCHANGED <<option, pc, level, header_level_stack, open, heads, torn, inside, stale, docs>>

(* A mutant of EndTag: it is forgotten.                                    *)
NoEndTag(t) == UNCHANGED <<tags, torn>>

(* An end tag closes the innermost element, or it tears the output. *)
EndTag(t) ==
  IF tags # <<>> /\ Last(tags) = t
    THEN tags' = Front(tags) /\ UNCHANGED torn
    ELSE /\ torn' = torn + 1
         /\ tags' = IF t \in Elems(tags) THEN DropLast(tags, t) ELSE tags

(* The output of the innermost block with tags of its own ends. *)
LeaveBlock ==
  /\ pc = "body"
  /\ "block" \in Elems(tags)
  /\ EndTag("block")
  /\ UNCHANGED <<option, pc, level, header_level_stack, open, heads, inside, stale, docs>>

(* header(s, level, attr) under one of the two options; without them a     *)
(* header has no effect on the containers.  The call of stop_section.      *)
Header(l) ==
  /\ pc = "body"
  /\ option # "none"
  /\ Len(heads) < MaxHeaders
  /\ level' = Lev(l)
  /\ pc' = "stop_section"
  /\ inside' = IF "block" \in Elems(tags) THEN inside + 1 ELSE inside
  /\ UNCHANGED <<option, header_level_stack, open, heads, tags, torn, stale, docs>>

(* A mutant of InnermostEnds: `==` for `>=`.                               *)
InnermostIsPeer == header_level_stack # <<>> /\ Last(header_level_stack) = level

(* The test of the loop of stop_section. *)
InnermostEnds ==
  /\ header_level_stack # <<>>
  /\ Last(header_level_stack) >= level

(* One turn of the loop of stop_section: an end tag, and one level less. *)
CloseSection ==
  /\ pc \in {"stop_section", "stop_document"}
  /\ InnermostEnds
  /\ header_level_stack' = Front(header_level_stack)
  /\ open' = Front(open)
  /\ EndTag("section")
  /\ UNCHANGED <<option, pc, level, heads, inside, stale, docs>>

(* stop_section has returned to header(), which calls start_section(lev). *)
StartSection ==
  /\ pc = "stop_section"
  /\ ~InnermostEnds
  /\ header_level_stack' = Append(header_level_stack, level)
  /\ open' = Append(open, Len(heads) + 1)
  /\ heads' = Append(heads, level)
  /\ tags' = Append(tags, "section")
  /\ pc' = "body"
  /\ UNCHANGED <<option, level, torn, inside, stale, docs>>

(* A mutant of Top: the outermost sections stay open.                      *)
TopSubsections == 2

(* What stop_document asks stop_section to close: everything.              *)
Top == 1

(* writer.stop_document(): stop_section(1), whatever the options. *)
StopDocument ==
  /\ pc = "body"
  /\ "block" \notin Elems(tags)
  /\ level' = Top
  /\ pc' = "stop_document"
  /\ UNCHANGED <<option, header_level_stack, open, heads, tags, torn, inside, stale, docs>>

(* stop_document has nothing left to close. *)
Finish ==
  /\ pc = "stop_document"
  /\ ~InnermostEnds
  /\ pc' = "idle"
  /\ UNCHANGED <<option, level, header_level_stack, open, heads, tags, torn, inside, stale, docs>>

(* The reader raises an error in the middle of the document: a nested      *)
(* parse fails after earlier headers have been written.                    *)
Fail ==
  /\ pc = "body"
  /\ pc' = "idle"
  /\ UNCHANGED <<option, level, header_level_stack, open, heads, tags, torn, inside, stale, docs>>

Next ==
  \/ StartDocument
  \/ EnterBlock
  \/ LeaveBlock
  \/ \E l \in Levels : Header(l)
  \/ CloseSection
  \/ StartSection
  \/ StopDocument
  \/ Finish
  \/ Fail

Spec == Init /\ [][Next]_vars

-----------------------------------------------------------------------------

(* Every variable holds a value of its kind; there is one header for each  *)
(* open section.                                                           *)
TypeOK ==
  /\ option \in Options
  /\ pc \in PCs
  /\ level \in Nat \ {0}
  /\ header_level_stack \in Seq(Nat \ {0})
  /\ open \in Seq(Nat)
  /\ Len(open) = Len(header_level_stack)
  /\ heads \in Seq(Nat \ {0})
  /\ tags \in Seq({"block", "section"})
  /\ torn \in Nat
  /\ inside \in Nat
  /\ stale \in Nat
  /\ docs \in Nat

(* stop_section looks at the last entry only, and stops at the first one   *)
(* that outranks the new header.  That closes everything it should only if *)
(* the levels on the stack strictly increase from the outside in, also     *)
(* when the stack was left over by a failed conversion.                    *)
StackIncreasing ==
  \A i, j \in DOMAIN header_level_stack :
    i < j => header_level_stack[i] < header_level_stack[j]

(* With `slides` the containers never nest (html.lua: "Do not allow        *)
(* containers to nest"), even on a stack left over by a failed conversion. *)
SlidesNeverNest == option = "slides" => Len(header_level_stack) <= 1

(* Between two blocks, the sections that stand open are those of the       *)
(* headers that no later header has ended, each under its own header.      *)
Outline ==
  pc = "body" /\ stale = 0 =>
    /\ \A i \in DOMAIN heads :
         i \in Elems(open) <=> \A j \in DOMAIN heads : j > i => heads[j] > heads[i]
    /\ \A k \in DOMAIN open : header_level_stack[k] = heads[open[k]]

(* The tags of a document balance: every end tag closes the innermost      *)
(* element, and at the end nothing is left open, unless a header sits      *)
(* inside a block with tags of its own or the conversion before this one   *)
(* failed.                                                                 *)
Balanced ==
  inside = 0 /\ stale = 0 =>
    /\ torn = 0
    /\ pc = "stop_document" => Len(tags) = Len(header_level_stack)

(* A conversion that reaches its end leaves nothing open, whatever the     *)
(* documents before it did: only the one after a failure begins stale.     *)
NothingLeftOpen ==
  [][pc = "stop_document" /\ pc' = "idle" => header_level_stack' = <<>>]_vars

=============================================================================
