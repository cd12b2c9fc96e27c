----------------------------- MODULE Conversion -----------------------------
(***************************************************************************)
(* One converter, made by lunamark.reader.markdown.new(writer, options),   *)
(* and the documents it converts one after the other.                      *)
(*                                                                         *)
(* A conversion has two passes.  parse_blocks builds a rope: captures run  *)
(* in document order and register definitions at once, but a reference to  *)
(* a link or a note becomes a function (a thunk) in the rope.              *)
(* rope_to_output then walks the rope and calls the thunks, so that a      *)
(* reference finds a definition that follows it.  A note's text is parsed  *)
(* only when its reference is forced: a parse in the middle of the walk,   *)
(* which may define links, number inline notes or fail in its turn.        *)
(*                                                                         *)
(* A document is a sequence of pieces, the parts that touch the state the  *)
(* passes share.  The rope, the rest of the walk and the output are        *)
(* sequences of pieces too; nesting of ropes is left out, since walk and   *)
(* flatten only care for the order of the leaves.                          *)
(***************************************************************************)
EXTENDS Naturals, Sequences

CONSTANTS
  Labels,         (* labels of links and notes as they are written            *)
  Tags,           (* labels after normalize_tag                               *)
  normalize_tag,  (* [Labels -> Tags], many to one                            *)
  Urls,           (* targets of link definitions                              *)
  Bodies,         (* texts of notes                                           *)
  BodyOf,         (* [Bodies -> Seq(Pieces)]: what a text contains            *)
  InlineBodies,   (* those that may be the text of an inline note             *)
  Documents,      (* documents to convert, a set of sequences of pieces       *)
  None,           (* nil                                                      *)
  Writer,         (* "html", "man" or "latex", see Endnotes below             *)
  userReferences, (* the option `references`: [Tags -> Urls \cup {None}], or  *)
                  (* None when the option is not given                        *)
  MaxDocs         (* bound: documents converted                               *)

(* What a document is made of ...                                          *)
Source == {"link_def", "note_def", "link", "note_ref", "inline_note",
           "lua_m", "bad"}
(* ... what the writer puts into a rope, and what reaches the output.      *)
Written == {"mark", "entry", "open", "close", "stop", "url", "bracketed"}

Pieces == [kind  : Source \cup Written,
           label : Labels \cup {None},
           arg   : Urls \cup Bodies \cup Nat \cup {None}]

(* Pieces that stand for a thunk of the reader.                            *)
Thunks == {p \in Pieces : p.kind \in {"link", "note_ref"} /\ p.label \in Labels}

(* What a rope of the reader may hold: thunks, and what writer.note wrote. *)
Leaves == Thunks \cup {p \in Pieces : p.kind \in {"mark", "open", "close"}}

(* A piece of a document is well formed when its fields suit its kind.     *)
SourcePieces ==
  {p \in Pieces :
     /\ p.kind \in Source
     /\ p.kind \in {"link_def", "note_def", "link", "note_ref"} => p.label \in Labels
     /\ p.kind = "link_def" => p.arg \in Urls
     /\ p.kind = "note_def" => p.arg \in Bodies
     /\ p.kind = "inline_note" => p.arg \in InlineBodies}

ASSUME ConversionAssumption ==
  /\ normalize_tag \in [Labels -> Tags]
  /\ BodyOf \in [Bodies -> Seq(SourcePieces)]
  /\ InlineBodies \subseteq Bodies
  /\ \A b \in InlineBodies : BodyOf[b] \in Seq(Thunks)
  /\ Documents \subseteq Seq(SourcePieces)
  /\ None \notin Labels \cup Urls \cup Bodies
  /\ Writer \in {"html", "man", "latex"}
  /\ userReferences \in [Tags -> Urls \cup {None}] \cup {None}
  /\ MaxDocs \in Nat

VARIABLES
  pc,          (* what runs: see PCs                                          *)
  source,      (* the text parse_blocks is working on ...                     *)
  pos,         (* ... and the next piece of it                                *)
  rope,        (* the rope being built                                        *)
  walking,     (* what rope_to_output has still to walk                       *)
  references,  (* upvalue of the reader: link definitions                     *)
  rawnotes,    (* upvalue of the reader: note definitions                     *)
  endnotes,    (* upvalue of the writer: the contents of the numbered notes   *)
  snapshot,    (* the endnotes that stop_document has put into the rope       *)
  output,      (* what has been written                                       *)
  doc,         (* history: the document being converted                       *)
  base,        (* history: link definitions when it began                     *)
  docs         (* documents begun                                             *)

reader == <<references, rawnotes>>
history == <<doc, base, docs>>
vars == <<pc, source, pos, rope, walking, reader, endnotes, snapshot, output, history>>

PCs == {"idle", "blocks", "note", "walk"}

Piece(k, l, a) == [kind |-> k, label |-> l, arg |-> a]
Mark(n)  == Piece("mark", None, n)       (* the number of a note in the text  *)
Entry(n) == Piece("entry", None, n)      (* a note begins at the end          *)
Open     == Piece("open", None, None)    (* \footnote{                        *)
Close    == Piece("close", None, None)   (* }                                 *)
Stop     == Piece("stop", None, None)    (* the thunk of Html.stop_document   *)

Nothing == [t \in Tags |-> None]

(* Which writers collect notes for the end of the document; the others     *)
(* write the text of a note where its reference is.                        *)
Endnotes == Writer \in {"html", "man"}

-----------------------------------------------------------------------------
(* The beginning of parse_markdown.                                        *)

Init ==
  /\ pc = "idle"
  /\ source = <<>> /\ pos = 1 /\ rope = <<>> /\ walking = <<>>
  /\ references = IF userReferences = None THEN Nothing ELSE userReferences
  /\ rawnotes = Nothing
  /\ endnotes = <<>> /\ snapshot = <<>> /\ output = <<>>
  /\ doc = <<>> /\ base = references /\ docs = 0

(* A mutant of FreshReferences: the table is made once, for all documents. *)
SameReferences == references

(* references = options.references or {}: a table of the caller is used as *)
(* it is, with what earlier documents have added to it.                    *)
FreshReferences == IF userReferences = None THEN Nothing ELSE references

(* parse_markdown(inp), up to the call of parse_blocks.  start_document    *)
(* clears the endnotes; nothing clears rawnotes.                           *)
StartDocument(d) ==
  /\ pc = "idle"
  /\ docs < MaxDocs
  /\ pc' = "blocks" /\ source' = d /\ pos' = 1 /\ rope' = <<>>
  /\ references' = FreshReferences
  /\ endnotes' = <<>> /\ snapshot' = <<>> /\ output' = <<>> /\ walking' = <<>>
  /\ doc' = d /\ base' = FreshReferences /\ docs' = docs + 1
  /\ UNCHANGED rawnotes

-----------------------------------------------------------------------------
(* parse_blocks: the captures run over the pieces in their order.          *)

AtPiece(kind) ==
  /\ pc \in {"blocks", "note"}
  /\ pos \in DOMAIN source
  /\ source[pos].kind = kind

(* A mutant of Define: the first definition wins.                          *)
DefineFirst(t, url) == [references EXCEPT ![t] = IF @ = None THEN url ELSE @]

(* references[tag] = url, whatever stood there.                            *)
Define(t, url) == [references EXCEPT ![t] = url]

(* register_link(tag, url, title): the last definition wins. *)
RegisterLink ==
  /\ AtPiece("link_def")
  /\ references' = Define(normalize_tag[source[pos].label], source[pos].arg)
  /\ pos' = pos + 1
  /\ UNCHANGED <<pc, source, rope, walking, rawnotes, endnotes, snapshot, output, history>>

(* A mutant of DefineNote: the first definition wins.                      *)
DefineFirstNote(t, body) == [rawnotes EXCEPT ![t] = IF @ = None THEN body ELSE @]

(* rawnotes[tag] = text, whatever stood there.                             *)
DefineNote(t, body) == [rawnotes EXCEPT ![t] = body]

(* register_note(ref, rawnote): the text is kept as it is, not parsed. *)
RegisterNote ==
  /\ AtPiece("note_def")
  /\ rawnotes' = DefineNote(normalize_tag[source[pos].label], source[pos].arg)
  /\ pos' = pos + 1
  /\ UNCHANGED <<pc, source, rope, walking, references, endnotes, snapshot, output, history>>

(* indirect_link(label) and lookup_note(ref) return a function. *)
Defer ==
  /\ AtPiece("link") \/ AtPiece("note_ref")
  /\ rope' = Append(rope, source[pos])
  /\ pos' = pos + 1
  /\ UNCHANGED <<pc, source, walking, reader, endnotes, snapshot, output, history>>

(* writer.note(contents): what it leaves in endnotes, and what it returns. *)
NoteEndnotes(contents) == IF Endnotes THEN Append(endnotes, contents) ELSE endnotes

(* A mutant of NoteRope: notes are numbered from 0.                        *)
NoteRopeFromZero(contents) ==
  IF Endnotes THEN <<Mark(Len(endnotes))>> ELSE <<Open>> \o contents \o <<Close>>

NoteRope(contents) ==
  IF Endnotes THEN <<Mark(Len(endnotes) + 1)>> ELSE <<Open>> \o contents \o <<Close>>

(* ^[...]: the text is parsed and handed to writer.note at once. *)
InlineNote ==
  /\ AtPiece("inline_note")
  /\ LET contents == BodyOf[source[pos].arg]
     IN  /\ endnotes' = NoteEndnotes(contents)
         /\ rope' = rope \o NoteRope(contents)
  /\ pos' = pos + 1
  /\ UNCHANGED <<pc, source, walking, reader, snapshot, output, history>>

(* A mutant of LuaMetadata: parse_markdown makes a new rawnotes, too.      *)
LuaMetadataClearing ==
  /\ AtPiece("lua_m")
  /\ references' = FreshReferences /\ rawnotes' = Nothing
  /\ endnotes' = <<>>
  /\ pos' = pos + 1
  /\ UNCHANGED <<pc, source, rope, walking, snapshot, output, history>>

(* A Lua comment that calls m on a string, a complete parse_markdown of    *)
(* its own inside this one: of a text without references and notes it      *)
(* leaves behind what parse_markdown and start_document have reset.        *)
LuaMetadata ==
  /\ AtPiece("lua_m")
  /\ references' = FreshReferences
  /\ endnotes' = <<>>
  /\ pos' = pos + 1
  /\ UNCHANGED <<pc, source, rope, walking, rawnotes, snapshot, output, history>>

(* A parser meets text that it cannot match and raises an error.  In the   *)
(* document it ends the conversion; in a note, walk's pcall hides it and   *)
(* the walk goes on without the note.                                      *)
ParseError ==
  /\ AtPiece("bad")
  /\ pc' = IF pc = "note" THEN "walk" ELSE "idle"
  /\ rope' = <<>>
  /\ UNCHANGED <<source, pos, walking, reader, endnotes, snapshot, output, history>>

-----------------------------------------------------------------------------
(* writer.stop_document and rope_to_output.                                *)

(* A mutant of EndOfSource: the end is looked for after the last piece.    *)
EndOfSourceMissed == pos = Len(source) + 2

EndOfSource == pos \notin DOMAIN source

Entries == [n \in DOMAIN endnotes |-> Entry(n)]

(* Mutants of StopLeaves: html does as man does; the last note is missing. *)
StopLeavesAtOnce == Entries
StopLeavesButLast == [n \in 1 .. Len(endnotes) - 1 |-> Entry(n)]

(* What writer.stop_document puts at the end of the rope: Man looks at the *)
(* endnotes now, Html returns a function that looks at them when it is     *)
(* reached in the walk, the others have nothing to add.                    *)
StopLeaves ==
  CASE Writer = "html"  -> <<Stop>>
    [] Writer = "man"   -> Entries
    [] Writer = "latex" -> <<>>

(* { writer.start_document(), parse_blocks(inp), writer.stop_document() }  *)
DocumentRope == rope \o StopLeaves

(* parse_blocks returns, and rope_to_output begins.  The copy of the       *)
(* endnotes is the one that Man's intersperse makes.                       *)
EndBlocks ==
  /\ pc = "blocks"
  /\ EndOfSource
  /\ pc' = "walk"
  /\ walking' = DocumentRope
  /\ snapshot' = endnotes
  /\ rope' = <<>>
  /\ UNCHANGED <<source, pos, reader, endnotes, output, history>>

(* The next leaf of the rope is a piece of this kind. *)
AtLeaf(kind) ==
  /\ pc = "walk"
  /\ walking # <<>>
  /\ Head(walking).kind = kind

(* A function of indirect_link is called: a link, or the text in brackets. *)
ForceLink ==
  /\ AtLeaf("link")
  /\ LET label == Head(walking).label
         r == references[normalize_tag[label]]
     IN  output' = Append(output, IF r # None THEN Piece("url", label, r)
                                              ELSE Piece("bracketed", label, None))
  /\ walking' = Tail(walking)
  /\ UNCHANGED <<pc, source, pos, rope, reader, endnotes, snapshot, history>>

(* A function of lookup_note finds the text of its note and parses it ...  *)
ForceNote ==
  /\ AtLeaf("note_ref")
  /\ LET found == rawnotes[normalize_tag[Head(walking).label]]
     IN  /\ found # None
         /\ source' = BodyOf[found]
  /\ pc' = "note" /\ pos' = 1 /\ rope' = <<>>
  /\ walking' = Tail(walking)
  /\ UNCHANGED <<reader, endnotes, snapshot, output, history>>

(* ... or finds none, and returns what the document says.                  *)
ForceUndefinedNote ==
  /\ AtLeaf("note_ref")
  /\ rawnotes[normalize_tag[Head(walking).label]] = None
  /\ output' = Append(output, Piece("bracketed", Head(walking).label, None))
  /\ walking' = Tail(walking)
  /\ UNCHANGED <<pc, source, pos, rope, reader, endnotes, snapshot, history>>

(* The text of the note is parsed; walk goes on with what writer.note      *)
(* returns.                                                                *)
EndNote ==
  /\ pc = "note"
  /\ EndOfSource
  /\ pc' = "walk"
  /\ endnotes' = NoteEndnotes(rope)
  /\ walking' = NoteRope(rope) \o walking
  /\ rope' = <<>>
  /\ UNCHANGED <<source, pos, reader, snapshot, output, history>>

(* The function of Html.stop_document: intersperse copies the list of the  *)
(* notes there are now.                                                    *)
ForceStop ==
  /\ AtLeaf("stop")
  /\ walking' = Entries \o Tail(walking)
  /\ snapshot' = endnotes
  /\ UNCHANGED <<pc, source, pos, rope, reader, endnotes, output, history>>

(* A note of that list: its number and then its contents. *)
WalkEntry ==
  /\ AtLeaf("entry")
  /\ output' = Append(output, Head(walking))
  /\ walking' = snapshot[Head(walking).arg] \o Tail(walking)
  /\ UNCHANGED <<pc, source, pos, rope, reader, endnotes, snapshot, history>>

(* A string. *)
WalkString ==
  /\ AtLeaf("mark") \/ AtLeaf("open") \/ AtLeaf("close")
  /\ output' = Append(output, Head(walking))
  /\ walking' = Tail(walking)
  /\ UNCHANGED <<pc, source, pos, rope, reader, endnotes, snapshot, history>>

(* parse_markdown returns. *)
Finish ==
  /\ pc = "walk"
  /\ walking = <<>>
  /\ pc' = "idle"
  /\ UNCHANGED <<source, pos, rope, walking, reader, endnotes, snapshot, output, history>>

-----------------------------------------------------------------------------

Parse == RegisterLink \/ RegisterNote \/ Defer \/ InlineNote \/ LuaMetadata \/ ParseError
Walk  == ForceLink \/ ForceNote \/ ForceUndefinedNote \/ EndNote \/ ForceStop
           \/ WalkEntry \/ WalkString

Next ==
  \/ \E d \in Documents : StartDocument(d)
  \/ Parse
  \/ EndBlocks
  \/ Walk
  \/ Finish

Spec == Init /\ [][Next]_vars

(* A conversion that has begun goes on: it is one call of a function.      *)
FairSpec == Spec /\ WF_vars(Parse \/ EndBlocks \/ Walk \/ Finish)

-----------------------------------------------------------------------------
(* Properties.                                                             *)

(* Every variable holds a value of its kind.  The thunk of stop_document   *)
(* is the last leaf of the rope, and the notes to be walked are in the     *)
(* copy that it has made.                                                  *)
TypeOK ==
  /\ pc \in PCs
  /\ source \in Seq(SourcePieces)
  /\ pos \in Nat \ {0}
  /\ rope \in Seq(Leaves)
  /\ walking \in Seq(Pieces)
  /\ \A i \in DOMAIN walking :
       \/ walking[i] \in Leaves
       \/ walking[i] = Stop /\ i = Len(walking)
       \/ walking[i].kind = "entry" /\ walking[i].arg \in DOMAIN snapshot
  /\ references \in [Tags -> Urls \cup {None}]
  /\ rawnotes \in [Tags -> Bodies \cup {None}]
  /\ endnotes \in Seq(Seq(Leaves))
  /\ snapshot \in Seq(Seq(Leaves))
  /\ output \in Seq(Pieces)
  /\ doc \in Seq(SourcePieces)
  /\ base \in [Tags -> Urls \cup {None}]
  /\ docs \in Nat

(* Whether p defines the tag t, as a link or as a note.                    *)
Defines(p, kind, t) == p.kind = kind /\ normalize_tag[p.label] = t

(* The piece p is a call of m that takes the definitions before it away:   *)
(* there is no table of the caller's that parse_markdown would go on with. *)
Resets(p) == p.kind = "lua_m" /\ userReferences = None

(* u is what the first n pieces of s say of the link t, over the           *)
(* definitions the conversion began with: the last one counts, when no     *)
(* call of m has reset it.                                                 *)
Latest(u, t, s, n) ==
  \/ \E i \in 1 .. n :
       /\ Defines(s[i], "link_def", t)
       /\ u = s[i].arg
       /\ \A j \in 1 .. n : j > i => ~Defines(s[j], "link_def", t) /\ ~Resets(s[j])
  \/ /\ u = base[t]
     /\ \A i \in 1 .. n :
          Defines(s[i], "link_def", t) => \E j \in 1 .. n : j > i /\ Resets(s[j])

(* The notes of d leave the table of links alone.                          *)
NotesLeaveLinks(d) ==
  \A i \in DOMAIN d :
    d[i].kind = "note_def" =>
      LET body == BodyOf[d[i].arg]
      IN  \A k \in DOMAIN body : body[k].kind # "link_def" /\ ~Resets(body[k])

(* A link by reference leads to the last definition of its label in the    *)
(* whole document, before or after the link, in the text or in a note.  A  *)
(* call of m takes those before it away, for links on both sides of it,    *)
(* and none of a table that the caller has given.  Without a definition    *)
(* the link comes out as it was written.  Documents whose notes define     *)
(* links are left out: what a link finds depends on when they are walked.  *)
LinksResolve ==
  [][ForceLink /\ NotesLeaveLinks(doc) =>
       \E u \in Urls \cup {None} :
         /\ Latest(u, normalize_tag[Head(walking).label], doc, Len(doc))
         /\ output' = Append(output, Piece(IF u = None THEN "bracketed" ELSE "url",
                                           Head(walking).label, u))]_vars

Kind(s, kind) == {i \in DOMAIN s : s[i].kind = kind}
Numbers(s, kind) == {s[i].arg : i \in Kind(s, kind)}

(* No call of m in d takes away what the writer has numbered, or the       *)
(* definition of a link.                                                   *)
NothingReset(d) ==
  \A i \in Kind(d, "lua_m") : \A k \in 1 .. i - 1 :
    /\ d[k].kind # "inline_note"
    /\ d[k].kind = "link_def" => ~Resets(d[i])

(* No two notes of a document get the same number, and each number that is *)
(* in the output belongs to a note the writer has kept: unless a call of m *)
(* lets the writer begin again.                                            *)
NumbersUnique ==
  NothingReset(doc) =>
    /\ \A i, j \in Kind(output, "mark") : output[i].arg = output[j].arg => i = j
    /\ Numbers(output, "mark") \subseteq DOMAIN endnotes

(* When the conversion returns, each note the text has a number for is     *)
(* among the notes at the end, and no other.                               *)
NotesDelivered ==
  pc = "idle" /\ Endnotes => Numbers(output, "entry") = Numbers(output, "mark")

(* The documents Rendering makes a promise for: their notes hold links     *)
(* only, nothing in them is in error, and their calls of m come before     *)
(* what these would take away.  Texts of notes and references may precede  *)
(* a call.                                                                 *)
Promised ==
  {d \in Documents :
     /\ NothingReset(d)
     /\ \A i \in DOMAIN d :
          /\ d[i].kind # "bad"
          /\ d[i].kind \in {"note_def", "inline_note"} =>
               \A k \in DOMAIN BodyOf[d[i].arg] : BodyOf[d[i].arg][k].kind = "link"}

(* When a promised document has been converted, each note the text has a   *)
(* number for is among the notes at the end, and no other.                 *)
PromisedNotesDelivered == doc \in Promised => NotesDelivered

(* A reference finds a definition of the document it is in, or one that    *)
(* the caller has given (markdown.lua, on the option: "A table of          *)
(* references to be used in resolving links in the document").             *)
DefinitionsOfThisDocument ==
  [][LET t == normalize_tag[Head(walking).label]
         own(kind) == \E i \in DOMAIN doc : Defines(doc[i], kind, t)
     IN  /\ ForceLink => \/ references[t] = None
                         \/ own("link_def")
                         \/ userReferences # None /\ userReferences[t] = references[t]
         /\ ForceNote => own("note_def")]_vars

(* Every conversion ends, even when notes refer to one another in a circle. *)
Terminates == (pc # "idle") ~> (pc = "idle")
=============================================================================
