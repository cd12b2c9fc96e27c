----------------------------- MODULE Rendering ------------------------------
(***************************************************************************)
(* What a conversion promises, without passes, ropes and thunks: the text  *)
(* of the document with every reference resolved against the whole of it,  *)
(* and then the notes in the order of their numbers.                       *)
(*                                                                         *)
(* The promise is for documents whose notes contain links only, and it is  *)
(* exact about the numbers: notes written inline come first, the others    *)
(* follow in the order of their references.                                *)
(***************************************************************************)
EXTENDS Naturals, Sequences, FiniteSets, SequencesExt

CONSTANTS
  Labels, Tags, normalize_tag, Urls, Bodies, BodyOf, InlineBodies, Documents,
  None,
  given,    (* links that are defined before the document begins              *)
  Endnotes  (* notes are collected at the end of the document                 *)

VARIABLES busy, doc, output

vars == <<busy, doc, output>>

Piece(k, l, a) == [kind |-> k, label |-> l, arg |-> a]

(* The last definition of the tag t among the pieces of d of this kind.    *)
Definition(d, kind, t) ==
  LET defs == {i \in DOMAIN d : d[i].kind = kind /\ normalize_tag[d[i].label] = t}
  IN  IF defs = {} THEN None ELSE d[CHOOSE i \in defs : \A j \in defs : j <= i].arg

Note(d, i) == Definition(d, "note_def", normalize_tag[d[i].label])

(* The pieces of d that make a note: written inline, or a reference that   *)
(* finds one; and the number of the note that the piece i makes.           *)
InlineNotes(d) == {i \in DOMAIN d : d[i].kind = "inline_note"}
NoteRefs(d) == {i \in DOMAIN d : d[i].kind = "note_ref" /\ Note(d, i) # None}
Number(d, i) ==
  IF i \in InlineNotes(d)
    THEN Cardinality({j \in InlineNotes(d) : j <= i})
    ELSE Cardinality(InlineNotes(d)) + Cardinality({j \in NoteRefs(d) : j <= i})

(* A link, resolved. *)
Target(d, t) ==
  LET r == Definition(d, "link_def", t) IN IF r = None THEN given[t] ELSE r

LinkText(d, label) ==
  LET r == Target(d, normalize_tag[label])
  IN  <<IF r = None THEN Piece("bracketed", label, None) ELSE Piece("url", label, r)>>

(* The text of a note, whose pieces are links. *)
NoteText(d, i) ==
  LET body == BodyOf[IF i \in InlineNotes(d) THEN d[i].arg ELSE Note(d, i)]
  IN  FlattenSeq([k \in DOMAIN body |-> LinkText(d, body[k].label)])

(* What the piece i of the document becomes. *)
PieceText(d, i) ==
  CASE d[i].kind = "link" -> LinkText(d, d[i].label)
    [] i \in InlineNotes(d) \cup NoteRefs(d) ->
         IF Endnotes THEN <<Piece("mark", None, Number(d, i))>>
         ELSE <<Piece("open", None, None)>> \o NoteText(d, i) \o <<Piece("close", None, None)>>
    [] d[i].kind = "note_ref" /\ i \notin NoteRefs(d) -> <<Piece("bracketed", d[i].label, None)>>
    [] d[i].kind \in {"link_def", "note_def", "lua_m"} -> <<>>

(* The notes at the end. *)
NoteList(d) ==
  LET notes == InlineNotes(d) \cup NoteRefs(d)
      numbered(n) == CHOOSE i \in notes : Number(d, i) = n
  IN  IF Endnotes
        THEN FlattenSeq([n \in 1 .. Cardinality(notes) |->
                           <<Piece("entry", None, n)>> \o NoteText(d, numbered(n))])
        ELSE <<>>

Rendered ==
  [d \in Documents |-> FlattenSeq([i \in DOMAIN d |-> PieceText(d, i)]) \o NoteList(d)]

-----------------------------------------------------------------------------

Init == busy = FALSE /\ doc = <<>> /\ output = <<>>

Begin ==
  /\ ~busy
  /\ busy' = TRUE
  /\ doc' \in Documents
  /\ output' = <<>>

(* The rendering is written from its beginning to its end, piece by piece. *)
Write ==
  /\ busy
  /\ Len(output) < Len(Rendered[doc])
  /\ output' = Append(output, Rendered[doc][Len(output) + 1])
  /\ UNCHANGED <<busy, doc>>

End ==
  /\ busy
  /\ output = Rendered[doc]
  /\ busy' = FALSE
  /\ UNCHANGED <<doc, output>>

Next == Begin \/ Write \/ End

(* What has begun ends, with the whole of the rendering written. *)
Ends == busy ~> ~busy

Spec == Init /\ [][Next]_vars /\ Ends
=============================================================================
