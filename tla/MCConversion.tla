---------------------------- MODULE MCConversion ----------------------------
(***************************************************************************)
(* Instances of Conversion for TLC: small alphabets of pieces and all the  *)
(* documents of a few pieces over them.                                    *)
(***************************************************************************)
EXTENDS Conversion, TLC

CONSTANTS a, A, b,          (* labels: a and A differ in case only            *)
          ta, tb,           (* tags                                           *)
          u, v,             (* targets                                        *)
          plain, linked, undefined, toB, toA, defining, broken
                            (* texts, see MCBodyOf                            *)

MCTag == (a :> ta) @@ (A :> ta) @@ (b :> tb)

Link(l)       == Piece("link", l, None)
NoteRef(l)    == Piece("note_ref", l, None)
LinkDef(l, r) == Piece("link_def", l, r)
NoteDef(l, r) == Piece("note_def", l, r)
Inline(r)     == Piece("inline_note", None, r)
LuaM          == Piece("lua_m", None, None)
Bad           == Piece("bad", None, None)

MCBodyOf ==
  (plain     :> <<>>) @@
  (linked    :> <<Link(a)>>) @@
  (undefined :> <<Link(b)>>) @@
  (toB       :> <<NoteRef(b), Link(a)>>) @@
  (toA       :> <<NoteRef(A), Inline(linked)>>) @@
  (defining  :> <<LinkDef(a, u)>>) @@
  (broken    :> <<LinkDef(b, v), Bad>>)

MCInlineBodies == {plain, linked, undefined}

(* Documents of at most n pieces of S.                                     *)
Upto(S, n) == UNION {[1 .. k -> S] : k \in 0 .. n}

(* Links, their definitions and notes around a call of m.                  *)
MetadataDocs ==
  Upto({LuaM, LinkDef(a, u), LinkDef(A, v), Link(a), NoteRef(b), NoteDef(b, linked),
        Inline(undefined)}, 4)

(* Links, forward and backward, labels in two spellings; and links in      *)
(* notes, around a call of m.                                              *)
LinkDocs ==
  Upto({LinkDef(a, u), LinkDef(A, v), LinkDef(b, u), Link(a), Link(A), Link(b)}, 4)
  \cup MetadataDocs

(* Notes whose texts hold links but no notes: the rendering is known.      *)
FlatDocs ==
  Upto({LinkDef(A, v), Link(a), Inline(linked), Inline(plain),
        NoteRef(a), NoteRef(b), NoteDef(A, linked), NoteDef(b, undefined)}, 4)
  \cup Upto({NoteDef(a, plain), NoteDef(A, linked), NoteRef(a)}, 4)

(* Notes that refer to one another, in a circle too, and texts in error.   *)
NestedDocs == Upto({NoteRef(a), NoteRef(b), Inline(linked), NoteDef(a, toB), NoteDef(b, toA),
                    NoteDef(b, linked), NoteDef(a, broken), Bad}, 4)

(* Definitions inside the text of a note: a link before it in the walk does *)
(* not see them.                                                           *)
DefiningDocs == Upto({NoteRef(b), NoteDef(b, defining), Link(a)}, 3)

(* What two documents may share.                                           *)
SharedDocs == Upto({LinkDef(a, u), Link(A), NoteDef(b, linked), NoteRef(b), Bad}, 2)

MCUserReferences == (ta :> None) @@ (tb :> v)
=============================================================================
