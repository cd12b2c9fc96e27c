------------------------- MODULE Conversion_proofs -------------------------
(***************************************************************************)
(* Theorems about Conversion, for any labels, texts and documents.         *)
(***************************************************************************)
EXTENDS Conversion, SequenceFacts

-----------------------------------------------------------------------------
(* The pieces the writer makes.                                            *)

LEMMA WrittenPieces ==
  /\ Leaves \subseteq Pieces
  /\ Thunks \subseteq Leaves
  /\ Open \in Leaves /\ Close \in Leaves
  /\ Stop \in Pieces
  /\ \A n \in Nat : Mark(n) \in Leaves
  /\ \A n \in Nat : Entry(n) \in Pieces /\ Entry(n).kind = "entry" /\ Entry(n).arg = n
BY DEF Leaves, Thunks, Pieces, Open, Close, Stop, Mark, Entry, Piece, Written, Source

(* The texts of notes are pieces of a document, those of inline notes are  *)
(* ropes.                                                                  *)
LEMMA Texts ==
  /\ \A b \in Bodies : BodyOf[b] \in Seq(SourcePieces)
  /\ \A b \in InlineBodies : BodyOf[b] \in Seq(Leaves)
<1>1. \A b \in InlineBodies : BodyOf[b] \in Seq(Thunks)
  BY ConversionAssumption
<1>2. Seq(Thunks) \subseteq Seq(Leaves)
  BY WrittenPieces, SeqMonotonic
<1>3. \A b \in Bodies : BodyOf[b] \in Seq(SourcePieces)
  BY ConversionAssumption
<1> QED BY <1>1, <1>2, <1>3

(* What writer.note returns is a rope, and what it keeps are the contents. *)
LEMMA NoteTypes ==
  ASSUME NEW contents \in Seq(Leaves), endnotes \in Seq(Seq(Leaves))
  PROVE  /\ NoteRope(contents) \in Seq(Leaves)
         /\ NoteEndnotes(contents) \in Seq(Seq(Leaves))
<1>1. Len(endnotes) + 1 \in Nat
  BY LenProperties
<1>2. <<Mark(Len(endnotes) + 1)>> \in Seq(Leaves)
  <2>1. Mark(Len(endnotes) + 1) \in Leaves
    BY <1>1, WrittenPieces
  <2> HIDE DEF Mark
  <2> QED BY <2>1
<1>3. <<Open>> \in Seq(Leaves) /\ <<Close>> \in Seq(Leaves)
  <2>1. Open \in Leaves /\ Close \in Leaves
    BY WrittenPieces
  <2> QED BY <2>1
<1>4. <<Open>> \o contents \in Seq(Leaves)
  BY <1>3, ConcatProperties
<1>5. <<Open>> \o contents \o <<Close>> \in Seq(Leaves)
  BY <1>3, <1>4, ConcatProperties
<1>6. NoteRope(contents) \in Seq(Leaves)
  BY <1>2, <1>5 DEF NoteRope
<1>7. NoteEndnotes(contents) \in Seq(Seq(Leaves))
  BY AppendProperties DEF NoteEndnotes
<1> QED BY <1>6, <1>7

-----------------------------------------------------------------------------
(* What is left of the walk.                                               *)

(* The leaf w[i] of a rope w may stand there, given the copy of the notes. *)
WalkLeaf(w, i, notes) ==
  \/ w[i] \in Leaves
  \/ w[i] = Stop /\ i = Len(w)
  \/ w[i].kind = "entry" /\ w[i].arg \in DOMAIN notes

Walks(notes) == {w \in Seq(Pieces) : \A i \in DOMAIN w : WalkLeaf(w, i, notes)}

(* A rope of the reader, alone or in front of what is left of the walk.    *)
LEMMA WalkRope ==
  ASSUME NEW r \in Seq(Leaves), NEW w, NEW notes, w \in Walks(notes)
  PROVE  (r \o w) \in Walks(notes)
<1>1. r \in Seq(Pieces) /\ w \in Seq(Pieces)
  BY WrittenPieces, SeqMonotonic DEF Walks
<1>2. /\ r \o w \in Seq(Pieces)
      /\ Len(r) \in Nat /\ Len(w) \in Nat
      /\ Len(r \o w) = Len(r) + Len(w)
      /\ \A i \in DOMAIN (r \o w) :
           \/ i \in DOMAIN r /\ (r \o w)[i] = r[i]
           \/ \E j \in DOMAIN w : i = Len(r) + j /\ (r \o w)[i] = w[j]
  BY <1>1, ConcatDomain
<1>3. \A i \in DOMAIN r : r[i] \in Leaves
  BY ElementOfSeq, LenProperties
<1>4. ASSUME NEW i \in DOMAIN (r \o w) PROVE WalkLeaf(r \o w, i, notes)
  <2>1. CASE i \in DOMAIN r /\ (r \o w)[i] = r[i]
    BY <1>3, <2>1 DEF WalkLeaf
  <2>2. CASE \E j \in DOMAIN w : i = Len(r) + j /\ (r \o w)[i] = w[j]
    <3>1. PICK j \in DOMAIN w : i = Len(r) + j /\ (r \o w)[i] = w[j]
      BY <2>2
    <3>2. WalkLeaf(w, j, notes)
      BY DEF Walks
    <3>3. j = Len(w) => i = Len(r \o w)
      BY <1>2, <3>1
    <3> QED BY <3>1, <3>2, <3>3 DEF WalkLeaf
  <2> QED BY <1>2, <2>1, <2>2
<1> QED BY <1>2, <1>4 DEF Walks

(* What is left after a leaf.                                              *)
LEMMA WalkTail ==
  ASSUME NEW w, NEW notes, w \in Walks(notes), w # <<>>
  PROVE  /\ Tail(w) \in Walks(notes)
         /\ Head(w) \in Pieces
         /\ WalkLeaf(w, 1, notes)
         /\ Head(w) = w[1]
         /\ Head(w) = Stop => Tail(w) = <<>>
<1>1. /\ Len(w) \in Nat \ {0}
      /\ DOMAIN w = 1 .. Len(w)
      /\ 1 \in DOMAIN w
      /\ Head(w) = w[1]
      /\ Head(w) \in Pieces
      /\ Tail(w) \in Seq(Pieces)
      /\ Len(Tail(w)) = Len(w) - 1
      /\ DOMAIN Tail(w) = 1 .. Len(w) - 1
      /\ \A i \in DOMAIN Tail(w) : i + 1 \in DOMAIN w /\ Tail(w)[i] = w[i + 1]
  BY TailDomain DEF Walks
<1>2. ASSUME NEW i \in DOMAIN Tail(w) PROVE WalkLeaf(Tail(w), i, notes)
  <2>1. i + 1 \in DOMAIN w /\ Tail(w)[i] = w[i + 1]
    BY <1>1
  <2>2. WalkLeaf(w, i + 1, notes)
    BY <2>1 DEF Walks
  <2>3. i + 1 = Len(w) => i = Len(Tail(w))
    BY <1>1
  <2> QED BY <2>1, <2>2, <2>3 DEF WalkLeaf
<1>3. WalkLeaf(w, 1, notes)
  BY <1>1 DEF Walks
<1>4. Stop \notin Leaves /\ Stop.kind # "entry"
  <2>1. Stop.kind = "stop"
    BY DEF Stop, Piece
  <2>2. \A p \in Leaves : p.kind \in {"link", "note_ref", "mark", "open", "close"}
    BY DEF Leaves, Thunks
  <2> QED BY <2>1, <2>2
<1>5. Head(w) = Stop => Len(Tail(w)) = 0
  BY <1>1, <1>3, <1>4 DEF WalkLeaf
<1>6. Head(w) = Stop => Tail(w) = <<>>
  BY <1>1, <1>5, EmptySeq
<1> QED BY <1>1, <1>2, <1>3, <1>6 DEF Walks

(* The list of the notes.                                                  *)
LEMMA WalkEntries ==
  ASSUME endnotes \in Seq(Seq(Leaves))
  PROVE  Entries \in Walks(endnotes)
<1>1. Len(endnotes) \in Nat /\ DOMAIN endnotes = 1 .. Len(endnotes)
  BY LenProperties
<1>2. \A n \in DOMAIN endnotes :
        Entry(n) \in Pieces /\ Entry(n).kind = "entry" /\ Entry(n).arg = n
  BY <1>1, WrittenPieces
<1>3. Entries \in [1 .. Len(endnotes) -> Pieces]
  BY <1>1, <1>2 DEF Entries
<1>4. Entries \in Seq(Pieces)
  <2>1. \A n \in Nat : \A f \in [1 .. n -> Pieces] : f \in Seq(Pieces)
    BY SeqDef
  <2> QED BY <1>1, <1>3, <2>1
<1>5. \A n \in DOMAIN Entries : Entries[n] = Entry(n) /\ n \in DOMAIN endnotes
  BY DEF Entries
<1> QED BY <1>2, <1>4, <1>5 DEF Walks, WalkLeaf

(* The rope of the document.                                               *)
LEMMA WalkDocument ==
  ASSUME rope \in Seq(Leaves), endnotes \in Seq(Seq(Leaves))
  PROVE  DocumentRope \in Walks(endnotes)
<1>1. <<>> \in Walks(endnotes)
  BY EmptySeq DEF Walks
<1>2. <<Stop>> \in Walks(endnotes)
  <2>1. <<Stop>> \in Seq(Pieces) /\ Len(<<Stop>>) = 1 /\ DOMAIN <<Stop>> = {1} /\ <<Stop>>[1] = Stop
    <3>1. Stop \in Pieces
      BY WrittenPieces
    <3> QED BY <3>1
  <2> QED BY <2>1 DEF Walks, WalkLeaf
<1>3. Entries \in Walks(endnotes)
  BY WalkEntries
<1>4. StopLeaves \in Walks(endnotes)
  BY <1>1, <1>2, <1>3, ConversionAssumption DEF StopLeaves
<1> QED BY <1>4, WalkRope DEF DocumentRope

-----------------------------------------------------------------------------
(* The typing invariant.                                                   *)

LEMMA InitialTables ==
  /\ FreshReferences \in [Tags -> Urls \cup {None}] \/ FreshReferences = references
  /\ Nothing \in [Tags -> Urls \cup {None}]
  /\ Nothing \in [Tags -> Bodies \cup {None}]
BY DEF FreshReferences, Nothing

(* The piece at hand is one of a document.                                 *)
LEMMA PieceAtHand ==
  ASSUME TypeOK, NEW kind, AtPiece(kind)
  PROVE  /\ source[pos] \in SourcePieces
         /\ source[pos].kind = kind
         /\ pos + 1 \in Nat \ {0}
<1>1. source \in Seq(SourcePieces) /\ pos \in DOMAIN source /\ source[pos].kind = kind
  BY DEF TypeOK, AtPiece
<1>2. DOMAIN source = 1 .. Len(source) /\ Len(source) \in Nat
  BY <1>1, LenProperties
<1>3. source[pos] \in SourcePieces
  BY <1>1, <1>2, ElementOfSeq
<1>4. pos \in Nat \ {0}
  BY DEF TypeOK
<1> QED BY <1>1, <1>3, <1>4

(* What TypeOK says of the walk.                                           *)
LEMMA TypeWalk ==
  /\ TypeOK => walking \in Walks(snapshot)
  /\ (walking \in Walks(snapshot))' <=> walking' \in Walks(snapshot')
BY DEF TypeOK, Walks, WalkLeaf, Stop, Piece, Leaves, Thunks, Pieces

(* A function of the reader at the head of the walk has a label.           *)
LEMMA LabelAtHand ==
  ASSUME TypeOK, walking # <<>>, Head(walking).kind \in {"link", "note_ref"}
  PROVE  Head(walking).label \in Labels
<1>1. walking \in Walks(snapshot)
  BY TypeWalk
<1>2. WalkLeaf(walking, 1, snapshot) /\ Head(walking) = walking[1]
  BY <1>1, WalkTail
<1>3. Head(walking) \in Leaves
  BY <1>2 DEF WalkLeaf, Stop, Piece
<1> QED BY <1>3 DEF Leaves, Thunks

(* In every reachable state the variables hold values of their kinds, the  *)
(* thunk of stop_document is the last leaf of the rope, and a note about   *)
(* to be walked is in the copy the walk is made of.                        *)
THEOREM TypeCorrect == Spec => []TypeOK
<1>1. Init => TypeOK
  <2> SUFFICES ASSUME Init PROVE TypeOK
    OBVIOUS
  <2>1. references \in [Tags -> Urls \cup {None}]
    BY InitialTables, ConversionAssumption DEF Init
  <2>2. \A S : <<>> \in Seq(S)
    BY EmptySeq
  <2>3. rawnotes \in [Tags -> Bodies \cup {None}]
    BY InitialTables DEF Init
  <2>4. DOMAIN walking = {}
    BY DEF Init
  <2>5. pc \in PCs /\ pos \in Nat \ {0} /\ docs \in Nat /\ base = references
    BY DEF Init, PCs
  <2>6. /\ source = <<>> /\ rope = <<>> /\ walking = <<>> /\ endnotes = <<>>
        /\ snapshot = <<>> /\ output = <<>> /\ doc = <<>>
    BY DEF Init
  <2> QED BY <2>1, <2>2, <2>3, <2>4, <2>5, <2>6 DEF TypeOK
<1>2. TypeOK /\ [Next]_vars => TypeOK'
  <2> SUFFICES ASSUME TypeOK, [Next]_vars PROVE TypeOK'
    OBVIOUS
  <2> DEFINE Rest ==
        /\ pc' \in PCs
        /\ source' \in Seq(SourcePieces)
        /\ pos' \in Nat \ {0}
        /\ rope' \in Seq(Leaves)
        /\ walking' \in Walks(snapshot')
        /\ references' \in [Tags -> Urls \cup {None}]
        /\ rawnotes' \in [Tags -> Bodies \cup {None}]
        /\ endnotes' \in Seq(Seq(Leaves))
        /\ snapshot' \in Seq(Seq(Leaves))
        /\ output' \in Seq(Pieces)
        /\ doc' \in Seq(SourcePieces)
        /\ base' \in [Tags -> Urls \cup {None}]
        /\ docs' \in Nat
  <2> SUFFICES Rest
    BY DEF TypeOK, Walks, WalkLeaf
  <2>b. /\ walking \in Walks(snapshot)
        /\ pc \in PCs /\ source \in Seq(SourcePieces) /\ pos \in Nat \ {0}
        /\ rope \in Seq(Leaves)
        /\ references \in [Tags -> Urls \cup {None}]
        /\ rawnotes \in [Tags -> Bodies \cup {None}]
        /\ endnotes \in Seq(Seq(Leaves)) /\ snapshot \in Seq(Seq(Leaves))
        /\ output \in Seq(Pieces) /\ doc \in Seq(SourcePieces)
        /\ base \in [Tags -> Urls \cup {None}] /\ docs \in Nat
    BY TypeWalk DEF TypeOK
  <2>c. \A S : <<>> \in Seq(S)
    BY EmptySeq
  <2>d. <<>> \in Walks(<<>>)
    BY <2>c, EmptySeq DEF Walks
  <2>e. FreshReferences \in [Tags -> Urls \cup {None}]
    BY <2>b, InitialTables
  <2>f. "blocks" \in PCs /\ "walk" \in PCs /\ "note" \in PCs /\ "idle" \in PCs /\ 1 \in Nat \ {0}
    BY DEF PCs
  <2>1. ASSUME NEW d \in Documents, StartDocument(d) PROVE Rest
    <3>1. d \in Seq(SourcePieces)
      BY ConversionAssumption
    <3>2. docs' \in Nat
      BY <2>1, <2>b DEF StartDocument
    <3> QED BY <2>1, <3>1, <3>2, <2>b, <2>c, <2>d, <2>e, <2>f DEF StartDocument
  <2>2. CASE RegisterLink
    <3>1. source[pos] \in SourcePieces /\ source[pos].kind = "link_def" /\ pos + 1 \in Nat \ {0}
      BY <2>2, PieceAtHand DEF RegisterLink
    <3>2. source[pos].arg \in Urls
      BY <3>1 DEF SourcePieces
    <3>3. references' \in [Tags -> Urls \cup {None}]
      BY <2>2, <2>b, <3>2 DEF RegisterLink, Define
    <3>u. /\ pc' = pc /\ source' = source /\ rope' = rope /\ walking' = walking
          /\ rawnotes' = rawnotes /\ endnotes' = endnotes /\ snapshot' = snapshot /\ output' = output
          /\ doc' = doc /\ base' = base /\ docs' = docs
      BY <2>2 DEF RegisterLink, history, reader
    <3> QED BY <2>2, <2>b, <3>1, <3>3, <3>u DEF RegisterLink
  <2>3. CASE RegisterNote
    <3>1. source[pos] \in SourcePieces /\ source[pos].kind = "note_def" /\ pos + 1 \in Nat \ {0}
      BY <2>3, PieceAtHand DEF RegisterNote
    <3>2. source[pos].arg \in Bodies
      BY <3>1 DEF SourcePieces
    <3>3. rawnotes' \in [Tags -> Bodies \cup {None}]
      BY <2>3, <2>b, <3>2 DEF RegisterNote, DefineNote
    <3>u. /\ pc' = pc /\ source' = source /\ rope' = rope /\ walking' = walking
          /\ references' = references /\ endnotes' = endnotes /\ snapshot' = snapshot /\ output' = output
          /\ doc' = doc /\ base' = base /\ docs' = docs
      BY <2>3 DEF RegisterNote, history, reader
    <3> QED BY <2>3, <2>b, <3>1, <3>3, <3>u DEF RegisterNote
  <2>4. CASE Defer
    <3>1. PICK k \in {"link", "note_ref"} : AtPiece(k)
      BY <2>4 DEF Defer
    <3>2. source[pos] \in SourcePieces /\ source[pos].kind = k /\ pos + 1 \in Nat \ {0}
      BY <3>1, PieceAtHand
    <3>3. source[pos] \in Leaves
      BY <3>2 DEF SourcePieces, Leaves, Thunks
    <3>4. rope' \in Seq(Leaves)
      BY <2>4, <2>b, <3>3, AppendProperties DEF Defer
    <3>u. /\ pc' = pc /\ source' = source /\ walking' = walking /\ references' = references
          /\ rawnotes' = rawnotes /\ endnotes' = endnotes /\ snapshot' = snapshot /\ output' = output
          /\ doc' = doc /\ base' = base /\ docs' = docs
      BY <2>4 DEF Defer, history, reader
    <3> QED BY <2>4, <2>b, <3>2, <3>4, <3>u DEF Defer
  <2>5. CASE InlineNote
    <3>1. source[pos] \in SourcePieces /\ source[pos].kind = "inline_note" /\ pos + 1 \in Nat \ {0}
      BY <2>5, PieceAtHand DEF InlineNote
    <3>2. source[pos].arg \in InlineBodies
      BY <3>1 DEF SourcePieces
    <3>3. BodyOf[source[pos].arg] \in Seq(Leaves)
      BY <3>2, Texts
    <3>4. /\ NoteRope(BodyOf[source[pos].arg]) \in Seq(Leaves)
          /\ NoteEndnotes(BodyOf[source[pos].arg]) \in Seq(Seq(Leaves))
      BY <2>b, <3>3, NoteTypes
    <3>5. rope \o NoteRope(BodyOf[source[pos].arg]) \in Seq(Leaves)
      BY <2>b, <3>4, ConcatProperties
    <3>u. /\ pc' = pc /\ source' = source /\ walking' = walking /\ references' = references
          /\ rawnotes' = rawnotes /\ snapshot' = snapshot /\ output' = output /\ doc' = doc
          /\ base' = base /\ docs' = docs
      BY <2>5 DEF InlineNote, history, reader
    <3> QED BY <2>5, <2>b, <3>1, <3>4, <3>5, <3>u DEF InlineNote
  <2>6. CASE LuaMetadata
    <3>1. pos + 1 \in Nat \ {0}
      BY <2>6, PieceAtHand DEF LuaMetadata
    <3>u. /\ pc' = pc /\ source' = source /\ rope' = rope /\ walking' = walking
          /\ rawnotes' = rawnotes /\ snapshot' = snapshot /\ output' = output /\ doc' = doc
          /\ base' = base /\ docs' = docs
      BY <2>6 DEF LuaMetadata, history, reader
    <3> QED BY <2>6, <2>b, <2>c, <2>e, <3>1, <3>u DEF LuaMetadata
  <2>7. CASE ParseError
    BY <2>7, <2>b, <2>c, <2>f DEF ParseError, history, reader
  <2>8. CASE EndBlocks
    <3>1. DocumentRope \in Walks(endnotes)
      BY <2>b, WalkDocument
    <3>u. /\ source' = source /\ pos' = pos /\ references' = references /\ rawnotes' = rawnotes
          /\ endnotes' = endnotes /\ output' = output /\ doc' = doc /\ base' = base
          /\ docs' = docs
      BY <2>8 DEF EndBlocks, history, reader
    <3> QED BY <2>8, <2>b, <2>c, <2>f, <3>1, <3>u DEF EndBlocks
  <2>9. ASSUME walking # <<>>
        PROVE  /\ Tail(walking) \in Walks(snapshot)
               /\ Head(walking) \in Pieces
               /\ WalkLeaf(walking, 1, snapshot)
               /\ Head(walking) = walking[1]
               /\ Head(walking) = Stop => Tail(walking) = <<>>
    BY <2>9, <2>b, WalkTail
  <2>11. CASE ForceLink
    <3> DEFINE label == Head(walking).label
               r == references[normalize_tag[label]]
    <3>1. walking # <<>> /\ label \in Labels
      BY LabelAtHand, <2>11 DEF ForceLink, AtLeaf
    <3>2. r \in Urls \cup {None}
      BY <2>b, <3>1, ConversionAssumption
    <3>3. /\ Piece("url", label, r) \in Pieces
          /\ Piece("bracketed", label, None) \in Pieces
      BY <3>1, <3>2 DEF Piece, Pieces, Written
    <3>4. output' \in Seq(Pieces)
      <4>1. \/ output' = Append(output, Piece("url", label, r))
            \/ output' = Append(output, Piece("bracketed", label, None))
        BY <2>11 DEF ForceLink
      <4>2. \A p \in Pieces : Append(output, p) \in Seq(Pieces)
        BY <2>b, AppendProperties
      <4> HIDE DEF label, r
      <4> QED BY <4>1, <4>2, <3>3
    <3>u. /\ pc' = pc /\ source' = source /\ pos' = pos /\ rope' = rope
          /\ references' = references /\ rawnotes' = rawnotes /\ endnotes' = endnotes /\ snapshot' = snapshot
          /\ doc' = doc /\ base' = base /\ docs' = docs
      BY <2>11 DEF ForceLink, history, reader
    <3> QED BY <2>9, <2>11, <2>b, <3>1, <3>4, <3>u DEF ForceLink
  <2>12. CASE ForceNote
    <3>1. walking # <<>> /\ Head(walking).label \in Labels
      BY LabelAtHand, <2>12 DEF ForceNote, AtLeaf
    <3>2. rawnotes[normalize_tag[Head(walking).label]] \in Bodies
      BY <2>12, <2>b, <3>1, ConversionAssumption DEF ForceNote
    <3>3. source' \in Seq(SourcePieces)
      BY <2>12, <3>2, Texts DEF ForceNote
    <3>u. /\ references' = references /\ rawnotes' = rawnotes /\ endnotes' = endnotes /\ snapshot' = snapshot
          /\ output' = output /\ doc' = doc /\ base' = base /\ docs' = docs
      BY <2>12 DEF ForceNote, history, reader
    <3> QED BY <2>9, <2>12, <2>b, <2>c, <2>f, <3>1, <3>3, <3>u DEF ForceNote
  <2>13. CASE ForceUndefinedNote
    <3>1. walking # <<>> /\ Head(walking).label \in Labels
      BY LabelAtHand, <2>13 DEF ForceUndefinedNote, AtLeaf
    <3>2. Piece("bracketed", Head(walking).label, None) \in Pieces
      BY <3>1 DEF Piece, Pieces, Written
    <3>3. output' \in Seq(Pieces)
      BY <2>13, <2>b, <3>2, AppendProperties DEF ForceUndefinedNote
    <3>u. /\ pc' = pc /\ source' = source /\ pos' = pos /\ rope' = rope
          /\ references' = references /\ rawnotes' = rawnotes /\ endnotes' = endnotes /\ snapshot' = snapshot
          /\ doc' = doc /\ base' = base /\ docs' = docs
      BY <2>13 DEF ForceUndefinedNote, history, reader
    <3> QED BY <2>9, <2>13, <2>b, <3>1, <3>3, <3>u DEF ForceUndefinedNote
  <2>14. CASE EndNote
    <3>1. NoteRope(rope) \in Seq(Leaves) /\ NoteEndnotes(rope) \in Seq(Seq(Leaves))
      BY <2>b, NoteTypes
    <3>2. (NoteRope(rope) \o walking) \in Walks(snapshot)
      BY <2>b, <3>1, WalkRope
    <3>u. /\ source' = source /\ pos' = pos /\ references' = references /\ rawnotes' = rawnotes
          /\ snapshot' = snapshot /\ output' = output /\ doc' = doc /\ base' = base
          /\ docs' = docs
      BY <2>14 DEF EndNote, history, reader
    <3> QED BY <2>14, <2>b, <2>c, <2>f, <3>1, <3>2, <3>u DEF EndNote
  <2>15. CASE ForceStop
    <3>1. walking # <<>> /\ Head(walking).kind = "stop"
      BY <2>15 DEF ForceStop, AtLeaf
    <3>2. Head(walking) = Stop
      BY <2>9, <3>1 DEF WalkLeaf, Leaves, Thunks
    <3>3. Tail(walking) = <<>>
      BY <2>9, <3>1, <3>2
    <3>4. Entries \in Walks(endnotes)
      BY <2>b, WalkEntries
    <3>5. Entries \o <<>> = Entries
      BY <3>4, ConcatEmptySeq DEF Walks
    <3>6. walking' = Entries /\ snapshot' = endnotes
      BY <2>15, <3>3, <3>5 DEF ForceStop
    <3>u. /\ pc' = pc /\ source' = source /\ pos' = pos /\ rope' = rope
          /\ references' = references /\ rawnotes' = rawnotes /\ endnotes' = endnotes /\ output' = output
          /\ doc' = doc /\ base' = base /\ docs' = docs
      BY <2>15 DEF ForceStop, history, reader
    <3> QED BY <2>15, <2>b, <3>4, <3>6, <3>u DEF ForceStop
  <2>16. CASE WalkEntry
    <3>1. walking # <<>> /\ Head(walking).kind = "entry"
      BY <2>16 DEF WalkEntry, AtLeaf
    <3>2. Head(walking).arg \in DOMAIN snapshot
      BY <2>9, <3>1 DEF WalkLeaf, Leaves, Thunks, Stop, Piece
    <3>3. snapshot[Head(walking).arg] \in Seq(Leaves)
      BY <2>b, <3>2, ElementOfSeq, LenProperties
    <3>4. (snapshot[Head(walking).arg] \o Tail(walking)) \in Walks(snapshot)
      BY <2>9, <3>1, <3>3, WalkRope
    <3>5. output' \in Seq(Pieces)
      BY <2>9, <2>16, <2>b, <3>1, AppendProperties DEF WalkEntry
    <3>u. /\ pc' = pc /\ source' = source /\ pos' = pos /\ rope' = rope
          /\ references' = references /\ rawnotes' = rawnotes /\ endnotes' = endnotes /\ snapshot' = snapshot
          /\ doc' = doc /\ base' = base /\ docs' = docs
      BY <2>16 DEF WalkEntry, history, reader
    <3> QED BY <2>16, <2>b, <3>4, <3>5, <3>u DEF WalkEntry
  <2>17. CASE WalkString
    <3>1. walking # <<>>
      BY <2>17 DEF WalkString, AtLeaf
    <3>2. output' \in Seq(Pieces)
      BY <2>9, <2>17, <2>b, <3>1, AppendProperties DEF WalkString
    <3>u. /\ pc' = pc /\ source' = source /\ pos' = pos /\ rope' = rope
          /\ references' = references /\ rawnotes' = rawnotes /\ endnotes' = endnotes /\ snapshot' = snapshot
          /\ doc' = doc /\ base' = base /\ docs' = docs
      BY <2>17 DEF WalkString, history, reader
    <3> QED BY <2>9, <2>17, <2>b, <3>1, <3>2, <3>u DEF WalkString
  <2>18. CASE Finish
    BY <2>18, <2>b, <2>f DEF Finish, history, reader
  <2>19. CASE UNCHANGED vars
    BY <2>19, <2>b DEF vars, history, reader
  <2> HIDE DEF Rest
  <2> QED
    BY <2>1, <2>2, <2>3, <2>4, <2>5, <2>6, <2>7, <2>8, <2>11, <2>12, <2>13,
       <2>14, <2>15, <2>16, <2>17, <2>18, <2>19 DEF Next, Parse, Walk
<1> QED BY <1>1, <1>2, PTL DEF Spec

-----------------------------------------------------------------------------
(* References to links.                                                    *)

(* Latest, with the definition a conversion began with as a parameter.     *)
LatestFrom(first, u, t, s, n) ==
  \/ \E i \in 1 .. n :
       /\ Defines(s[i], "link_def", t)
       /\ u = s[i].arg
       /\ \A j \in 1 .. n : j > i => ~Defines(s[j], "link_def", t) /\ ~Resets(s[j])
  \/ /\ u = first
     /\ \A i \in 1 .. n :
          Defines(s[i], "link_def", t) => \E j \in 1 .. n : j > i /\ Resets(s[j])

(* Before the first piece the table is as it was.                          *)
LEMMA LatestNone ==
  ASSUME NEW t, NEW s, NEW u
  PROVE  LatestFrom(u, u, t, s, 0)
BY DEF LatestFrom

(* A piece that neither defines the tag nor takes definitions away changes *)
(* nothing.                                                                *)
LEMMA LatestKept ==
  ASSUME NEW first, NEW u, NEW t, NEW s, NEW n \in Nat,
         LatestFrom(first, u, t, s, n), ~Defines(s[n + 1], "link_def", t), ~Resets(s[n + 1])
  PROVE  LatestFrom(first, u, t, s, n + 1)
<1>1. 1 .. n + 1 = (1 .. n) \cup {n + 1}
  OBVIOUS
<1> HIDE DEF Defines, Resets
<1>2. CASE \E i \in 1 .. n :
             /\ Defines(s[i], "link_def", t)
             /\ u = s[i].arg
             /\ \A j \in 1 .. n : j > i => ~Defines(s[j], "link_def", t) /\ ~Resets(s[j])
  <2>1. PICK i \in 1 .. n :
               /\ Defines(s[i], "link_def", t)
               /\ u = s[i].arg
               /\ \A j \in 1 .. n : j > i => ~Defines(s[j], "link_def", t) /\ ~Resets(s[j])
    BY <1>2
  <2>2. \A j \in 1 .. n + 1 : j > i => ~Defines(s[j], "link_def", t) /\ ~Resets(s[j])
    BY <1>1, <2>1
  <2>3. i \in 1 .. n + 1
    BY <1>1
  <2> QED BY <2>1, <2>2, <2>3 DEF LatestFrom
<1>3. CASE /\ u = first
           /\ \A i \in 1 .. n :
                Defines(s[i], "link_def", t) => \E j \in 1 .. n : j > i /\ Resets(s[j])
  BY <1>1, <1>3 DEF LatestFrom
<1> QED BY <1>2, <1>3 DEF LatestFrom

(* A piece that defines the tag is the latest definition.                  *)
LEMMA LatestDefined ==
  ASSUME NEW first, NEW t, NEW s, NEW n \in Nat, Defines(s[n + 1], "link_def", t)
  PROVE  LatestFrom(first, s[n + 1].arg, t, s, n + 1)
<1>1. n + 1 \in 1 .. n + 1 /\ \A j \in 1 .. n + 1 : ~(j > n + 1)
  OBVIOUS
<1> QED BY <1>1 DEF LatestFrom

(* After a piece that takes the definitions away the table is as it was.   *)
LEMMA LatestReset ==
  ASSUME NEW first, NEW t, NEW s, NEW n \in Nat, Resets(s[n + 1])
  PROVE  LatestFrom(first, first, t, s, n + 1)
<1>1. ~Defines(s[n + 1], "link_def", t)
  BY DEF Resets, Defines
<1>2. ASSUME NEW i \in 1 .. n + 1, Defines(s[i], "link_def", t)
      PROVE  n + 1 \in 1 .. n + 1 /\ n + 1 > i
  <2>1. i # n + 1
    BY <1>1, <1>2
  <2> QED BY <2>1
<1> QED BY <1>2 DEF LatestFrom

(* The hypotheses: the texts of notes define no links, and do not call m,  *)
(* or there is a table of the caller's, which survives the call.           *)
Without(kind, s) == \A i \in DOMAIN s : s[i].kind # kind
TextsLeaveLinks ==
  \A b \in Bodies :
    /\ Without("link_def", BodyOf[b])
    /\ userReferences = None => Without("lua_m", BodyOf[b])

(* While the blocks are parsed the table of references is the latest of    *)
(* what has been read, and from then on that of the whole document.        *)
Known(n) == \A t \in Tags : LatestFrom(base[t], references[t], t, doc, n)
LinkInv ==
  /\ pc = "blocks" => /\ source = doc /\ doc \in Documents
                      /\ pos <= Len(doc) + 1
                      /\ Known(pos - 1)
  /\ pc = "note" => \E b \in Bodies : source = BodyOf[b]
  /\ pc \in {"note", "walk"} => Known(Len(doc))
  /\ userReferences = None => base = Nothing

(* A piece of the document that leaves the table of references alone.      *)
LEMMA KnownKept ==
  ASSUME TypeOK, LinkInv, pc = "blocks", NEW kind, AtPiece(kind), kind # "link_def",
         kind = "lua_m" => userReferences # None
  PROVE  Known(pos) /\ pos <= Len(doc)
<1>1. source = doc /\ Known(pos - 1) /\ source[pos].kind = kind /\ pos \in DOMAIN source
  BY DEF LinkInv, AtPiece
<1>2. pos - 1 \in Nat /\ pos - 1 + 1 = pos /\ pos \in Nat
  BY DEF TypeOK
<1>3. ~Resets(doc[pos]) /\ \A t : ~Defines(doc[pos], "link_def", t)
  BY <1>1 DEF Defines, Resets
<1>4. Known(pos)
  <2> DEFINE n == pos - 1
  <2>1. n \in Nat /\ n + 1 = pos
    BY <1>2
  <2> HIDE DEF n
  <2>2. \A t \in Tags : LatestFrom(base[t], references[t], t, doc, n)
    BY <1>1 DEF Known, n
  <2>3. \A t \in Tags : LatestFrom(base[t], references[t], t, doc, n + 1)
    BY <1>3, <2>1, <2>2, LatestKept
  <2> QED BY <2>1, <2>3 DEF Known
<1>5. pos <= Len(doc)
  BY <1>1, LenProperties DEF TypeOK
<1> QED BY <1>4, <1>5

(* A note under these hypotheses is not at such a piece.                   *)
LEMMA NoDefinitionInNote ==
  ASSUME LinkInv, TextsLeaveLinks, pc = "note"
  PROVE  ~AtPiece("link_def") /\ (userReferences = None => ~AtPiece("lua_m"))
<1>1. PICK b \in Bodies : source = BodyOf[b]
  BY DEF LinkInv
<1> QED BY <1>1 DEF TextsLeaveLinks, Without, AtPiece

(* LinkInv is inductive under the hypotheses. *)
LEMMA LinkInvStep ==
  ASSUME TypeOK, LinkInv, [Next]_vars, TextsLeaveLinks
  PROVE  LinkInv'
<1> DEFINE Same == base' = base /\ references' = references /\ doc' = doc
<1>0. pos \in Nat \ {0} /\ doc \in Seq(SourcePieces) /\ Len(doc) \in Nat
  BY LenProperties DEF TypeOK
<1>s. \A n : Same /\ Known(n) => Known(n)'
  BY DEF Known
<1>1. ASSUME NEW d \in Documents, StartDocument(d) PROVE LinkInv'
  <2>1. /\ pc' = "blocks" /\ source' = d /\ doc' = d /\ pos' = 1
        /\ base' = references'
    BY <1>1 DEF StartDocument
  <2>2. \A t \in Tags : LatestFrom(base'[t], references'[t], t, doc', 0)
    BY <2>1, LatestNone
  <2>3. d \in Seq(SourcePieces) /\ Len(d) \in Nat
    BY ConversionAssumption, LenProperties
  <2>4. pos' - 1 = 0 /\ pos' <= Len(doc') + 1
    BY <2>1, <2>3
  <2>5. Known(pos - 1)'
    BY <2>2, <2>4 DEF Known
  <2>6. userReferences = None => base' = Nothing
    BY <2>1, <1>1 DEF StartDocument, FreshReferences
  <2> QED BY <2>1, <2>4, <2>5, <2>6 DEF LinkInv
<1>2. CASE RegisterLink
  <2>1. /\ AtPiece("link_def") /\ pos' = pos + 1 /\ pc' = pc
        /\ source' = source /\ base' = base /\ doc' = doc
        /\ references' = Define(normalize_tag[source[pos].label], source[pos].arg)
    BY <1>2 DEF RegisterLink, history
  <2>2. pc = "blocks"
    BY <2>1, NoDefinitionInNote DEF AtPiece
  <2>3. /\ source = doc /\ doc \in Documents /\ Known(pos - 1)
        /\ pos \in DOMAIN doc /\ doc[pos].kind = "link_def"
    BY <2>1, <2>2 DEF LinkInv, AtPiece
  <2>4. pos <= Len(doc)
    BY <2>3, <1>0, LenProperties
  <2> DEFINE n == pos - 1
  <2>5. n \in Nat /\ n + 1 = pos
    BY <1>0
  <2> HIDE DEF n
  <2>6. Known(n)
    BY <2>3 DEF n
  <2>7. ASSUME NEW t \in Tags PROVE LatestFrom(base[t], references'[t], t, doc, pos)
    <3>1. references \in [Tags -> Urls \cup {None}]
      BY DEF TypeOK
    <3>2. CASE normalize_tag[doc[pos].label] = t
      <4>1. references'[t] = doc[pos].arg
        BY <2>1, <2>3, <3>1, <3>2 DEF Define
      <4>2. Defines(doc[n + 1], "link_def", t)
        BY <2>3, <2>5, <3>2 DEF Defines
      <4> QED BY <2>5, <4>1, <4>2, LatestDefined
    <3>3. CASE normalize_tag[doc[pos].label] # t
      <4>1. references'[t] = references[t]
        BY <2>1, <2>3, <3>1, <3>3 DEF Define
      <4>2. ~Defines(doc[n + 1], "link_def", t)
        BY <2>5, <3>3 DEF Defines
      <4>3. LatestFrom(base[t], references[t], t, doc, n)
        BY <2>6 DEF Known
      <4>4. ~Resets(doc[n + 1])
        BY <2>3, <2>5 DEF Resets
      <4> QED BY <2>5, <4>1, <4>2, <4>3, <4>4, LatestKept
    <3> QED BY <3>2, <3>3
  <2>8. pos' - 1 = pos /\ pos' <= Len(doc') + 1
    BY <1>0, <2>1, <2>4
  <2>9. Known(pos - 1)'
    BY <2>1, <2>7, <2>8 DEF Known
  <2> QED BY <2>1, <2>2, <2>3, <2>8, <2>9 DEF LinkInv
<1>3. ASSUME NEW kind, kind # "link_def", kind = "lua_m" => userReferences # None,
             AtPiece(kind), Same, pos' = pos + 1, pc' = pc, source' = source
      PROVE  LinkInv'
  <2>1. CASE pc = "blocks"
    <3>1. Known(pos) /\ pos <= Len(doc)
      BY <1>3, <2>1, KnownKept
    <3>2. pos' - 1 = pos /\ pos' <= Len(doc') + 1
      BY <1>0, <1>3, <3>1
    <3>3. Known(pos - 1)'
      BY <1>3, <3>1, <3>2 DEF Known
    <3> QED BY <1>3, <2>1, <3>2, <3>3 DEF LinkInv
  <2>2. CASE pc = "note"
    <3>1. Known(Len(doc)) /\ \E b \in Bodies : source' = BodyOf[b]
      BY <1>3, <2>2 DEF LinkInv
    <3>2. Known(Len(doc))'
      BY <1>3, <3>1 DEF Known
    <3> QED BY <1>3, <2>2, <3>1, <3>2 DEF LinkInv
  <2> QED BY <1>3, <2>1, <2>2 DEF AtPiece
<1>4. CASE RegisterNote \/ InlineNote
  <2>1. AtPiece("note_def") \/ AtPiece("inline_note")
    BY <1>4 DEF RegisterNote, InlineNote
  <2>2. Same /\ pos' = pos + 1 /\ pc' = pc /\ source' = source
    BY <1>4 DEF RegisterNote, InlineNote, reader, history
  <2> QED BY <1>3, <2>1, <2>2
<1>5. CASE Defer
  <2>1. AtPiece("link") \/ AtPiece("note_ref")
    BY <1>5 DEF Defer
  <2>2. Same /\ pos' = pos + 1 /\ pc' = pc /\ source' = source
    BY <1>5 DEF Defer, reader, history
  <2> QED BY <1>3, <2>1, <2>2
<1>6. CASE LuaMetadata
  <2>1. /\ AtPiece("lua_m") /\ pos' = pos + 1 /\ pc' = pc /\ source' = source
        /\ base' = base /\ doc' = doc /\ references' = FreshReferences
    BY <1>6 DEF LuaMetadata, history
  <2>2. CASE userReferences # None
    BY <1>3, <2>1, <2>2 DEF FreshReferences
  <2>3. CASE userReferences = None
    <3>1. pc = "blocks"
      BY <2>1, <2>3, NoDefinitionInNote DEF AtPiece
    <3>2. source = doc /\ doc \in Documents /\ pos \in DOMAIN doc /\ doc[pos].kind = "lua_m"
      BY <2>1, <3>1 DEF LinkInv, AtPiece
    <3>3. references' = base
      BY <2>1, <2>3 DEF FreshReferences, LinkInv
    <3> DEFINE n == pos - 1
    <3>4. n \in Nat /\ n + 1 = pos
      BY <1>0
    <3> HIDE DEF n
    <3>5. Resets(doc[n + 1])
      BY <2>3, <3>2, <3>4 DEF Resets
    <3>6. \A t \in Tags : LatestFrom(base[t], base[t], t, doc, pos)
      BY <3>4, <3>5, LatestReset
    <3>7. pos' - 1 = pos /\ pos' <= Len(doc') + 1
      BY <1>0, <2>1, <3>2, LenProperties
    <3>8. Known(pos - 1)'
      BY <2>1, <3>3, <3>6, <3>7 DEF Known
    <3> QED BY <2>1, <3>1, <3>2, <3>7, <3>8 DEF LinkInv
  <2> QED BY <2>2, <2>3
<1>7. ASSUME Same, pc' = "walk", pc = "note" \/ pc = "walk" PROVE LinkInv'
  <2>1. Known(Len(doc))
    BY <1>7 DEF LinkInv
  <2>2. Known(Len(doc))'
    BY <1>7, <2>1 DEF Known
  <2> QED BY <1>7, <2>2 DEF LinkInv
<1>8. CASE ParseError
  <2>1. Same
    BY <1>8 DEF ParseError, reader, history
  <2>2. CASE pc = "note"
    BY <1>7, <1>8, <2>1, <2>2 DEF ParseError
  <2>3. CASE pc # "note"
    BY <1>8, <2>1, <2>3 DEF ParseError, LinkInv
  <2> QED BY <2>2, <2>3
<1>9. CASE EndBlocks
  <2>1. Same /\ pc = "blocks" /\ pc' = "walk" /\ pos \notin DOMAIN source
    BY <1>9 DEF EndBlocks, EndOfSource, reader, history
  <2>2. source = doc /\ pos <= Len(doc) + 1 /\ Known(pos - 1)
    BY <2>1 DEF LinkInv
  <2>3. pos - 1 = Len(doc)
    BY <1>0, <2>1, <2>2, LenProperties
  <2>4. Known(Len(doc))'
    BY <2>1, <2>2, <2>3 DEF Known
  <2> QED BY <2>1, <2>4 DEF LinkInv
<1>10. CASE ForceLink \/ ForceUndefinedNote \/ ForceStop \/ WalkEntry \/ WalkString
  <2>1. Same /\ pc' = pc /\ pc = "walk"
    BY <1>10 DEF ForceLink, ForceUndefinedNote, ForceStop, WalkEntry, WalkString,
                 AtLeaf, reader, history
  <2> QED BY <1>7, <2>1
<1>11. CASE ForceNote
  <2>1. Same /\ pc = "walk" /\ pc' = "note"
    BY <1>11 DEF ForceNote, AtLeaf, reader, history
  <2>2. Known(Len(doc))
    BY <2>1 DEF LinkInv
  <2>3. Known(Len(doc))'
    BY <2>1, <2>2 DEF Known
  <2>4. \E b \in Bodies : source' = BodyOf[b]
    <3> DEFINE label == Head(walking).label
               found == rawnotes[normalize_tag[label]]
    <3>1. walking # <<>> /\ Head(walking).kind = "note_ref"
      BY <1>11 DEF ForceNote, AtLeaf
    <3>2. normalize_tag[label] \in Tags
      BY <3>1, LabelAtHand, ConversionAssumption
    <3>3. found # None /\ source' = BodyOf[found]
      BY <1>11 DEF ForceNote
    <3>4. found \in Bodies
      BY <3>2, <3>3 DEF TypeOK
    <3> QED BY <3>3, <3>4
  <2> QED BY <2>1, <2>3, <2>4 DEF LinkInv
<1>12. CASE EndNote
  <2>1. Same /\ pc = "note" /\ pc' = "walk"
    BY <1>12 DEF EndNote, reader, history
  <2> QED BY <1>7, <2>1
<1>13. CASE Finish
  BY <1>13 DEF Finish, LinkInv, history
<1>14. CASE UNCHANGED vars
  BY <1>14 DEF vars, reader, history, LinkInv, Known
<1> QED
  BY <1>1, <1>2, <1>4, <1>5, <1>6, <1>8, <1>9, <1>10, <1>11, <1>12, <1>13, <1>14
     DEF Next, Parse, Walk

(* Links by reference lead to the last definition in the whole document,   *)
(* before or after the link and in the texts of its notes, whatever the    *)
(* writer, when no note defines links.  Of a call of m it says what is     *)
(* taken away, unless a note makes it.                                     *)
THEOREM LinksAreResolved ==
  ASSUME TextsLeaveLinks
  PROVE  Spec => LinksResolve
<1>1. Init => LinkInv
  BY DEF Init, LinkInv
<1>2. TypeOK /\ LinkInv /\ [Next]_vars => LinkInv'
  BY LinkInvStep
<1> DEFINE Resolves ==
      \E u \in Urls \cup {None} :
        /\ Latest(u, normalize_tag[Head(walking).label], doc, Len(doc))
        /\ output' = Append(output, Piece(IF u = None THEN "bracketed" ELSE "url",
                                          Head(walking).label, u))
<1>3. TypeOK /\ LinkInv /\ ForceLink => Resolves
  <2> SUFFICES ASSUME TypeOK, LinkInv, ForceLink PROVE Resolves
    OBVIOUS
  <2> DEFINE label == Head(walking).label
             t == normalize_tag[label]
             u == references[t]
  <2>1. walking # <<>> /\ Head(walking).kind = "link" /\ pc = "walk"
    BY DEF ForceLink, AtLeaf
  <2>4. t \in Tags /\ u \in Urls \cup {None}
    BY <2>1, LabelAtHand, ConversionAssumption DEF TypeOK
  <2>5. LatestFrom(base[t], u, t, doc, Len(doc))
    BY <2>1, <2>4 DEF LinkInv, Known
  <2>6. Latest(u, t, doc, Len(doc))
    BY <2>5 DEF LatestFrom, Latest
  <2>7. output' = Append(output, Piece(IF u = None THEN "bracketed" ELSE "url", label, u))
    BY DEF ForceLink
  <2> HIDE DEF label, u
  <2> QED BY <2>4, <2>6, <2>7 DEF label
<1>4. TypeOK /\ LinkInv /\ [Next]_vars => [ForceLink /\ NotesLeaveLinks(doc) => Resolves]_vars
  BY <1>3
<1> QED BY <1>1, <1>2, <1>4, TypeCorrect, PTL DEF Spec, LinksResolve

-----------------------------------------------------------------------------
(***************************************************************************)
(* The numbers of notes, for any writer and any documents: what the writer *)
(* hands out in the two passes never comes out twice.                      *)
(*                                                                         *)
(* A number is in one place at a time.  Its mark is made in the rope, or   *)
(* in front of the walk, and moves to the walk, to the contents of a note  *)
(* and to the output; the contents of a note are walked once.              *)
(***************************************************************************)
Once(s, kind) == \A n, o \in Kind(s, kind) : s[n].arg = s[o].arg => n = o
Marks(s) == Numbers(s, "mark")

-----------------------------------------------------------------------------
(* Numbers in sequences of pieces.                                         *)
LEMMA ConcatNumbers ==
  ASSUME NEW S, NEW s \in Seq(S), NEW t \in Seq(S), NEW kind
  PROVE  /\ Numbers(s \o t, kind) = Numbers(s, kind) \cup Numbers(t, kind)
         /\ Once(s \o t, kind) <=> /\ Once(s, kind) /\ Once(t, kind)
                                   /\ Numbers(s, kind) \cap Numbers(t, kind) = {}
<1>1. /\ Len(s) \in Nat /\ Len(t) \in Nat
      /\ DOMAIN s = 1 .. Len(s) /\ DOMAIN t = 1 .. Len(t)
      /\ DOMAIN (s \o t) = 1 .. Len(s) + Len(t)
      /\ \A n \in 1 .. Len(s) + Len(t) : (s \o t)[n] = IF n <= Len(s) THEN s[n] ELSE t[n - Len(s)]
  BY ConcatDomain, ConcatProperties
<1>2. \A n \in Kind(s \o t, kind) :
        \/ n \in Kind(s, kind) /\ (s \o t)[n] = s[n]
        \/ n - Len(s) \in Kind(t, kind) /\ (s \o t)[n] = t[n - Len(s)]
  BY <1>1 DEF Kind
<1>3. \A n \in Kind(s, kind) : n \in Kind(s \o t, kind) /\ (s \o t)[n] = s[n]
  BY <1>1 DEF Kind
<1>4. \A n \in Kind(t, kind) : n + Len(s) \in Kind(s \o t, kind) /\ (s \o t)[n + Len(s)] = t[n]
  <2> SUFFICES ASSUME NEW n \in Kind(t, kind)
               PROVE  n + Len(s) \in Kind(s \o t, kind) /\ (s \o t)[n + Len(s)] = t[n]
    OBVIOUS
  <2>1. n \in 1 .. Len(t) /\ t[n].kind = kind
    BY <1>1 DEF Kind
  <2>2. n + Len(s) \in 1 .. Len(s) + Len(t) /\ ~(n + Len(s) <= Len(s)) /\ (n + Len(s)) - Len(s) = n
    BY <1>1, <2>1
  <2>3. (s \o t)[n + Len(s)] = t[n]
    BY <1>1, <2>2
  <2> QED BY <1>1, <2>1, <2>2, <2>3 DEF Kind
<1>5. Numbers(s \o t, kind) = Numbers(s, kind) \cup Numbers(t, kind)
  <2>1. \A a \in Numbers(s \o t, kind) : a \in Numbers(s, kind) \cup Numbers(t, kind)
    BY <1>2 DEF Numbers
  <2>2. \A a \in Numbers(s, kind) : a \in Numbers(s \o t, kind)
    BY <1>3 DEF Numbers
  <2>3. \A a \in Numbers(t, kind) : a \in Numbers(s \o t, kind)
    BY <1>4 DEF Numbers
  <2> QED BY <2>1, <2>2, <2>3
<1>6. ASSUME Once(s \o t, kind)
      PROVE  Once(s, kind) /\ Once(t, kind) /\ Numbers(s, kind) \cap Numbers(t, kind) = {}
  <2>1. Once(s, kind)
    BY <1>3, <1>6 DEF Once
  <2>2. \A n \in Kind(t, kind) : n \in Nat /\ n > 0
    BY <1>1 DEF Kind
  <2>3. Once(t, kind)
    <3> SUFFICES ASSUME NEW n \in Kind(t, kind), NEW o \in Kind(t, kind), t[n].arg = t[o].arg
                 PROVE  n = o
      BY DEF Once
    <3>1. n + Len(s) = o + Len(s)
      BY <1>4, <1>6 DEF Once
    <3> QED BY <1>1, <2>2, <3>1
  <2>4. \A n \in Kind(s, kind), o \in Kind(t, kind) : s[n].arg # t[o].arg
    <3> SUFFICES ASSUME NEW n \in Kind(s, kind), NEW o \in Kind(t, kind), s[n].arg = t[o].arg
                 PROVE  FALSE
      OBVIOUS
    <3>1. n = o + Len(s)
      BY ZenonT(30), <1>3, <1>4, <1>6 DEF Once
    <3>2. n \in 1 .. Len(s)
      BY <1>1 DEF Kind
    <3> QED BY <1>1, <2>2, <3>1, <3>2
  <2> QED BY <2>1, <2>3, <2>4 DEF Numbers
<1>7. ASSUME Once(s, kind), Once(t, kind), Numbers(s, kind) \cap Numbers(t, kind) = {}
      PROVE  Once(s \o t, kind)
  <2> SUFFICES ASSUME NEW n \in Kind(s \o t, kind), NEW o \in Kind(s \o t, kind),
                      (s \o t)[n].arg = (s \o t)[o].arg
               PROVE  n = o
    BY DEF Once
  <2>1. n \in Nat /\ o \in Nat
    BY <1>1 DEF Kind
  <2>2. \A x \in Kind(s, kind), y \in Kind(t, kind) : s[x].arg # t[y].arg
    BY <1>7 DEF Numbers
  <2>3. CASE n \in Kind(s, kind) /\ (s \o t)[n] = s[n]
    BY ZenonT(30), <1>2, <1>7, <2>2, <2>3 DEF Once
  <2>4. CASE n - Len(s) \in Kind(t, kind) /\ (s \o t)[n] = t[n - Len(s)]
    <3>1. o - Len(s) \in Kind(t, kind) /\ (s \o t)[o] = t[o - Len(s)]
      BY <1>2, <2>2, <2>4
    <3>2. n - Len(s) = o - Len(s)
      BY <1>7, <2>4, <3>1 DEF Once
    <3> QED BY <1>1, <2>1, <3>2
  <2> QED BY <1>2, <2>3, <2>4
<1> QED BY <1>5, <1>6, <1>7

LEMMA OneNumber ==
  ASSUME NEW S, NEW p \in S, NEW kind
  PROVE  /\ <<p>> \in Seq(S)
         /\ Numbers(<<p>>, kind) = IF p.kind = kind THEN {p.arg} ELSE {}
         /\ Once(<<p>>, kind)
<1>1. <<p>> \in Seq(S) /\ DOMAIN <<p>> = {1} /\ <<p>>[1] = p
  OBVIOUS
<1>2. Kind(<<p>>, kind) = IF p.kind = kind THEN {1} ELSE {}
  BY <1>1 DEF Kind
<1> QED BY <1>1, <1>2 DEF Numbers, Once

LEMMA NoNumber ==
  ASSUME NEW kind
  PROVE  Kind(<<>>, kind) = {} /\ Numbers(<<>>, kind) = {} /\ Once(<<>>, kind)
BY DEF Kind, Numbers, Once

LEMMA AppendNumbers ==
  ASSUME NEW S, NEW s \in Seq(S), NEW p \in S, NEW kind
  PROVE  /\ Numbers(Append(s, p), kind) = IF p.kind = kind THEN Numbers(s, kind) \cup {p.arg}
                                          ELSE Numbers(s, kind)
         /\ Once(s, kind) /\ (p.kind = kind => p.arg \notin Numbers(s, kind)) => Once(Append(s, p), kind)
<1>1. Append(s, p) = s \o <<p>>
  BY AppendIsConcat
<1>2. /\ <<p>> \in Seq(S) /\ Once(<<p>>, kind)
      /\ Numbers(<<p>>, kind) = IF p.kind = kind THEN {p.arg} ELSE {}
  BY OneNumber
<1>3. /\ Numbers(s \o <<p>>, kind) = Numbers(s, kind) \cup Numbers(<<p>>, kind)
      /\ Once(s \o <<p>>, kind) <=> /\ Once(s, kind) /\ Once(<<p>>, kind)
                                    /\ Numbers(s, kind) \cap Numbers(<<p>>, kind) = {}
  BY <1>2, ConcatNumbers
<1> QED BY <1>1, <1>2, <1>3

LEMMA TailNumbers ==
  ASSUME NEW S, NEW s \in Seq(S), s # <<>>, NEW kind
  PROVE  /\ Tail(s) \in Seq(S) /\ Head(s) \in S
         /\ Numbers(s, kind) = IF Head(s).kind = kind THEN {Head(s).arg} \cup Numbers(Tail(s), kind)
                               ELSE Numbers(Tail(s), kind)
         /\ Once(s, kind) => /\ Once(Tail(s), kind)
                             /\ Head(s).kind = kind => Head(s).arg \notin Numbers(Tail(s), kind)
<1>1. /\ Len(s) \in Nat \ {0} /\ Head(s) = s[1] /\ Head(s) \in S /\ Tail(s) \in Seq(S)
  BY TailDomain
<1>2. s = <<s[1]>> \o Tail(s)
  <2>1. 1 \in 1 .. Len(s) /\ Len(s) \in 1 .. Len(s)
    BY <1>1
  <2>2. SubSeq(s, 1, Len(s)) = <<s[1]>> \o SubSeq(s, 1 + 1, Len(s))
    BY <2>1, SubSeqRecursiveFirst
  <2>3. SubSeq(s, 1, Len(s)) = s /\ Tail(s) = SubSeq(s, 2, Len(s))
    BY SubSeqFull, TailIsSubSeq
  <2> QED BY <2>2, <2>3
<1> DEFINE h == Head(s)
           t == Tail(s)
<1>3. h \in S /\ t \in Seq(S) /\ s = <<h>> \o t
  BY <1>1, <1>2
<1> HIDE DEF h, t
<1>4. /\ <<h>> \in Seq(S) /\ Once(<<h>>, kind)
      /\ Numbers(<<h>>, kind) = IF h.kind = kind THEN {h.arg} ELSE {}
  BY <1>3, OneNumber
<1>5. /\ Numbers(<<h>> \o t, kind) = Numbers(<<h>>, kind) \cup Numbers(t, kind)
      /\ Once(<<h>> \o t, kind) <=> /\ Once(<<h>>, kind) /\ Once(t, kind)
                                    /\ Numbers(<<h>>, kind) \cap Numbers(t, kind) = {}
  BY <1>3, <1>4, ConcatNumbers
<1>6. /\ Numbers(s, kind) = IF h.kind = kind THEN {h.arg} \cup Numbers(t, kind) ELSE Numbers(t, kind)
      /\ Once(s, kind) => Once(t, kind) /\ (h.kind = kind => h.arg \notin Numbers(t, kind))
  BY <1>3, <1>4, <1>5
<1> QED BY <1>1, <1>6 DEF h, t

-----------------------------------------------------------------------------
(* The invariant.                                                          *)

\* The notes at the end are still ahead: all of them, or those whose entry
\* is in the walk.  The contents of these are not yet walked.
Ahead == pc = "blocks" \/ Numbers(walking, "stop") # {}
Pending == {n \in DOMAIN endnotes : Ahead \/ n \in Numbers(walking, "entry")}

\* Each number has one mark, in the rope r, the walk w, the output o or the
\* contents e[n] of a note n \in P, and belongs to a note.
Numbering(r, w, o, P, e) ==
  /\ Once(r, "mark") /\ Once(w, "mark") /\ Once(o, "mark")
  /\ Marks(r) \cap Marks(w) = {} /\ Marks(r) \cap Marks(o) = {} /\ Marks(w) \cap Marks(o) = {}
  /\ Marks(r) \subseteq DOMAIN e /\ Marks(w) \subseteq DOMAIN e /\ Marks(o) \subseteq DOMAIN e
  /\ P \subseteq DOMAIN e
  /\ \A n \in P : /\ Once(e[n], "mark") /\ Marks(e[n]) \subseteq DOMAIN e
                  /\ Marks(e[n]) \cap (Marks(r) \cup Marks(w) \cup Marks(o)) = {}
                  /\ \A m \in P : m # n => Marks(e[m]) \cap Marks(e[n]) = {}

\* Each note is once in the walk, from the copy that the walk is made of.
Queued == /\ Once(walking, "entry")
          /\ Ahead => Numbers(walking, "entry") = {}
          /\ pc = "blocks" => walking = <<>>
          /\ \A n \in DOMAIN snapshot : n \in DOMAIN endnotes /\ snapshot[n] = endnotes[n]

Numbered == Numbering(rope, walking, output, Pending, endnotes) /\ Queued

-----------------------------------------------------------------------------
(* What the pieces of a rope can be.                                       *)
LEMMA LeavesNumbers ==
  ASSUME NEW s \in Seq(Leaves)
  PROVE  /\ s \in Seq(Pieces)
         /\ Numbers(s, "stop") = {} /\ Numbers(s, "entry") = {} /\ Once(s, "entry")
         /\ s \in Seq(Thunks) => Marks(s) = {} /\ Once(s, "mark")
<1>1. DOMAIN s = 1 .. Len(s)
  BY LenProperties
<1>2. \A n \in DOMAIN s : s[n].kind \in {"link", "note_ref", "mark", "open", "close"}
  BY <1>1, ElementOfSeq DEF Leaves, Thunks
<1>3. s \in Seq(Thunks) => \A n \in DOMAIN s : s[n].kind \in {"link", "note_ref"}
  BY <1>1, ElementOfSeq DEF Thunks
<1>4. Kind(s, "stop") = {} /\ Kind(s, "entry") = {} /\ (s \in Seq(Thunks) => Kind(s, "mark") = {})
  BY <1>2, <1>3 DEF Kind
<1>5. s \in Seq(Pieces)
  BY WrittenPieces, SeqMonotonic
<1> QED BY <1>4, <1>5 DEF Numbers, Once, Marks

LEMMA EntriesNumbers ==
  ASSUME endnotes \in Seq(Seq(Leaves))
  PROVE  /\ Entries \in Seq(Pieces)
         /\ Numbers(Entries, "stop") = {} /\ Marks(Entries) = {} /\ Once(Entries, "mark")
         /\ Numbers(Entries, "entry") = DOMAIN endnotes /\ Once(Entries, "entry")
<1>1. Entries \in Seq(Pieces)
  BY WalkEntries DEF Walks
<1>2. \A n \in DOMAIN endnotes : Entry(n).kind = "entry" /\ Entry(n).arg = n
  BY DEF Entry, Piece
<1>3. DOMAIN Entries = DOMAIN endnotes /\ \A n \in DOMAIN endnotes : Entries[n] = Entry(n)
  BY DEF Entries
<1>4. /\ Kind(Entries, "stop") = {} /\ Kind(Entries, "mark") = {}
      /\ Kind(Entries, "entry") = DOMAIN endnotes
      /\ \A n \in DOMAIN endnotes : Entries[n].arg = n
  BY <1>2, <1>3 DEF Kind
<1> QED BY <1>1, <1>4 DEF Numbers, Once, Marks

(* What writer.note makes of contents.                                     *)
LEMMA NoteNumbers ==
  ASSUME NEW contents \in Seq(Leaves), endnotes \in Seq(Seq(Leaves))
  PROVE  /\ Len(endnotes) \in Nat /\ DOMAIN endnotes = 1 .. Len(endnotes)
         /\ NoteRope(contents) \in Seq(Leaves)
         /\ Endnotes => /\ Marks(NoteRope(contents)) = {Len(endnotes) + 1}
                        /\ Once(NoteRope(contents), "mark")
                        /\ Len(NoteEndnotes(contents)) = Len(endnotes) + 1
                        /\ DOMAIN NoteEndnotes(contents) = 1 .. Len(endnotes) + 1
                        /\ \A n \in DOMAIN endnotes : NoteEndnotes(contents)[n] = endnotes[n]
                        /\ NoteEndnotes(contents)[Len(endnotes) + 1] = contents
         /\ ~Endnotes => /\ Marks(NoteRope(contents)) = Marks(contents)
                         /\ (Once(NoteRope(contents), "mark") <=> Once(contents, "mark"))
                         /\ NoteEndnotes(contents) = endnotes
<1>1. Len(endnotes) \in Nat /\ DOMAIN endnotes = 1 .. Len(endnotes) /\ NoteRope(contents) \in Seq(Leaves)
  BY NoteTypes, LenProperties
<1>2. ASSUME Endnotes
      PROVE  /\ Marks(NoteRope(contents)) = {Len(endnotes) + 1} /\ Once(NoteRope(contents), "mark")
             /\ Len(NoteEndnotes(contents)) = Len(endnotes) + 1
             /\ DOMAIN NoteEndnotes(contents) = 1 .. Len(endnotes) + 1
             /\ \A n \in DOMAIN endnotes : NoteEndnotes(contents)[n] = endnotes[n]
             /\ NoteEndnotes(contents)[Len(endnotes) + 1] = contents
  <2>1. NoteEndnotes(contents) = Append(endnotes, contents) /\ NoteRope(contents) = <<Mark(Len(endnotes) + 1)>>
    BY <1>2 DEF NoteEndnotes, NoteRope
  <2>2. Mark(Len(endnotes) + 1) \in Leaves
    BY <1>1, WrittenPieces
  <2>3. Mark(Len(endnotes) + 1).kind = "mark" /\ Mark(Len(endnotes) + 1).arg = Len(endnotes) + 1
    BY DEF Mark, Piece
  <2>4. PICK p \in Leaves : p = Mark(Len(endnotes) + 1)
    BY <2>2
  <2>5. Numbers(<<p>>, "mark") = {Len(endnotes) + 1} /\ Once(<<p>>, "mark")
    BY <2>3, <2>4, OneNumber
  <2>6. /\ Len(Append(endnotes, contents)) = Len(endnotes) + 1
        /\ DOMAIN Append(endnotes, contents) = 1 .. Len(endnotes) + 1
        /\ \A n \in DOMAIN endnotes : Append(endnotes, contents)[n] = endnotes[n]
        /\ Append(endnotes, contents)[Len(endnotes) + 1] = contents
    BY AppendDomain
  <2> QED BY <2>1, <2>4, <2>5, <2>6 DEF Marks
<1>3. ASSUME ~Endnotes
      PROVE  /\ Marks(NoteRope(contents)) = Marks(contents)
             /\ (Once(NoteRope(contents), "mark") <=> Once(contents, "mark"))
             /\ NoteEndnotes(contents) = endnotes
  <2>1. NoteRope(contents) = <<Open>> \o contents \o <<Close>> /\ NoteEndnotes(contents) = endnotes
    BY <1>3 DEF NoteEndnotes, NoteRope
  <2>2. Open.kind # "mark" /\ Close.kind # "mark"
    BY DEF Open, Close, Piece
  <2>3. Open \in Leaves /\ Close \in Leaves
    BY WrittenPieces
  <2>4. /\ <<Open>> \in Seq(Leaves) /\ Numbers(<<Open>>, "mark") = {} /\ Once(<<Open>>, "mark")
        /\ <<Close>> \in Seq(Leaves) /\ Numbers(<<Close>>, "mark") = {} /\ Once(<<Close>>, "mark")
    <3> HIDE DEF Open, Close
    <3> QED BY <2>2, <2>3, OneNumber
  <2> DEFINE a == <<Open>>
             b == <<Close>>
  <2> HIDE DEF a, b
  <2>a. /\ a \in Seq(Leaves) /\ Numbers(a, "mark") = {} /\ Once(a, "mark")
        /\ b \in Seq(Leaves) /\ Numbers(b, "mark") = {} /\ Once(b, "mark")
    BY <2>4 DEF a, b
  <2>b. \A T : {} \cup T = T /\ T \cup {} = T /\ {} \cap T = {} /\ T \cap {} = {}
    OBVIOUS
  <2>5. a \o contents \in Seq(Leaves)
    BY <2>a, ConcatProperties
  <2>6. /\ Numbers(a \o contents, "mark") = Numbers(a, "mark") \cup Numbers(contents, "mark")
        /\ Once(a \o contents, "mark") <=> /\ Once(a, "mark") /\ Once(contents, "mark")
                                           /\ Numbers(a, "mark") \cap Numbers(contents, "mark") = {}
    BY <2>a, ConcatNumbers
  <2>7. /\ Numbers(a \o contents, "mark") = Numbers(contents, "mark")
        /\ Once(a \o contents, "mark") <=> Once(contents, "mark")
    BY <2>a, <2>b, <2>6
  <2>8. /\ Numbers(a \o contents \o b, "mark") = Numbers(a \o contents, "mark") \cup Numbers(b, "mark")
        /\ Once(a \o contents \o b, "mark") <=>
             /\ Once(a \o contents, "mark") /\ Once(b, "mark")
             /\ Numbers(a \o contents, "mark") \cap Numbers(b, "mark") = {}
    BY <2>a, <2>5, ConcatNumbers
  <2>9. /\ Numbers(a \o contents \o b, "mark") = Numbers(contents, "mark")
        /\ Once(a \o contents \o b, "mark") <=> Once(contents, "mark")
    BY <2>a, <2>b, <2>7, <2>8
  <2> QED BY <2>1, <2>9 DEF Marks, a, b
<1> QED BY <1>1, <1>2, <1>3

-----------------------------------------------------------------------------
(* How numbers move.                                                       *)
LEMMA Fewer ==
  ASSUME NEW r, NEW w, NEW o, NEW P, NEW e, Numbering(r, w, o, P, e),
         NEW r1, NEW w1, NEW P1 \in SUBSET P,
         Once(r1, "mark"), Marks(r1) \subseteq Marks(r), Once(w1, "mark"), Marks(w1) \subseteq Marks(w)
  PROVE  Numbering(r1, w1, o, P1, e)
<1> HIDE DEF Once, Marks
<1> QED BY DEF Numbering

\* From the walk to the output.
LEMMA Outward ==
  ASSUME NEW r, NEW w, NEW o, NEW P, NEW e, Numbering(r, w, o, P, e),
         NEW w1, NEW o1, NEW x, x \in Marks(w), x \notin Marks(w1),
         Once(w1, "mark"), Marks(w1) \subseteq Marks(w), Once(o1, "mark"), Marks(o1) = Marks(o) \cup {x}
  PROVE  Numbering(r, w1, o1, P, e)
<1> HIDE DEF Once, Marks
<1> QED BY DEF Numbering

\* From the rope into the walk.
LEMMA Inward ==
  ASSUME NEW r, NEW w, NEW o, NEW P, NEW e, Numbering(r, w, o, P, e),
         NEW w1, NEW P1 \in SUBSET P,
         Once(w1, "mark"), Marks(w1) = Marks(r) \cup Marks(w)
  PROVE  Numbering(<<>>, w1, o, P1, e)
<1>1. Marks(<<>>) = {} /\ Once(<<>>, "mark")
  BY NoNumber DEF Marks
<1> HIDE DEF Once, Marks
<1> QED BY <1>1 DEF Numbering

\* From the contents of the note n into the walk.
LEMMA Unfolded ==
  ASSUME NEW r, NEW w, NEW o, NEW P, NEW e, Numbering(r, w, o, P, e),
         NEW w1, NEW n \in P, NEW P1 \in SUBSET (P \ {n}),
         Once(w1, "mark"), Marks(w1) = Marks(e[n]) \cup Marks(w)
  PROVE  Numbering(r, w1, o, P1, e)
<1> HIDE DEF Once, Marks
<1> QED BY DEF Numbering

\* A new note: its number goes to the rope or the walk, the numbers in its
\* contents are those of the rope, or none.
LEMMA OneNoteMore ==
  ASSUME NEW r, NEW w, NEW o, NEW P, NEW e, Numbering(r, w, o, P, e),
         NEW l \in Nat, DOMAIN e = 1 .. l,
         NEW e1, DOMAIN e1 = 1 .. l + 1, \A n \in DOMAIN e : e1[n] = e[n],
         NEW r1, NEW w1, NEW P1 \in SUBSET (P \cup {l + 1}),
         Once(e1[l + 1], "mark"), Once(r1, "mark"), Once(w1, "mark"),
         \/ /\ Marks(e1[l + 1]) = {}
            /\ Marks(r1) = Marks(r) \cup {l + 1} /\ Marks(w1) = Marks(w)
         \/ /\ Marks(e1[l + 1]) = Marks(r)
            /\ Marks(r1) = {} /\ Marks(w1) = Marks(w) \cup {l + 1}
  PROVE  Numbering(r1, w1, o, P1, e1)
<1>1. l + 1 \notin DOMAIN e /\ DOMAIN e \subseteq DOMAIN e1 /\ l + 1 \in DOMAIN e1
  OBVIOUS
<1>2. PICK x : x = l + 1
  OBVIOUS
<1> HIDE DEF Once, Marks
<1>3. \A n \in P : n \in DOMAIN e /\ n # x /\ e1[n] = e[n]
  BY <1>1, <1>2 DEF Numbering
<1>4. /\ Marks(r1) \cap Marks(w1) = {} /\ Marks(r1) \cap Marks(o) = {} /\ Marks(w1) \cap Marks(o) = {}
      /\ Marks(r1) \subseteq DOMAIN e1 /\ Marks(w1) \subseteq DOMAIN e1 /\ Marks(o) \subseteq DOMAIN e1
      /\ Once(o, "mark")
  BY <1>1, <1>2 DEF Numbering
<1>5. P1 \subseteq DOMAIN e1
  BY <1>1, <1>2, <1>3
<1>6. ASSUME NEW n \in P1
      PROVE  /\ Once(e1[n], "mark") /\ Marks(e1[n]) \subseteq DOMAIN e1
             /\ Marks(e1[n]) \cap (Marks(r1) \cup Marks(w1) \cup Marks(o)) = {}
  <2>1. CASE n = x
    BY <1>1, <1>2, <2>1 DEF Numbering
  <2>2. CASE n # x
    <3>1. n \in P /\ e1[n] = e[n]
      BY <1>2, <1>3, <2>2
    <3>2. /\ Once(e[n], "mark") /\ Marks(e[n]) \subseteq DOMAIN e
          /\ Marks(e[n]) \cap (Marks(r) \cup Marks(w) \cup Marks(o)) = {}
      BY <3>1 DEF Numbering
    <3> QED BY <1>1, <1>2, <3>1, <3>2
  <2> QED BY <2>1, <2>2
<1>7. ASSUME NEW n \in P1, NEW m \in P1, m # n
      PROVE  Marks(e1[m]) \cap Marks(e1[n]) = {}
  <2>1. CASE n # x /\ m # x
    <3>1. n \in P /\ m \in P /\ e1[n] = e[n] /\ e1[m] = e[m]
      BY <1>2, <1>3, <2>1
    <3> QED BY <1>7, <3>1 DEF Numbering
  <2>2. ASSUME NEW k \in P PROVE Marks(e1[x]) \cap Marks(e1[k]) = {}
    <3>1. e1[k] = e[k] /\ Marks(e[k]) \cap Marks(r) = {}
      BY <1>3 DEF Numbering
    <3> QED BY <1>2, <3>1
  <2>3. CASE n = x
    <3>1. m \in P
      BY <1>2, <1>7, <2>3
    <3> QED BY <2>2, <2>3, <3>1
  <2>4. CASE m = x
    <3>1. n \in P
      BY <1>2, <1>7, <2>4
    <3> QED BY <2>2, <2>4, <3>1
  <2> QED BY <2>1, <2>3, <2>4
<1> QED BY <1>4, <1>5, <1>6, <1>7 DEF Numbering

-----------------------------------------------------------------------------
(* What is parsed, and what a writer without endnotes keeps.  In the text  *)
(* of the document no note is numbered before the first inline note.       *)
FirstNote(p, s, notes) == notes # <<>> => \E i \in 1 .. p - 1 : s[i].kind = "inline_note"
Sources == /\ pc = "blocks" => source \in Documents
           /\ pc = "note" => \E b \in Bodies : source = BodyOf[b]
           /\ ~Endnotes => endnotes = <<>>
           /\ pc = "blocks" => FirstNote(pos, source, endnotes)

LEMMA SourcesInvariance == Spec => []Sources
<1>1. Init => Sources
  BY DEF Init, Sources
<1>2. TypeOK /\ Sources /\ [Next]_vars => Sources'
  <2> SUFFICES ASSUME TypeOK, Sources, [Next]_vars PROVE Sources'
    OBVIOUS
  <2>0. Endnotes' = Endnotes
    BY DEF Endnotes
  <2>1. ASSUME NEW d \in Documents, StartDocument(d) PROVE Sources'
    BY <2>1 DEF StartDocument, Sources, FirstNote
  <2>2. ASSUME UNCHANGED source, pc' \in {pc, "walk", "idle"}, endnotes' = endnotes \/ endnotes' = <<>>,
               pc' = "blocks" => pos' \in {pos, pos + 1}
        PROVE  Sources'
    <3>1. ASSUME pc' = "blocks" PROVE FirstNote(pos', source', endnotes')
      <4>1. pc = "blocks" /\ FirstNote(pos, source, endnotes)
        BY <2>2, <3>1 DEF Sources
      <4>2. 1 .. pos - 1 \subseteq 1 .. pos' - 1
        BY <2>2, <3>1 DEF TypeOK
      <4> QED BY <2>2, <4>1, <4>2 DEF FirstNote
    <3> QED BY <2>0, <2>2, <3>1 DEF Sources
  <2>3. CASE ForceNote
    <3>1. walking # <<>> /\ Head(walking).kind = "note_ref" /\ pc' = "note" /\ UNCHANGED endnotes
      BY <2>3 DEF ForceNote, AtLeaf
    <3>2. rawnotes[normalize_tag[Head(walking).label]] \in Bodies
      <4>1. Head(walking).label \in Labels
        BY <3>1, LabelAtHand
      <4> QED BY <2>3, <4>1, ConversionAssumption DEF ForceNote, TypeOK
    <3> QED BY <2>0, <2>3, <3>1, <3>2 DEF ForceNote, Sources
  <2>4. CASE InlineNote \/ EndNote
    <3>1. UNCHANGED source /\ pc' \in {pc, "walk"} /\ \E c : endnotes' = NoteEndnotes(c)
      BY <2>4 DEF InlineNote, EndNote
    <3>2. ~Endnotes => endnotes' = endnotes
      BY <3>1 DEF NoteEndnotes
    <3>3. ASSUME pc' = "blocks" PROVE FirstNote(pos', source', endnotes')
      <4>1. AtPiece("inline_note") /\ pos' = pos + 1
        BY <2>4, <3>3 DEF InlineNote, EndNote
      <4>2. pos \in 1 .. pos' - 1 /\ source'[pos].kind = "inline_note"
        BY <3>1, <4>1 DEF AtPiece, TypeOK
      <4> QED BY <4>2 DEF FirstNote
    <3> QED BY <2>0, <3>1, <3>2, <3>3 DEF Sources
  <2>5. CASE RegisterLink \/ RegisterNote \/ Defer \/ LuaMetadata \/ ParseError
    BY <2>2, <2>5 DEF RegisterLink, RegisterNote, Defer, LuaMetadata, ParseError
  <2>6. CASE EndBlocks \/ Finish \/ UNCHANGED vars
    BY <2>2, <2>6 DEF EndBlocks, Finish, vars
  <2>7. CASE ForceLink \/ ForceUndefinedNote \/ ForceStop \/ WalkEntry \/ WalkString
    BY <2>2, <2>7 DEF ForceLink, ForceUndefinedNote, ForceStop, WalkEntry, WalkString
  <2> QED BY <2>1, <2>3, <2>4, <2>5, <2>6, <2>7 DEF Next, Parse, Walk
<1> QED BY <1>1, <1>2, TypeCorrect, PTL DEF Spec

(* A hypothesis: notes do not call m, and documents only before their      *)
(* first inline note.  Such a call has no note to take away.               *)
CallsComeFirst ==
  /\ \A b \in Bodies : Without("lua_m", BodyOf[b])
  /\ \A d \in Documents : \A i \in Kind(d, "lua_m") : \A k \in 1 .. i - 1 : d[k].kind # "inline_note"

LEMMA CallsKeepNotes ==
  ASSUME Sources, CallsComeFirst \/ ~Endnotes, LuaMetadata
  PROVE  UNCHANGED endnotes
<1>1. AtPiece("lua_m") /\ endnotes' = <<>>
  BY DEF LuaMetadata
<1>2. CASE CallsComeFirst
  <2>1. pc # "note"
    <3> SUFFICES ASSUME pc = "note" PROVE FALSE
      OBVIOUS
    <3>1. PICK b \in Bodies : source = BodyOf[b]
      BY DEF Sources
    <3> QED BY <1>1, <1>2, <3>1 DEF CallsComeFirst, Without, AtPiece
  <2>2. source \in Documents /\ pos \in Kind(source, "lua_m") /\ FirstNote(pos, source, endnotes)
    BY <1>1, <2>1 DEF Sources, AtPiece, Kind
  <2>3. \A k \in 1 .. pos - 1 : source[k].kind # "inline_note"
    BY <1>2, <2>2 DEF CallsComeFirst
  <2> QED BY <1>1, <2>2, <2>3 DEF FirstNote
<1>3. CASE ~Endnotes
  BY <1>1, <1>3 DEF Sources
<1> QED BY <1>2, <1>3

-----------------------------------------------------------------------------
(* The invariant holds.                                                    *)

\* Steps that do not touch the walk, the notes and the output.
LEMMA AsideNumbered ==
  ASSUME Numbered, UNCHANGED <<walking, endnotes, snapshot, output>>, pc' = "blocks" => pc = "blocks",
         Once(rope', "mark"), Marks(rope') \subseteq Marks(rope)
  PROVE  Numbered'
<1>1. Ahead' => Ahead
  BY DEF Ahead
<1>2. Pending' \in SUBSET Pending
  BY <1>1 DEF Pending
<1>3. Once(walking, "mark")
  BY DEF Numbered, Numbering
<1>4. Numbering(rope', walking, output, Pending', endnotes)
  <2> HIDE DEF Once, Marks, Pending
  <2> QED BY <1>2, <1>3, Fewer DEF Numbered
<1>5. Numbering(rope, walking, output, Pending, endnotes)'
  BY <1>4
<1>6. Queued'
  BY <1>1 DEF Numbered, Queued, Once, Kind
<1> QED BY <1>5, <1>6 DEF Numbered

\* Steps that take a leaf of the walk away.
LEMMA TailNumbered ==
  ASSUME TypeOK, Numbered, pc = "walk", pc' # "blocks", walking # <<>>, walking' = Tail(walking),
         UNCHANGED <<endnotes, snapshot>>, Once(rope', "mark"), Marks(rope') \subseteq Marks(rope),
         \/ output' = output
         \/ \E p \in Pieces : /\ output' = Append(output, p)
                              /\ p.kind = "mark" => p = Head(walking) /\ rope' = rope
  PROVE  Numbered'
<1>1. walking \in Seq(Pieces) /\ output \in Seq(Pieces)
  BY DEF TypeOK
<1>2. \A k : /\ Numbers(walking', k) \subseteq Numbers(walking, k)
             /\ Once(walking, k) => Once(walking', k)
  <2> SUFFICES ASSUME NEW k PROVE /\ Numbers(walking', k) \subseteq Numbers(walking, k)
                                  /\ Once(walking, k) => Once(walking', k)
    OBVIOUS
  <2>1. /\ Numbers(walking, k) = IF Head(walking).kind = k THEN {Head(walking).arg} \cup Numbers(Tail(walking), k)
                                 ELSE Numbers(Tail(walking), k)
        /\ Once(walking, k) => Once(Tail(walking), k)
    BY <1>1, TailNumbers
  <2> QED BY <2>1
<1>3. Ahead' => Ahead
  BY <1>2 DEF Ahead
<1>4. Pending' \in SUBSET Pending
  BY <1>2, <1>3 DEF Pending
<1>5. Queued'
  <2>1. Once(walking', "entry") /\ Numbers(walking', "entry") \subseteq Numbers(walking, "entry")
    BY <1>2 DEF Numbered, Queued
  <2>2. Once(walking, "entry")'
    BY <2>1
  <2>3. (Ahead => Numbers(walking, "entry") = {})'
    BY <1>3, <2>1 DEF Numbered, Queued
  <2> QED BY <2>2, <2>3 DEF Numbered, Queued
<1>6. Once(walking, "mark") /\ Once(output, "mark")
  BY DEF Numbered, Numbering
<1>7. Once(walking', "mark") /\ Marks(walking') \subseteq Marks(walking)
  BY <1>2, <1>6 DEF Marks
<1>8. Numbering(rope', walking', output, Pending', endnotes)
  <2> HIDE DEF Once, Marks, Pending
  <2> QED BY <1>4, <1>7, Fewer DEF Numbered
<1>9. CASE output' = output
  <2>1. Numbering(rope, walking, output, Pending, endnotes)'
    BY <1>8, <1>9
  <2> QED BY <1>5, <2>1 DEF Numbered
<1>10. ASSUME NEW p \in Pieces, output' = Append(output, p), p.kind # "mark"
       PROVE  Numbered'
  <2>1. Marks(output') = Marks(output) /\ Once(output', "mark")
    BY <1>1, <1>6, <1>10, AppendNumbers DEF Marks
  <2>2. Numbering(rope', walking', output', Pending', endnotes')
    <3> HIDE DEF Once, Marks, Pending
    <3> QED BY <1>8, <2>1 DEF Numbering
  <2> QED BY <1>5, <2>2 DEF Numbered
<1>11. ASSUME NEW p \in Pieces, output' = Append(output, p), p.kind = "mark", p = Head(walking), rope' = rope
       PROVE  Numbered'
  <2> DEFINE x == p.arg
  <2>1. x \in Marks(walking) /\ x \notin Marks(walking')
    BY <1>1, <1>6, <1>11, TailNumbers DEF Marks
  <2>2. Marks(output') = Marks(output) \cup {x} /\ (x \notin Marks(output) => Once(output', "mark"))
    BY <1>1, <1>6, <1>11, AppendNumbers DEF Marks
  <2> HIDE DEF x
  <2>3. x \notin Marks(output)
    <3> HIDE DEF Once, Marks, Pending
    <3> QED BY <2>1 DEF Numbered, Numbering
  <2>4. Numbering(rope, walking, output, Pending', endnotes)
    <3>1. Once(rope, "mark") /\ Once(walking, "mark")
      BY DEF Numbered, Numbering
    <3> HIDE DEF Once, Marks, Pending
    <3> QED BY <1>4, <3>1, Fewer DEF Numbered
  <2>5. Numbering(rope, walking', output', Pending', endnotes)
    <3> HIDE DEF Once, Marks, Pending
    <3> QED BY <1>7, <2>1, <2>2, <2>3, <2>4, Outward
  <2>6. Numbering(rope, walking, output, Pending, endnotes)'
    BY <1>11, <2>5
  <2> QED BY <1>5, <2>6 DEF Numbered
<1> QED BY <1>9, <1>10, <1>11

LEMMA InlineNumbered ==
  ASSUME TypeOK, Sources, Numbered, InlineNote
  PROVE  Numbered'
<1> DEFINE c == BodyOf[source[pos].arg]
           l == Len(endnotes)
<1>1. /\ rope \in Seq(Leaves) /\ endnotes \in Seq(Seq(Leaves))
      /\ UNCHANGED <<pc, walking, snapshot, output>>
      /\ endnotes' = NoteEndnotes(c) /\ rope' = rope \o NoteRope(c)
  BY DEF TypeOK, InlineNote
<1>2. c \in Seq(Leaves) /\ Marks(c) = {} /\ Once(c, "mark")
  <2>1. source[pos].arg \in InlineBodies
    BY PieceAtHand DEF InlineNote, SourcePieces
  <2>2. c \in Seq(Thunks) /\ c \in Seq(Leaves)
    BY <2>1, Texts, ConversionAssumption
  <2> HIDE DEF c
  <2> QED BY <2>2, LeavesNumbers
<1> HIDE DEF c
<1>3. /\ l \in Nat /\ DOMAIN endnotes = 1 .. l
      /\ NoteRope(c) \in Seq(Leaves)
      /\ Endnotes => /\ Marks(NoteRope(c)) = {l + 1} /\ Once(NoteRope(c), "mark")
                     /\ DOMAIN endnotes' = 1 .. l + 1 /\ endnotes'[l + 1] = c
                     /\ \A n \in DOMAIN endnotes : endnotes'[n] = endnotes[n]
      /\ ~Endnotes => Marks(NoteRope(c)) = {} /\ Once(NoteRope(c), "mark") /\ endnotes' = endnotes
  BY <1>1, <1>2, NoteNumbers
<1>4. /\ Marks(rope') = Marks(rope) \cup Marks(NoteRope(c))
      /\ Once(rope', "mark") <=> /\ Once(rope, "mark") /\ Once(NoteRope(c), "mark")
                                 /\ Marks(rope) \cap Marks(NoteRope(c)) = {}
  BY <1>1, <1>3, ConcatNumbers DEF Marks
<1>5. Once(rope, "mark") /\ Once(walking, "mark") /\ Marks(rope) \subseteq DOMAIN endnotes
  BY DEF Numbered, Numbering
<1>6. CASE ~Endnotes
  <2>1. Marks(rope') = Marks(rope) /\ Once(rope', "mark")
    <3> HIDE DEF Once, Marks
    <3> QED BY <1>3, <1>4, <1>5, <1>6
  <2> QED BY <1>1, <1>3, <1>6, <2>1, AsideNumbered
<1>7. CASE Endnotes
  <2>1. l + 1 \notin DOMAIN endnotes
    BY <1>3
  <2>2. Once(rope', "mark") /\ Marks(rope') = Marks(rope) \cup {l + 1}
    <3> HIDE DEF Once, Marks, l
    <3> QED BY <1>3, <1>4, <1>5, <1>7, <2>1
  <2>3. Ahead' <=> Ahead
    BY <1>1 DEF Ahead
  <2>4. Pending' \in SUBSET (Pending \cup {l + 1})
    <3>1. \A n \in DOMAIN endnotes' : n \in DOMAIN endnotes \/ n = l + 1
      BY <1>3, <1>7
    <3> QED BY <1>1, <2>3, <3>1 DEF Pending
  <2>5. Numbering(rope', walking, output, Pending', endnotes')
    <3> HIDE DEF Once, Marks, Pending, l
    <3> QED BY <1>2, <1>3, <1>5, <1>7, <2>2, <2>4, OneNoteMore DEF Numbered
  <2>6. Numbering(rope, walking, output, Pending, endnotes)'
    BY <1>1, <2>5
  <2>7. \A n \in DOMAIN snapshot : n \in DOMAIN endnotes' /\ snapshot[n] = endnotes'[n]
    BY <1>3, <1>7 DEF Numbered, Queued
  <2>8. Queued'
    BY <1>1, <2>3, <2>7 DEF Numbered, Queued, Once, Kind
  <2> QED BY <2>6, <2>8 DEF Numbered
<1> QED BY <1>6, <1>7

LEMMA EndNoteNumbered ==
  ASSUME TypeOK, Sources, Numbered, EndNote
  PROVE  Numbered'
<1> DEFINE l == Len(endnotes)
<1>1. /\ rope \in Seq(Leaves) /\ endnotes \in Seq(Seq(Leaves)) /\ walking \in Seq(Pieces)
      /\ pc = "note" /\ pc' = "walk" /\ UNCHANGED <<snapshot, output>>
      /\ endnotes' = NoteEndnotes(rope) /\ walking' = NoteRope(rope) \o walking /\ rope' = <<>>
  BY DEF TypeOK, EndNote
<1>2. /\ l \in Nat /\ DOMAIN endnotes = 1 .. l
      /\ NoteRope(rope) \in Seq(Leaves)
      /\ Endnotes => /\ Marks(NoteRope(rope)) = {l + 1} /\ Once(NoteRope(rope), "mark")
                     /\ DOMAIN endnotes' = 1 .. l + 1 /\ endnotes'[l + 1] = rope
                     /\ \A n \in DOMAIN endnotes : endnotes'[n] = endnotes[n]
      /\ ~Endnotes => /\ Marks(NoteRope(rope)) = Marks(rope)
                      /\ Once(NoteRope(rope), "mark") <=> Once(rope, "mark")
                      /\ endnotes' = endnotes
  BY <1>1, NoteNumbers
<1>3. /\ NoteRope(rope) \in Seq(Pieces)
      /\ Numbers(NoteRope(rope), "stop") = {} /\ Numbers(NoteRope(rope), "entry") = {}
      /\ Once(NoteRope(rope), "entry")
  BY <1>2, LeavesNumbers
<1>4. \A k : /\ Numbers(walking', k) = Numbers(NoteRope(rope), k) \cup Numbers(walking, k)
             /\ Once(walking', k) <=> /\ Once(NoteRope(rope), k) /\ Once(walking, k)
                                      /\ Numbers(NoteRope(rope), k) \cap Numbers(walking, k) = {}
  BY <1>1, <1>3, ConcatNumbers
<1>5. /\ Numbers(walking', "stop") = Numbers(walking, "stop")
      /\ Numbers(walking', "entry") = Numbers(walking, "entry")
      /\ Once(walking', "entry") <=> Once(walking, "entry")
  BY <1>3, <1>4
<1>6. Ahead' <=> Ahead
  BY <1>1, <1>5 DEF Ahead
<1>7. /\ Once(rope, "mark") /\ Once(walking, "mark") /\ Marks(walking) \subseteq DOMAIN endnotes
      /\ Marks(rope) \cap Marks(walking) = {}
  BY DEF Numbered, Numbering
<1>8. Once(<<>>, "mark") /\ Marks(<<>>) = {}
  BY NoNumber DEF Marks
<1>9. Queued'
  <2>1. \A n \in DOMAIN snapshot : n \in DOMAIN endnotes' /\ snapshot[n] = endnotes'[n]
    BY <1>2 DEF Numbered, Queued
  <2>2. Once(walking, "entry")' /\ Numbers(walking, "entry")' = Numbers(walking, "entry")
    BY <1>5 DEF Numbered, Queued
  <2> QED BY <1>1, <1>6, <2>1, <2>2 DEF Numbered, Queued
<1>10. CASE ~Endnotes
  <2>1. Pending' \in SUBSET Pending
    BY <1>2, <1>5, <1>6, <1>10 DEF Pending
  <2>2. Marks(walking') = Marks(rope) \cup Marks(walking) /\ Once(walking', "mark")
    BY <1>2, <1>4, <1>7, <1>10 DEF Marks
  <2>3. Numbering(<<>>, walking', output, Pending', endnotes)
    <3> HIDE DEF Once, Marks, Pending
    <3> QED BY <2>1, <2>2, Inward DEF Numbered
  <2>4. Numbering(rope, walking, output, Pending, endnotes)'
    BY <1>1, <1>2, <1>10, <2>3
  <2> QED BY <1>9, <2>4 DEF Numbered
<1>11. CASE Endnotes
  <2>1. l + 1 \notin DOMAIN endnotes
    BY <1>2
  <2>2. Pending' \in SUBSET (Pending \cup {l + 1})
    <3>1. \A n \in DOMAIN endnotes' : n \in DOMAIN endnotes \/ n = l + 1
      BY <1>2, <1>11
    <3> QED BY <1>5, <1>6, <3>1 DEF Pending
  <2>3. Marks(walking') = Marks(walking) \cup {l + 1} /\ Once(walking', "mark")
    <3>1. Marks(walking') = {l + 1} \cup Marks(walking)
      BY <1>2, <1>4, <1>11 DEF Marks
    <3>2. {l + 1} \cap Marks(walking) = {}
      BY <1>7, <2>1
    <3>3. Once(walking', "mark")
      BY <1>2, <1>4, <1>7, <1>11, <3>2 DEF Marks
    <3> QED BY <3>1, <3>3
  <2>4. Numbering(<<>>, walking', output, Pending', endnotes')
    <3> HIDE DEF Once, Marks, Pending, l
    <3> QED BY <1>2, <1>7, <1>8, <1>11, <2>2, <2>3, OneNoteMore DEF Numbered
  <2>5. Numbering(rope, walking, output, Pending, endnotes)'
    BY <1>1, <2>4
  <2> QED BY <1>9, <2>5 DEF Numbered
<1> QED BY <1>10, <1>11

(* The leaves of stop_document.                                            *)
LEMMA StopNumbers ==
  ASSUME endnotes \in Seq(Seq(Leaves))
  PROVE  /\ StopLeaves \in Seq(Pieces) /\ Marks(StopLeaves) = {} /\ Once(StopLeaves, "mark")
         /\ Once(StopLeaves, "entry")
         /\ Numbers(StopLeaves, "stop") # {} => Numbers(StopLeaves, "entry") = {}
<1>1. CASE Writer = "html"
  <2>1. Stop \in Pieces /\ Stop.kind = "stop"
    BY WrittenPieces DEF Stop, Piece
  <2>2. StopLeaves = <<Stop>>
    BY <1>1 DEF StopLeaves
  <2> HIDE DEF Stop
  <2> QED BY <2>1, <2>2, OneNumber DEF Marks
<1>2. CASE Writer = "man"
  <2>1. StopLeaves = Entries
    BY <1>2 DEF StopLeaves
  <2> QED BY <2>1, EntriesNumbers
<1>3. CASE Writer = "latex"
  <2>1. StopLeaves = <<>>
    BY <1>3 DEF StopLeaves
  <2> QED BY <2>1, NoNumber, EmptySeq DEF Marks
<1> QED BY <1>1, <1>2, <1>3, ConversionAssumption

LEMMA EndBlocksNumbered ==
  ASSUME TypeOK, Numbered, EndBlocks
  PROVE  Numbered'
<1>1. /\ rope \in Seq(Leaves) /\ endnotes \in Seq(Seq(Leaves))
      /\ pc = "blocks" /\ pc' = "walk" /\ walking' = rope \o StopLeaves
      /\ snapshot' = endnotes /\ rope' = <<>> /\ UNCHANGED <<endnotes, output>>
  BY DEF TypeOK, EndBlocks, DocumentRope
<1>2. /\ rope \in Seq(Pieces)
      /\ Numbers(rope, "stop") = {} /\ Numbers(rope, "entry") = {} /\ Once(rope, "entry")
  BY <1>1, LeavesNumbers
<1>3. /\ StopLeaves \in Seq(Pieces) /\ Marks(StopLeaves) = {} /\ Once(StopLeaves, "mark")
      /\ Once(StopLeaves, "entry")
      /\ Numbers(StopLeaves, "stop") # {} => Numbers(StopLeaves, "entry") = {}
  BY <1>1, StopNumbers
<1>4. \A k : /\ Numbers(walking', k) = Numbers(rope, k) \cup Numbers(StopLeaves, k)
             /\ Once(walking', k) <=> /\ Once(rope, k) /\ Once(StopLeaves, k)
                                      /\ Numbers(rope, k) \cap Numbers(StopLeaves, k) = {}
  BY <1>1, <1>2, <1>3, ConcatNumbers
<1>5. /\ Once(walking', "entry")
      /\ Numbers(walking', "stop") # {} => Numbers(walking', "entry") = {}
  BY <1>2, <1>3, <1>4
<1>6. Queued'
  BY <1>1, <1>5 DEF Queued, Ahead
<1>7. walking = <<>> /\ Marks(walking) = {}
  BY <1>1, NoNumber DEF Numbered, Queued, Marks
<1>8. Once(rope, "mark")
  BY DEF Numbered, Numbering
<1>9. Marks(walking') = Marks(rope) \cup Marks(walking) /\ Once(walking', "mark")
  BY <1>3, <1>4, <1>7, <1>8 DEF Marks
<1>10. Pending' \in SUBSET Pending
  BY <1>1 DEF Pending, Ahead
<1>11. Numbering(<<>>, walking', output, Pending', endnotes)
  <2> HIDE DEF Once, Marks, Pending
  <2> QED BY <1>9, <1>10, Inward DEF Numbered
<1>12. Numbering(rope, walking, output, Pending, endnotes)'
  BY <1>1, <1>11
<1> QED BY <1>6, <1>12 DEF Numbered

LEMMA ForceStopNumbered ==
  ASSUME TypeOK, Numbered, ForceStop
  PROVE  Numbered'
<1>1. /\ walking # <<>> /\ Head(walking).kind = "stop" /\ pc = "walk"
      /\ walking' = Entries \o Tail(walking) /\ snapshot' = endnotes
      /\ UNCHANGED <<pc, rope, endnotes, output>>
      /\ walking \in Seq(Pieces) /\ endnotes \in Seq(Seq(Leaves))
  BY DEF ForceStop, AtLeaf, TypeOK
<1>2. Tail(walking) = <<>>
  <2>1. WalkLeaf(walking, 1, snapshot) /\ Head(walking) = walking[1] /\ (Head(walking) = Stop => Tail(walking) = <<>>)
    BY <1>1, TypeWalk, WalkTail
  <2> QED BY <1>1, <2>1 DEF WalkLeaf, Leaves, Thunks
<1>3. /\ Entries \in Seq(Pieces)
      /\ Numbers(Entries, "stop") = {} /\ Marks(Entries) = {} /\ Once(Entries, "mark")
      /\ Numbers(Entries, "entry") = DOMAIN endnotes /\ Once(Entries, "entry")
  BY <1>1, EntriesNumbers
<1>4. walking' = Entries
  BY <1>1, <1>2, <1>3, ConcatEmptySeq
<1>5. Ahead
  <2>1. Numbers(walking, "stop") = IF Head(walking).kind = "stop"
                                     THEN {Head(walking).arg} \cup Numbers(Tail(walking), "stop")
                                     ELSE Numbers(Tail(walking), "stop")
    BY <1>1, TailNumbers
  <2>2. Head(walking).arg \in Numbers(walking, "stop")
    BY <1>1, <2>1
  <2> QED BY <2>2 DEF Ahead
<1>6. Pending' \in SUBSET Pending
  BY <1>1, <1>5 DEF Pending
<1>7. Queued'
  BY <1>1, <1>3, <1>4 DEF Queued, Ahead
<1>8. Once(walking', "mark") /\ Marks(walking') \subseteq Marks(walking) /\ Once(rope, "mark")
  BY <1>3, <1>4 DEF Numbered, Numbering
<1>9. Numbering(rope, walking', output, Pending', endnotes)
  <2> HIDE DEF Once, Marks, Pending
  <2> QED BY <1>6, <1>8, Fewer DEF Numbered
<1>10. Numbering(rope, walking, output, Pending, endnotes)'
  BY <1>1, <1>9
<1> QED BY <1>7, <1>10 DEF Numbered

LEMMA WalkEntryNumbered ==
  ASSUME TypeOK, Numbered, WalkEntry
  PROVE  Numbered'
<1> DEFINE n == Head(walking).arg
           c == snapshot[Head(walking).arg]
           t == Tail(walking)
<1>1. /\ walking # <<>> /\ Head(walking).kind = "entry" /\ pc = "walk"
      /\ walking' = c \o t /\ output' = Append(output, Head(walking))
      /\ UNCHANGED <<pc, rope, endnotes, snapshot>>
      /\ walking \in Seq(Pieces) /\ output \in Seq(Pieces)
  BY DEF WalkEntry, AtLeaf, TypeOK
<1>2. n \in DOMAIN snapshot /\ c \in Seq(Leaves)
  <2>1. WalkLeaf(walking, 1, snapshot) /\ Head(walking) = walking[1]
    BY <1>1, TypeWalk, WalkTail
  <2>2. n \in DOMAIN snapshot
    BY <1>1, <2>1 DEF WalkLeaf, Leaves, Thunks, Stop, Piece
  <2>3. snapshot \in Seq(Seq(Leaves))
    BY DEF TypeOK
  <2> QED BY <2>2, <2>3, ElementOfSeq, LenProperties
<1>3. n \in DOMAIN endnotes /\ c = endnotes[n]
  BY <1>2 DEF Numbered, Queued
<1>4. /\ c \in Seq(Pieces)
      /\ Numbers(c, "stop") = {} /\ Numbers(c, "entry") = {} /\ Once(c, "entry")
  BY <1>2, LeavesNumbers
<1>5. /\ t \in Seq(Pieces) /\ Head(walking) \in Pieces
      /\ Numbers(walking, "entry") = {n} \cup Numbers(t, "entry")
      /\ Once(walking, "entry") => Once(t, "entry") /\ n \notin Numbers(t, "entry")
      /\ Numbers(walking, "stop") = Numbers(t, "stop")
      /\ Marks(walking) = Marks(t) /\ (Once(walking, "mark") => Once(t, "mark"))
  BY <1>1, TailNumbers DEF Marks
<1>6. /\ Marks(output') = Marks(output)
      /\ Once(output, "mark") => Once(output', "mark")
  BY <1>1, <1>5, AppendNumbers DEF Marks
<1> HIDE DEF n, c, t
<1>7. \A k : /\ Numbers(walking', k) = Numbers(c, k) \cup Numbers(t, k)
             /\ Once(walking', k) <=> Once(c, k) /\ Once(t, k) /\ Numbers(c, k) \cap Numbers(t, k) = {}
  BY <1>1, <1>4, <1>5, ConcatNumbers
<1>8. Once(walking, "entry") /\ ~Ahead /\ n \in Pending
  BY <1>3, <1>5 DEF Numbered, Queued, Pending
<1>9. /\ Numbers(walking', "stop") = {} /\ Numbers(walking', "entry") = Numbers(t, "entry")
      /\ Once(walking', "entry") /\ ~Ahead'
  BY <1>1, <1>4, <1>5, <1>7, <1>8 DEF Ahead
<1>10. Pending' \in SUBSET (Pending \ {n})
  BY <1>1, <1>5, <1>8, <1>9 DEF Pending
<1>11. Queued'
  BY <1>1, <1>9 DEF Numbered, Queued, Once, Kind
<1>12. /\ Once(walking, "mark") /\ Once(output, "mark") /\ Once(c, "mark") /\ Marks(c) \cap Marks(walking) = {}
  <2> HIDE DEF Once, Marks, Pending
  <2> QED BY <1>3, <1>8 DEF Numbered, Numbering
<1>13. Marks(walking') = Marks(endnotes[n]) \cup Marks(walking) /\ Once(walking', "mark")
  BY <1>3, <1>5, <1>7, <1>12 DEF Marks
<1>14. Numbering(rope, walking', output, Pending', endnotes)
  <2> HIDE DEF Once, Marks, Pending
  <2> QED BY <1>8, <1>10, <1>13, Unfolded DEF Numbered
<1>15. Numbering(rope, walking', output', Pending', endnotes)
  <2>1. Once(output', "mark") /\ Marks(output') = Marks(output)
    BY <1>6, <1>12
  <2> HIDE DEF Once, Marks, Pending
  <2> QED BY <1>14, <2>1 DEF Numbering
<1>16. Numbering(rope, walking, output, Pending, endnotes)'
  BY <1>1, <1>15
<1> QED BY <1>11, <1>16 DEF Numbered

LEMMA EmptyNumbered ==
  /\ Numbering(<<>>, <<>>, <<>>, {}, <<>>)
  /\ \A k : Numbers(<<>>, k) = {} /\ Once(<<>>, k)
<1>1. \A k : Numbers(<<>>, k) = {} /\ Once(<<>>, k)
  BY NoNumber
<1>2. Numbering(<<>>, <<>>, <<>>, {}, <<>>)
  <2> HIDE DEF Once
  <2> QED BY <1>1 DEF Numbering, Marks
<1> QED BY <1>1, <1>2

LEMMA NumberedStep ==
  ASSUME TypeOK, Sources, Numbered, [Next]_vars, CallsComeFirst \/ ~Endnotes
  PROVE  Numbered'
<1>0. Once(rope, "mark") /\ Once(<<>>, "mark") /\ Marks(<<>>) = {}
  BY NoNumber DEF Numbered, Numbering, Marks
<1>1. ASSUME NEW d \in Documents, StartDocument(d) PROVE Numbered'
  <2>1. /\ rope' = <<>> /\ walking' = <<>> /\ output' = <<>> /\ endnotes' = <<>> /\ snapshot' = <<>>
    BY <1>1 DEF StartDocument
  <2>2. Pending' = {} /\ DOMAIN snapshot' = {}
    BY <2>1 DEF Pending
  <2>3. Numbering(rope, walking, output, Pending, endnotes)'
    BY <2>1, <2>2, EmptyNumbered
  <2>4. Queued'
    BY <2>1, <2>2, EmptyNumbered DEF Queued
  <2> QED BY <2>3, <2>4 DEF Numbered
<1>2. CASE RegisterLink \/ RegisterNote
  BY <1>0, <1>2, AsideNumbered DEF RegisterLink, RegisterNote
<1>3. CASE Defer
  <2>1. PICK k \in {"link", "note_ref"} : AtPiece(k)
    BY <1>3 DEF Defer
  <2>2. source[pos] \in SourcePieces /\ source[pos].kind = k
    BY <2>1, PieceAtHand
  <2>3. source[pos] \in Leaves /\ source[pos].kind # "mark" /\ rope \in Seq(Leaves)
    BY <2>2 DEF SourcePieces, Leaves, Thunks, TypeOK
  <2>4. rope' = Append(rope, source[pos]) /\ UNCHANGED <<pc, walking, endnotes, snapshot, output>>
    BY <1>3 DEF Defer
  <2>5. Marks(rope') = Marks(rope) /\ Once(rope', "mark")
    BY <1>0, <2>3, <2>4, AppendNumbers DEF Marks
  <2> QED BY <2>4, <2>5, AsideNumbered
<1>4. CASE LuaMetadata
  <2>1. UNCHANGED endnotes
    BY <1>4, CallsKeepNotes
  <2>2. UNCHANGED <<pc, rope, walking, endnotes, snapshot, output>>
    BY <1>4, <2>1 DEF LuaMetadata
  <2> QED BY <1>0, <2>2, AsideNumbered
<1>5. CASE ParseError
  <2>1. rope' = <<>> /\ pc' # "blocks" /\ UNCHANGED <<walking, endnotes, snapshot, output>>
    BY <1>5 DEF ParseError
  <2> QED BY <1>0, <2>1, AsideNumbered
<1>6. CASE Finish
  <2>1. pc' # "blocks" /\ UNCHANGED <<rope, walking, endnotes, snapshot, output>>
    BY <1>6 DEF Finish
  <2> QED BY <1>0, <2>1, AsideNumbered
<1>7. CASE UNCHANGED vars
  <2>1. UNCHANGED <<pc, rope, walking, endnotes, snapshot, output>>
    BY <1>7 DEF vars
  <2> QED BY <1>0, <2>1, AsideNumbered
<1>8. CASE ForceNote
  BY <1>0, <1>8, TailNumbered DEF ForceNote, AtLeaf
<1>9. CASE ForceLink \/ ForceUndefinedNote
  <2> DEFINE label == Head(walking).label
             r == references[normalize_tag[label]]
  <2>1. /\ walking # <<>> /\ pc = "walk" /\ Head(walking).kind \in {"link", "note_ref"}
        /\ walking' = Tail(walking) /\ UNCHANGED <<pc, rope, endnotes, snapshot>>
    BY <1>9 DEF ForceLink, ForceUndefinedNote, AtLeaf
  <2>2. label \in Labels
    BY <2>1, LabelAtHand
  <2>3. r \in Urls \cup {None}
    BY <2>2, ConversionAssumption DEF TypeOK
  <2>4. /\ Piece("url", label, r) \in Pieces /\ Piece("url", label, r).kind # "mark"
        /\ Piece("bracketed", label, None) \in Pieces /\ Piece("bracketed", label, None).kind # "mark"
    BY <2>2, <2>3 DEF Piece, Pieces, Written
  <2>5. \/ output' = Append(output, Piece("url", label, r))
        \/ output' = Append(output, Piece("bracketed", label, None))
    BY <1>9 DEF ForceLink, ForceUndefinedNote
  <2>6. \E p \in Pieces : output' = Append(output, p) /\ p.kind # "mark"
    <3> HIDE DEF label, r
    <3> QED BY <2>4, <2>5
  <2> QED BY <1>0, <2>1, <2>6, TailNumbered
<1>10. CASE WalkString
  <2>1. /\ walking # <<>> /\ pc = "walk" /\ output' = Append(output, Head(walking))
        /\ walking' = Tail(walking) /\ UNCHANGED <<pc, rope, endnotes, snapshot>>
    BY <1>10 DEF WalkString, AtLeaf
  <2>2. Head(walking) \in Pieces
    BY <2>1, TypeWalk, WalkTail
  <2> QED BY <1>0, <2>1, <2>2, TailNumbered
<1> QED BY <1>1, <1>2, <1>3, <1>4, <1>5, <1>6, <1>7, <1>8, <1>9, <1>10, InlineNumbered, EndNoteNumbered,
           EndBlocksNumbered, ForceStopNumbered, WalkEntryNumbered DEF Next, Parse, Walk

LEMMA NumberedInvariance ==
  ASSUME CallsComeFirst \/ ~Endnotes
  PROVE  Spec => []Numbered
<1>1. Init => Numbered
  <2> SUFFICES ASSUME Init PROVE Numbered
    OBVIOUS
  <2>1. /\ rope = <<>> /\ walking = <<>> /\ output = <<>> /\ endnotes = <<>> /\ snapshot = <<>>
    BY DEF Init
  <2>2. Pending = {} /\ DOMAIN snapshot = {}
    BY <2>1 DEF Pending
  <2>3. Numbering(rope, walking, output, Pending, endnotes)
    BY <2>1, <2>2, EmptyNumbered
  <2>4. Queued
    BY <2>1, <2>2, EmptyNumbered DEF Queued
  <2> QED BY <2>3, <2>4 DEF Numbered
<1>2. TypeOK /\ Sources /\ Numbered /\ [Next]_vars => Numbered'
  BY NumberedStep
<1> QED BY <1>1, <1>2, TypeCorrect, SourcesInvariance, PTL DEF Spec

(* No two notes of a document get the same number, and each number in the  *)
(* output belongs to a note that the writer has kept: for every writer and *)
(* any documents, with notes in notes and in circles.  With a writer that  *)
(* numbers notes, calls of m must come before the first inline note: later *)
(* ones would clear them.                                                  *)
THEOREM NumbersAreUnique ==
  ASSUME CallsComeFirst \/ ~Endnotes
  PROVE  Spec => []NumbersUnique
<1>1. Numbered => NumbersUnique
  BY DEF Numbered, Numbering, NumbersUnique, Once, Marks
<1> QED BY <1>1, NumberedInvariance, PTL

-----------------------------------------------------------------------------
(* The notes at the end.                                                   *)
Only(s, kinds) == \A n \in DOMAIN s : s[n].kind \in kinds
\* Until the notes at the end are reached every note has a mark, and from
\* then on nothing but their text and its links comes.
Here ==
  /\ \A t \in Tags : rawnotes[t] # None => Only(BodyOf[rawnotes[t]], {"link"})
  /\ \A n \in DOMAIN endnotes : Only(endnotes[n], {"link"})
  /\ pc = "walk" => rope = <<>>
  /\ pc = "blocks" => source = doc
  /\ pc = "note" => Ahead /\ Only(source, {"link"}) /\ Only(rope, {"link"})
  /\ pc = "idle" => walking = <<>>
  /\ Ahead => /\ Marks(rope) \cup Marks(walking) \cup Marks(output) = DOMAIN endnotes
              /\ Numbers(output, "entry") = {} /\ Numbers(walking, "entry") = {}
  /\ ~Ahead => /\ Only(walking, {"link", "entry"})
               /\ Marks(output) = DOMAIN endnotes
               /\ Numbers(output, "entry") \cup Numbers(walking, "entry") = DOMAIN endnotes

Delivering == /\ docs = 0 => rawnotes = Nothing /\ pc = "idle"
              /\ docs # 0 => doc \in Documents
              /\ doc \in Promised => Here

LEMMA OnlyNumbers ==
  ASSUME NEW s, NEW kinds, Only(s, kinds), NEW k, k \notin kinds
  PROVE  Numbers(s, k) = {}
BY DEF Only, Numbers, Kind

LEMMA OnlyConcat ==
  ASSUME NEW S, NEW s \in Seq(S), NEW t \in Seq(S), NEW kinds, Only(s, kinds), Only(t, kinds)
  PROVE  Only(s \o t, kinds)
<1>1. \A n \in DOMAIN (s \o t) :
        \/ n \in DOMAIN s /\ (s \o t)[n] = s[n]
        \/ \E o \in DOMAIN t : (s \o t)[n] = t[o]
  BY ConcatDomain
<1> QED BY <1>1 DEF Only

LEMMA OnlyTail ==
  ASSUME NEW S, NEW s \in Seq(S), s # <<>>, NEW kinds, Only(s, kinds)
  PROVE  Only(Tail(s), kinds) /\ Head(s).kind \in kinds
<1>1. /\ 1 \in DOMAIN s /\ Head(s) = s[1]
      /\ \A n \in DOMAIN Tail(s) : n + 1 \in DOMAIN s /\ Tail(s)[n] = s[n + 1]
  BY TailDomain
<1> QED BY <1>1 DEF Only

\* The piece at hand of a promised document or of one of its notes.
LEMMA PromisedPiece ==
  ASSUME TypeOK, Here, doc \in Promised, NEW k, AtPiece(k)
  PROVE  /\ k # "bad"
         /\ pc = "note" => k = "link"
         /\ k \in {"note_def", "inline_note"} => Only(BodyOf[source[pos].arg], {"link"})
         /\ k # "link" => pc = "blocks"
<1>1. pos \in DOMAIN source /\ source[pos].kind = k /\ pc \in {"blocks", "note"}
  BY DEF AtPiece
<1>2. CASE pc = "note"
  BY <1>1, <1>2 DEF Here, Only
<1>3. CASE pc = "blocks"
  <2>1. /\ k # "bad"
        /\ k \in {"note_def", "inline_note"} =>
             \A n \in DOMAIN BodyOf[source[pos].arg] : BodyOf[source[pos].arg][n].kind = "link"
    BY <1>1, <1>3 DEF Here, Promised
  <2> QED BY <1>3, <2>1 DEF Only
<1> QED BY <1>1, <1>2, <1>3

\* Steps of a parse that touch nothing but definitions and thunks.
LEMMA AsideHere ==
  ASSUME Here, UNCHANGED <<pc, source, walking, endnotes, output, doc>>, pc # "walk",
         Marks(rope') = Marks(rope), pc = "note" => Only(rope', {"link"}),
         \A t \in Tags : rawnotes'[t] # None => Only(BodyOf[rawnotes'[t]], {"link"})
  PROVE  Here'
<1>1. Ahead' <=> Ahead
  BY DEF Ahead
<1> HIDE DEF Ahead
<1> QED BY <1>1 DEF Here

\* Steps of the walk over a leaf that is written, or left out.
LEMMA TailHere ==
  ASSUME TypeOK, Here, pc = "walk", UNCHANGED <<pc, source, rope, endnotes, rawnotes, doc>>,
         walking # <<>>, walking' = Tail(walking), Head(walking).kind \notin {"stop", "entry"},
         NEW p \in Pieces, output' = Append(output, p), p.kind # "entry",
         IF p.kind = "mark" THEN p = Head(walking) ELSE Head(walking).kind # "mark"
  PROVE  Here'
<1>1. walking \in Seq(Pieces) /\ output \in Seq(Pieces)
  BY DEF TypeOK
<1>2. \A k : Numbers(walking, k) = IF Head(walking).kind = k THEN {Head(walking).arg} \cup Numbers(Tail(walking), k)
                                   ELSE Numbers(Tail(walking), k)
  BY <1>1, TailNumbers
<1>3. \A k : Numbers(output', k) = IF p.kind = k THEN Numbers(output, k) \cup {p.arg} ELSE Numbers(output, k)
  BY <1>1, AppendNumbers
<1>4. /\ Numbers(walking', "stop") = Numbers(walking, "stop")
      /\ Numbers(walking', "entry") = Numbers(walking, "entry")
      /\ Numbers(output', "entry") = Numbers(output, "entry")
  BY <1>2, <1>3
<1>5. Marks(walking') \cup Marks(output') = Marks(walking) \cup Marks(output)
  BY <1>2, <1>3 DEF Marks
<1>6. Ahead' <=> Ahead
  BY <1>4 DEF Ahead
<1>7. CASE Ahead
  <2>1. Marks(rope') \cup Marks(walking') \cup Marks(output') = DOMAIN endnotes'
    BY <1>5, <1>7 DEF Here
  <2> HIDE DEF Ahead
  <2> QED BY <1>4, <1>6, <1>7, <2>1 DEF Here
<1>8. CASE ~Ahead
  <2>1. Only(walking', {"link", "entry"}) /\ Head(walking).kind \in {"link", "entry"}
    BY <1>1, <1>8, OnlyTail DEF Here
  <2>2. Marks(output') = Marks(output)
    BY <1>3, <2>1 DEF Marks
  <2>3. /\ Only(walking', {"link", "entry"}) /\ Marks(output') = DOMAIN endnotes'
        /\ Numbers(output', "entry") \cup Numbers(walking', "entry") = DOMAIN endnotes'
    BY <1>4, <1>8, <2>1, <2>2 DEF Here
  <2>4. /\ \A t \in Tags : rawnotes'[t] # None => Only(BodyOf[rawnotes'[t]], {"link"})
        /\ \A n \in DOMAIN endnotes' : Only(endnotes'[n], {"link"})
        /\ rope' = <<>> /\ pc' = "walk"
    BY DEF Here
  <2> HIDE DEF Ahead, Only
  <2> QED BY <1>6, <1>8, <2>3, <2>4 DEF Here
<1> QED BY <1>7, <1>8

LEMMA NotesHere ==
  ASSUME TypeOK, Here, doc \in Promised, UNCHANGED doc, InlineNote \/ EndNote, Endnotes
  PROVE  Here'
<1>1. /\ rope \in Seq(Leaves) /\ endnotes \in Seq(Seq(Leaves)) /\ walking \in Seq(Pieces)
      /\ Len(endnotes) \in Nat /\ DOMAIN endnotes = 1 .. Len(endnotes)
  BY LenProperties DEF TypeOK
<1> DEFINE l == Len(endnotes)
<1>2. ASSUME NEW c \in Seq(Leaves), Only(c, {"link"}), endnotes' = NoteEndnotes(c)
      PROVE  /\ DOMAIN endnotes' = DOMAIN endnotes \cup {l + 1}
             /\ \A n \in DOMAIN endnotes' : Only(endnotes'[n], {"link"})
             /\ NoteRope(c) \in Seq(Leaves) /\ Marks(NoteRope(c)) = {l + 1}
  <2>1. /\ NoteRope(c) \in Seq(Leaves) /\ Marks(NoteRope(c)) = {l + 1}
        /\ DOMAIN endnotes' = 1 .. l + 1
        /\ \A n \in DOMAIN endnotes : endnotes'[n] = endnotes[n]
        /\ endnotes'[l + 1] = c
    BY <1>1, <1>2, NoteNumbers
  <2>2. \A n \in 1 .. l + 1 : n \in DOMAIN endnotes \/ n = l + 1
    BY <1>1
  <2>3. DOMAIN endnotes' = DOMAIN endnotes \cup {l + 1}
    BY <1>1, <2>1, <2>2
  <2>4. \A n \in DOMAIN endnotes' : Only(endnotes'[n], {"link"})
    <3> HIDE DEF Only, l
    <3> QED BY <1>2, <2>1, <2>2 DEF Here
  <2> QED BY <2>1, <2>3, <2>4
<1> HIDE DEF l
<1>3. CASE InlineNote
  <2> DEFINE c == BodyOf[source[pos].arg]
  <2>1. /\ AtPiece("inline_note") /\ endnotes' = NoteEndnotes(c) /\ rope' = rope \o NoteRope(c)
        /\ UNCHANGED <<pc, source, walking, rawnotes, output>>
    BY <1>3 DEF InlineNote, reader
  <2>2. pc = "blocks" /\ Only(c, {"link"})
    BY <2>1, PromisedPiece
  <2>3. c \in Seq(Leaves)
    BY <2>1, PieceAtHand, Texts DEF SourcePieces
  <2> HIDE DEF c
  <2>4. /\ DOMAIN endnotes' = DOMAIN endnotes \cup {l + 1}
        /\ \A n \in DOMAIN endnotes' : Only(endnotes'[n], {"link"})
        /\ NoteRope(c) \in Seq(Leaves) /\ Marks(NoteRope(c)) = {l + 1}
    BY <1>2, <2>1, <2>2, <2>3
  <2>5. Marks(rope') = Marks(rope) \cup {l + 1}
    BY <1>1, <2>1, <2>4, ConcatNumbers DEF Marks
  <2>6. Ahead /\ Ahead' /\ pc' = "blocks" /\ source' = doc'
    BY <2>1, <2>2 DEF Ahead, Here
  <2>7. Marks(rope') \cup Marks(walking') \cup Marks(output') = DOMAIN endnotes'
    <3>1. Marks(rope) \cup Marks(walking) \cup Marks(output) = DOMAIN endnotes
      BY <2>6 DEF Here
    <3> HIDE DEF Marks
    <3> QED BY <2>1, <2>4, <2>5, <3>1
  <2>8. /\ \A t \in Tags : rawnotes'[t] # None => Only(BodyOf[rawnotes'[t]], {"link"})
        /\ Numbers(output', "entry") = {} /\ Numbers(walking', "entry") = {}
    BY <2>1, <2>6 DEF Here
  <2> HIDE DEF Ahead, Only, Marks
  <2> QED BY <2>4, <2>6, <2>7, <2>8 DEF Here
<1>4. CASE EndNote
  <2>1. /\ pc = "note" /\ pc' = "walk" /\ endnotes' = NoteEndnotes(rope) /\ rope' = <<>>
        /\ walking' = NoteRope(rope) \o walking /\ UNCHANGED <<source, rawnotes, output>>
    BY <1>4 DEF EndNote, reader
  <2>2. Only(rope, {"link"}) /\ Ahead
    BY <2>1 DEF Here
  <2>3. /\ DOMAIN endnotes' = DOMAIN endnotes \cup {l + 1}
        /\ \A n \in DOMAIN endnotes' : Only(endnotes'[n], {"link"})
        /\ NoteRope(rope) \in Seq(Leaves) /\ Marks(NoteRope(rope)) = {l + 1}
    BY <1>1, <1>2, <2>1, <2>2
  <2>4. /\ NoteRope(rope) \in Seq(Pieces)
        /\ Numbers(NoteRope(rope), "stop") = {} /\ Numbers(NoteRope(rope), "entry") = {}
    BY <2>3, LeavesNumbers
  <2>5. \A k : Numbers(walking', k) = Numbers(NoteRope(rope), k) \cup Numbers(walking, k)
    BY <1>1, <2>1, <2>4, ConcatNumbers
  <2>6. /\ Numbers(walking', "stop") = Numbers(walking, "stop")
        /\ Numbers(walking', "entry") = Numbers(walking, "entry")
        /\ Marks(walking') = {l + 1} \cup Marks(walking)
    BY <2>3, <2>4, <2>5 DEF Marks
  <2>7. Ahead'
    BY <2>1, <2>2, <2>6 DEF Ahead
  <2>8. Marks(rope) = {} /\ Marks(rope') = {}
    BY <2>1, <2>2, OnlyNumbers, NoNumber DEF Marks
  <2>9. Marks(rope') \cup Marks(walking') \cup Marks(output') = DOMAIN endnotes'
    <3>1. Marks(rope) \cup Marks(walking) \cup Marks(output) = DOMAIN endnotes
      BY <2>2 DEF Here
    <3> HIDE DEF Marks
    <3> QED BY <2>1, <2>3, <2>6, <2>8, <3>1
  <2>10. /\ \A t \in Tags : rawnotes'[t] # None => Only(BodyOf[rawnotes'[t]], {"link"})
         /\ Numbers(output', "entry") = {} /\ Numbers(walking', "entry") = {}
    BY <2>1, <2>2, <2>6 DEF Here
  <2> HIDE DEF Ahead, Only, Marks
  <2> QED BY <2>1, <2>3, <2>7, <2>9, <2>10 DEF Here
<1> QED BY <1>3, <1>4

LEMMA EndBlocksHere ==
  ASSUME TypeOK, Numbered, Here, UNCHANGED doc, EndBlocks, Writer = "html"
  PROVE  Here'
<1>1. /\ pc = "blocks" /\ pc' = "walk" /\ walking' = rope \o StopLeaves /\ rope' = <<>>
      /\ UNCHANGED <<source, rawnotes, endnotes, output>> /\ rope \in Seq(Leaves)
  BY DEF EndBlocks, DocumentRope, reader, TypeOK
<1>2. rope \in Seq(Pieces) /\ Numbers(rope, "entry") = {}
  BY <1>1, LeavesNumbers
<1>3. /\ StopLeaves \in Seq(Pieces) /\ Numbers(StopLeaves, "stop") = {None}
      /\ Numbers(StopLeaves, "entry") = {} /\ Numbers(StopLeaves, "mark") = {}
  <2>1. Stop \in Pieces /\ Stop.kind = "stop" /\ Stop.arg = None
    BY WrittenPieces DEF Stop, Piece
  <2>2. StopLeaves = <<Stop>>
    BY DEF StopLeaves
  <2> HIDE DEF Stop
  <2> QED BY <2>1, <2>2, OneNumber
<1>4. \A k : Numbers(walking', k) = Numbers(rope, k) \cup Numbers(StopLeaves, k)
  BY <1>1, <1>2, <1>3, ConcatNumbers
<1>5. Ahead /\ Ahead'
  BY <1>1, <1>3, <1>4 DEF Ahead
<1>6. walking = <<>> /\ Marks(walking) = {} /\ Marks(rope') = {}
  BY <1>1, NoNumber DEF Numbered, Queued, Marks
<1>7. Marks(walking') = Marks(rope) /\ Numbers(walking', "entry") = {}
  BY <1>2, <1>3, <1>4 DEF Marks
<1>8. Marks(rope') \cup Marks(walking') \cup Marks(output') = DOMAIN endnotes'
  <2>1. Marks(rope) \cup Marks(walking) \cup Marks(output) = DOMAIN endnotes
    BY <1>5 DEF Here
  <2> HIDE DEF Marks
  <2> QED BY <1>1, <1>6, <1>7, <2>1
<1>9. Numbers(output', "entry") = {}
  BY <1>1, <1>5 DEF Here
<1>10. /\ \A t \in Tags : rawnotes'[t] # None => Only(BodyOf[rawnotes'[t]], {"link"})
       /\ \A n \in DOMAIN endnotes' : Only(endnotes'[n], {"link"})
  BY <1>1 DEF Here
<1> HIDE DEF Ahead, Only, Marks
<1> QED BY <1>1, <1>5, <1>7, <1>8, <1>9, <1>10 DEF Here

LEMMA ForceNoteHere ==
  ASSUME TypeOK, Here, UNCHANGED doc, ForceNote
  PROVE  Here'
<1> DEFINE found == rawnotes[normalize_tag[Head(walking).label]]
<1>1. /\ walking # <<>> /\ Head(walking).kind = "note_ref" /\ pc = "walk" /\ pc' = "note"
      /\ found # None /\ source' = BodyOf[found] /\ rope' = <<>> /\ walking' = Tail(walking)
      /\ UNCHANGED <<rawnotes, endnotes, output>> /\ walking \in Seq(Pieces)
  BY DEF ForceNote, AtLeaf, reader, TypeOK
<1>2. Only(source', {"link"})
  <2>1. normalize_tag[Head(walking).label] \in Tags
    BY <1>1, LabelAtHand, ConversionAssumption
  <2> QED BY <1>1, <2>1 DEF Here
<1>3. Ahead
  <2>1. ASSUME ~Ahead PROVE FALSE
    <3>1. Only(walking, {"link", "entry"})
      BY <2>1 DEF Here
    <3>2. Head(walking).kind \in {"link", "entry"}
      BY <1>1, <3>1, OnlyTail
    <3> QED BY <1>1, <3>2
  <2> QED BY <2>1
<1>4. \A k \in {"stop", "entry", "mark"} : Numbers(walking', k) = Numbers(walking, k)
  <2>1. \A k : Numbers(walking, k) = IF Head(walking).kind = k THEN {Head(walking).arg} \cup Numbers(Tail(walking), k)
                                     ELSE Numbers(Tail(walking), k)
    BY <1>1, TailNumbers
  <2> QED BY <1>1, <2>1
<1>5. Ahead'
  BY <1>1, <1>3, <1>4 DEF Ahead
<1>6. /\ Marks(walking') = Marks(walking) /\ Marks(rope') = Marks(rope)
      /\ Numbers(walking', "entry") = {} /\ Numbers(output', "entry") = {}
  BY <1>1, <1>3, <1>4 DEF Marks, Here
<1>7. Marks(rope') \cup Marks(walking') \cup Marks(output') = DOMAIN endnotes'
  BY <1>1, <1>3, <1>6 DEF Here
<1>8. /\ \A t \in Tags : rawnotes'[t] # None => Only(BodyOf[rawnotes'[t]], {"link"})
      /\ \A n \in DOMAIN endnotes' : Only(endnotes'[n], {"link"})
  BY <1>1 DEF Here
<1>9. Only(rope', {"link"})
  BY <1>1 DEF Only
<1> HIDE DEF Ahead, Only, Marks
<1> QED BY <1>1, <1>2, <1>5, <1>6, <1>7, <1>8, <1>9 DEF Here

LEMMA ForceStopHere ==
  ASSUME TypeOK, Here, UNCHANGED doc, ForceStop
  PROVE  Here'
<1>1. /\ walking # <<>> /\ Head(walking).kind = "stop" /\ pc = "walk"
      /\ walking' = Entries \o Tail(walking)
      /\ UNCHANGED <<pc, rope, rawnotes, endnotes, output>>
      /\ walking \in Seq(Pieces) /\ endnotes \in Seq(Seq(Leaves))
  BY DEF ForceStop, AtLeaf, TypeOK, reader
<1>2. Tail(walking) = <<>>
  <2>1. WalkLeaf(walking, 1, snapshot) /\ Head(walking) = walking[1] /\ (Head(walking) = Stop => Tail(walking) = <<>>)
    BY <1>1, TypeWalk, WalkTail
  <2> QED BY <1>1, <2>1 DEF WalkLeaf, Leaves, Thunks
<1>3. /\ Entries \in Seq(Pieces)
      /\ Numbers(Entries, "stop") = {} /\ Numbers(Entries, "entry") = DOMAIN endnotes
  BY <1>1, EntriesNumbers
<1>4. walking' = Entries
  BY <1>1, <1>2, <1>3, ConcatEmptySeq
<1>5. \A k : Numbers(walking, k) = IF Head(walking).kind = k THEN {Head(walking).arg} \cup Numbers(Tail(walking), k)
                                   ELSE Numbers(Tail(walking), k)
  BY <1>1, TailNumbers
<1>6. Numbers(walking, "stop") # {} /\ Marks(walking) = {}
  <2>1. Head(walking).arg \in Numbers(walking, "stop")
    BY <1>1, <1>5
  <2>2. Marks(walking) = {}
    BY <1>1, <1>2, <1>5, NoNumber DEF Marks
  <2> QED BY <2>1, <2>2
<1>7. Ahead /\ ~Ahead'
  BY <1>1, <1>3, <1>4, <1>6 DEF Ahead
<1>8. Marks(rope) = {}
  BY <1>1, NoNumber DEF Here, Marks
<1>9. Marks(output') = DOMAIN endnotes' /\ Numbers(output', "entry") = {}
  BY <1>1, <1>6, <1>7, <1>8 DEF Here
<1>10. Only(walking', {"link", "entry"})
  <2>1. \A n \in DOMAIN endnotes : Entry(n).kind = "entry"
    BY DEF Entry, Piece
  <2> QED BY <1>4, <2>1 DEF Only, Entries
<1>11. /\ \A t \in Tags : rawnotes'[t] # None => Only(BodyOf[rawnotes'[t]], {"link"})
       /\ \A n \in DOMAIN endnotes' : Only(endnotes'[n], {"link"})
       /\ rope' = <<>> /\ pc' = "walk"
  BY <1>1 DEF Here
<1>12. Numbers(output', "entry") \cup Numbers(walking', "entry") = DOMAIN endnotes'
  BY <1>1, <1>3, <1>4, <1>9
<1> HIDE DEF Ahead, Only, Marks
<1> QED BY <1>7, <1>9, <1>10, <1>11, <1>12 DEF Here

LEMMA WalkEntryHere ==
  ASSUME TypeOK, Numbered, Here, UNCHANGED doc, WalkEntry
  PROVE  Here'
<1> DEFINE h == Head(walking)
           c == snapshot[Head(walking).arg]
           t == Tail(walking)
<1>1. /\ walking # <<>> /\ h.kind = "entry" /\ pc = "walk"
      /\ walking' = c \o t /\ output' = Append(output, h)
      /\ UNCHANGED <<pc, rope, rawnotes, endnotes>>
      /\ walking \in Seq(Pieces) /\ output \in Seq(Pieces)
  BY DEF WalkEntry, AtLeaf, TypeOK, reader
<1>2. h.arg \in DOMAIN snapshot /\ c \in Seq(Leaves)
  <2>1. WalkLeaf(walking, 1, snapshot) /\ h = walking[1]
    BY <1>1, TypeWalk, WalkTail
  <2>2. h.arg \in DOMAIN snapshot
    BY <1>1, <2>1 DEF WalkLeaf, Leaves, Thunks, Stop, Piece
  <2>3. snapshot \in Seq(Seq(Leaves))
    BY DEF TypeOK
  <2> QED BY <2>2, <2>3, ElementOfSeq, LenProperties
<1>3. Only(c, {"link"}) /\ c \in Seq(Pieces)
  <2>1. h.arg \in DOMAIN endnotes /\ c = endnotes[h.arg]
    BY <1>2 DEF Numbered, Queued
  <2> QED BY <1>2, <2>1, LeavesNumbers DEF Here
<1>4. /\ t \in Seq(Pieces) /\ h \in Pieces
      /\ Numbers(walking, "entry") = {h.arg} \cup Numbers(t, "entry")
      /\ Numbers(walking, "stop") = Numbers(t, "stop")
  BY <1>1, TailNumbers
<1>5. ~Ahead
  <2>1. h.arg \in Numbers(walking, "entry")
    BY <1>4
  <2> QED BY <2>1 DEF Here
<1>6. Only(walking, {"link", "entry"})
  BY <1>5 DEF Here
<1>7. Only(t, {"link", "entry"})
  BY <1>1, <1>6, OnlyTail
<1>8. Numbers(output', "entry") = Numbers(output, "entry") \cup {h.arg} /\ Marks(output') = Marks(output)
  BY <1>1, <1>4, AppendNumbers DEF Marks
<1> HIDE DEF h, c, t
<1>9. Only(c, {"link", "entry"})
  BY <1>3 DEF Only
<1>10. Only(walking', {"link", "entry"})
  BY <1>1, <1>3, <1>4, <1>7, <1>9, OnlyConcat
<1>11. /\ Numbers(walking', "entry") = Numbers(t, "entry")
       /\ Numbers(walking', "stop") = {}
  <2>1. \A k : Numbers(walking', k) = Numbers(c, k) \cup Numbers(t, k)
    BY <1>1, <1>3, <1>4, ConcatNumbers
  <2>2. Numbers(c, "entry") = {}
    BY <1>3, OnlyNumbers
  <2>3. Numbers(walking', "stop") = {}
    BY <1>10, OnlyNumbers
  <2> QED BY <2>1, <2>2, <2>3
<1>12. ~Ahead'
  BY <1>1, <1>11 DEF Ahead
<1>13. /\ Numbers(output', "entry") \cup Numbers(walking', "entry") = DOMAIN endnotes'
       /\ Marks(output') = DOMAIN endnotes'
  BY <1>1, <1>4, <1>5, <1>8, <1>11 DEF Here
<1>14. /\ \A g \in Tags : rawnotes'[g] # None => Only(BodyOf[rawnotes'[g]], {"link"})
       /\ \A n \in DOMAIN endnotes' : Only(endnotes'[n], {"link"})
       /\ rope' = <<>> /\ pc' = "walk"
  BY <1>1 DEF Here
<1> HIDE DEF Ahead, Only, Marks
<1> QED BY <1>10, <1>12, <1>13, <1>14 DEF Here

\* A document begins with nothing left over but notes that hold links only.
LEMMA StartDocumentHere ==
  ASSUME Delivering, MaxDocs <= 1 \/ Documents \subseteq Promised, docs \in Nat,
         NEW d \in Documents, StartDocument(d)
  PROVE  Here'
<1>1. /\ pc' = "blocks" /\ source' = d /\ doc' = d /\ rope' = <<>> /\ walking' = <<>>
      /\ output' = <<>> /\ endnotes' = <<>> /\ rawnotes' = rawnotes /\ docs < MaxDocs
  BY DEF StartDocument
<1>2. \A t \in Tags : rawnotes[t] # None => Only(BodyOf[rawnotes[t]], {"link"})
  <2>1. CASE MaxDocs <= 1
    <3>1. docs = 0
      BY <1>1, <2>1, ConversionAssumption
    <3> QED BY <3>1 DEF Delivering, Nothing
  <2>2. CASE docs # 0 /\ Documents \subseteq Promised
    BY <2>2 DEF Delivering, Here
  <2>3. CASE docs = 0
    BY <2>3 DEF Delivering, Nothing
  <2> QED BY <2>1, <2>2, <2>3
<1>3. Ahead' /\ DOMAIN endnotes' = {}
  BY <1>1 DEF Ahead
<1>4. /\ Marks(rope') = {} /\ Marks(walking') = {} /\ Marks(output') = {}
      /\ Numbers(output', "entry") = {} /\ Numbers(walking', "entry") = {}
  BY <1>1, NoNumber DEF Marks
<1> HIDE DEF Ahead, Only, Marks
<1> QED BY <1>1, <1>2, <1>3, <1>4 DEF Here

LEMMA HereStep ==
  ASSUME TypeOK, Sources, Numbered, Here, doc \in Promised, Next, UNCHANGED <<doc, docs>>,
         Writer = "html", CallsComeFirst
  PROVE  Here'
<1>1. Endnotes
  BY DEF Endnotes
<1>2. ASSUME NEW d \in Documents, StartDocument(d) PROVE FALSE
  BY <1>2 DEF StartDocument, TypeOK
<1>3. CASE RegisterLink
  <2>1. /\ AtPiece("link_def") /\ UNCHANGED <<pc, source, rope, walking, rawnotes, endnotes, output>>
    BY <1>3 DEF RegisterLink
  <2>2. pc = "blocks"
    BY <2>1, PromisedPiece
  <2> QED BY <2>1, <2>2, AsideHere DEF Here
<1>4. CASE RegisterNote
  <2> DEFINE g == normalize_tag[source[pos].label]
             b == source[pos].arg
  <2>1. /\ AtPiece("note_def") /\ UNCHANGED <<pc, source, rope, walking, endnotes, output>>
        /\ rawnotes' = [rawnotes EXCEPT ![g] = b]
    BY <1>4 DEF RegisterNote, DefineNote
  <2>2. pc = "blocks" /\ Only(BodyOf[b], {"link"})
    BY <2>1, PromisedPiece
  <2>3. rawnotes \in [Tags -> Bodies \cup {None}]
    BY DEF TypeOK
  <2> HIDE DEF g, b, Only
  <2>4. \A t \in Tags : rawnotes'[t] # None => Only(BodyOf[rawnotes'[t]], {"link"})
    BY <2>1, <2>2, <2>3 DEF Here
  <2> QED BY <2>1, <2>2, <2>4, AsideHere
<1>5. CASE Defer
  <2>1. PICK k \in {"link", "note_ref"} : AtPiece(k)
    BY <1>5 DEF Defer
  <2>2. source[pos] \in SourcePieces /\ source[pos].kind = k
    BY <2>1, PieceAtHand
  <2>3. source[pos] \in Leaves /\ source[pos].kind # "mark" /\ rope \in Seq(Leaves)
    BY <2>2 DEF SourcePieces, Leaves, Thunks, TypeOK
  <2>4. rope' = Append(rope, source[pos]) /\ UNCHANGED <<pc, source, walking, rawnotes, endnotes, output>>
    BY <1>5 DEF Defer, reader
  <2>5. Marks(rope') = Marks(rope)
    BY <2>3, <2>4, AppendNumbers DEF Marks
  <2>6. pc = "note" => Only(rope', {"link"})
    <3> SUFFICES ASSUME pc = "note" PROVE Only(rope', {"link"})
      OBVIOUS
    <3>1. source[pos].kind = "link" /\ Only(rope, {"link"})
      BY <2>1, <2>2, PromisedPiece DEF Here
    <3>2. Append(rope, source[pos]) = rope \o <<source[pos]>> /\ <<source[pos]>> \in Seq(Leaves)
      BY <2>3, AppendIsConcat
    <3>3. DOMAIN <<source[pos]>> = {1} /\ <<source[pos]>>[1] = source[pos]
      OBVIOUS
    <3>4. Only(<<source[pos]>>, {"link"})
      BY <3>1, <3>3 DEF Only
    <3> QED BY <2>3, <2>4, <3>1, <3>2, <3>4, OnlyConcat
  <2>7. pc # "walk"
    BY <2>1 DEF AtPiece
  <2>8. \A t \in Tags : rawnotes'[t] # None => Only(BodyOf[rawnotes'[t]], {"link"})
    BY <2>4 DEF Here
  <2> QED BY <2>4, <2>5, <2>6, <2>7, <2>8, AsideHere
<1>6. CASE LuaMetadata
  <2>1. AtPiece("lua_m") /\ UNCHANGED <<pc, source, rope, walking, rawnotes, endnotes, output>>
    BY <1>6, CallsKeepNotes DEF LuaMetadata
  <2>2. pc = "blocks"
    BY <2>1, PromisedPiece
  <2> QED BY <2>1, <2>2, AsideHere DEF Here
<1>7. ~ParseError
  BY PromisedPiece DEF ParseError
<1>8. CASE Finish
  <2>1. /\ pc = "walk" /\ walking = <<>> /\ pc' = "idle"
        /\ UNCHANGED <<source, rope, walking, rawnotes, endnotes, output>>
    BY <1>8 DEF Finish, reader
  <2>2. ~Ahead /\ ~Ahead'
    BY <2>1, NoNumber DEF Ahead
  <2> HIDE DEF Ahead, Only, Marks
  <2> QED BY <2>1, <2>2 DEF Here
<1>9. CASE ForceLink \/ ForceUndefinedNote
  <2> DEFINE label == Head(walking).label
             r == references[normalize_tag[label]]
  <2>1. /\ walking # <<>> /\ pc = "walk" /\ Head(walking).kind \in {"link", "note_ref"}
        /\ walking' = Tail(walking) /\ UNCHANGED <<pc, source, rope, endnotes, rawnotes>>
    BY <1>9 DEF ForceLink, ForceUndefinedNote, AtLeaf, reader
  <2>2. label \in Labels
    BY <2>1, LabelAtHand
  <2>3. r \in Urls \cup {None}
    BY <2>2, ConversionAssumption DEF TypeOK
  <2>4. /\ Piece("url", label, r) \in Pieces /\ Piece("url", label, r).kind = "url"
        /\ Piece("bracketed", label, None) \in Pieces /\ Piece("bracketed", label, None).kind = "bracketed"
    BY <2>2, <2>3 DEF Piece, Pieces, Written
  <2>5. \/ output' = Append(output, Piece("url", label, r))
        \/ output' = Append(output, Piece("bracketed", label, None))
    BY <1>9 DEF ForceLink, ForceUndefinedNote
  <2> HIDE DEF label, r
  <2>6. PICK p \in Pieces : output' = Append(output, p) /\ p.kind \in {"url", "bracketed"}
    BY <2>4, <2>5
  <2> QED BY <2>1, <2>6, TailHere
<1>10. CASE WalkString
  <2>1. /\ walking # <<>> /\ pc = "walk" /\ output' = Append(output, Head(walking))
        /\ Head(walking).kind \in {"mark", "open", "close"}
        /\ walking' = Tail(walking) /\ UNCHANGED <<pc, source, rope, endnotes, rawnotes>>
    BY <1>10 DEF WalkString, AtLeaf, reader
  <2>2. Head(walking) \in Pieces
    BY <2>1, TypeWalk, WalkTail
  <2> QED BY <2>1, <2>2, TailHere
<1> QED BY <1>1, <1>2, <1>3, <1>4, <1>5, <1>6, <1>7, <1>8, <1>9, <1>10, NotesHere, EndBlocksHere,
           ForceNoteHere, ForceStopHere, WalkEntryHere DEF Next, Parse, Walk

LEMMA DeliveringStep ==
  ASSUME TypeOK, Sources, Numbered, Delivering, [Next]_vars,
         Writer = "html", CallsComeFirst, MaxDocs <= 1 \/ Documents \subseteq Promised
  PROVE  Delivering'
<1>1. ASSUME NEW d \in Documents, StartDocument(d) PROVE Delivering'
  <2>1. docs' = docs + 1 /\ docs' # 0 /\ doc' = d /\ docs \in Nat
    BY <1>1 DEF StartDocument, TypeOK
  <2>2. Here'
    BY <1>1, <2>1, StartDocumentHere
  <2> HIDE DEF Here
  <2> QED BY <2>1, <2>2 DEF Delivering
<1>2. ASSUME Next, ~\E d \in Documents : StartDocument(d) PROVE Delivering'
  <2>1. UNCHANGED <<doc, docs>> /\ pc # "idle"
    BY <1>2 DEF Next, Parse, Walk, RegisterLink, RegisterNote, Defer, InlineNote, LuaMetadata, ParseError,
                EndBlocks, Finish, ForceLink, ForceNote, ForceUndefinedNote, EndNote, ForceStop, WalkEntry,
                WalkString, AtPiece, AtLeaf, history
  <2>2. docs # 0
    BY <2>1 DEF Delivering
  <2>3. doc' \in Promised => Here'
    BY <1>2, <2>1, HereStep DEF Delivering
  <2> HIDE DEF Here
  <2> QED BY <2>1, <2>2, <2>3 DEF Delivering
<1>3. CASE UNCHANGED vars
  <2>1. /\ UNCHANGED <<pc, source, rope, walking, rawnotes>>
        /\ UNCHANGED <<endnotes, output, doc, docs>>
    BY <1>3 DEF vars, reader, history
  <2>2. Ahead' <=> Ahead
    BY <2>1 DEF Ahead
  <2>3. Here' <=> Here
    <3> HIDE DEF Ahead, Only, Marks
    <3> QED BY <2>1, <2>2 DEF Here
  <2> HIDE DEF Here
  <2> QED BY <2>1, <2>3 DEF Delivering
<1> QED BY <1>1, <1>2, <1>3

(* When html has converted a promised document, each note the text has a   *)
(* number for is among the notes at the end, and no other: for any notes   *)
(* with links in them, wherever they are.  A document that follows one     *)
(* with other notes is left out: they are still there for its references.  *)
THEOREM PromisedNotesAreDelivered ==
  ASSUME Writer = "html", CallsComeFirst, MaxDocs <= 1 \/ Documents \subseteq Promised
  PROVE  Spec => []PromisedNotesDelivered
<1>1. Init => Delivering
  <2> SUFFICES ASSUME Init PROVE Delivering
    OBVIOUS
  <2>1. /\ rope = <<>> /\ walking = <<>> /\ output = <<>> /\ endnotes = <<>> /\ rawnotes = Nothing
        /\ pc = "idle" /\ docs = 0
    BY DEF Init
  <2>2. /\ Marks(rope) = {} /\ Marks(walking) = {} /\ Marks(output) = {} /\ DOMAIN endnotes = {}
        /\ \A k : Numbers(output, k) = {} /\ Numbers(walking, k) = {}
    BY <2>1, NoNumber DEF Marks
  <2>3. ~Ahead /\ Only(walking, {"link", "entry"})
    BY <2>1, <2>2 DEF Ahead, Only
  <2>4. \A t \in Tags : rawnotes[t] = None
    BY <2>1 DEF Nothing
  <2>5. Here
    <3> HIDE DEF Ahead, Only, Marks
    <3> QED BY <2>1, <2>2, <2>3, <2>4 DEF Here
  <2> HIDE DEF Here
  <2> QED BY <2>1, <2>5 DEF Delivering
<1>2. TypeOK /\ Sources /\ Numbered /\ Delivering /\ [Next]_vars => Delivering'
  BY DeliveringStep
<1>3. Delivering => PromisedNotesDelivered
  <2> SUFFICES ASSUME Delivering, doc \in Promised, pc = "idle"
               PROVE  Numbers(output, "entry") = Numbers(output, "mark")
    BY DEF PromisedNotesDelivered, NotesDelivered
  <2>1. Here /\ walking = <<>>
    BY DEF Delivering, Here
  <2>2. Numbers(walking, "entry") = {} /\ ~Ahead
    BY <2>1, NoNumber DEF Ahead
  <2>3. Marks(output) = DOMAIN endnotes /\ Numbers(output, "entry") = DOMAIN endnotes
    <3> HIDE DEF Ahead, Marks
    <3> QED BY <2>1, <2>2 DEF Here
  <2> QED BY <2>3 DEF Marks
<1> QED BY <1>1, <1>2, <1>3, NumberedInvariance, TypeCorrect, SourcesInvariance, PTL DEF Spec
=============================================================================
