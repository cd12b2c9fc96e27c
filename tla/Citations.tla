----------------------------- MODULE Citations ------------------------------
(***************************************************************************)
(* From the captures of the citation grammar to the commands of a writer.  *)
(*                                                                         *)
(* The grammar leaves a flat list with four captures for each citation:    *)
(* what stands before it, a dash, its key, and what stands after it.       *)
(* larsers.citations makes a list of tables of it, and writer.citations    *)
(* goes through that list.  The three LaTeX styles and the generic writer  *)
(* do it differently; each decides from the citation at hand and from what *)
(* it has left open whether to open or to close something.                 *)
(***************************************************************************)
EXTENDS Naturals, Sequences, FiniteSets

CONSTANTS
  Keys,     (* keys of citations                                              *)
  Notes,    (* texts before and after a citation, parsed                      *)
  Empty,    (* the capture ""                                                 *)
  Dash,     (* the capture "-"                                                *)
  None,     (* nil                                                            *)
  MaxCites  (* bound: citations in one string                                 *)

ASSUME CitationsAssumption ==
  /\ Cardinality({Empty, Dash, None}) = 3
  /\ {Empty, Dash, None} \cap (Keys \cup Notes) = {}
  /\ MaxCites \in Nat \ {0}

Styles == {"latex", "natbib", "biblatex", "generic"}
Captures == Keys \cup Notes \cup {Empty, Dash}

VARIABLES
  style,       (* the option `citations` of the LaTeX writer, or another one  *)
  text_cites,  (* an in-text citation, not one in brackets                    *)
  raw_cites,   (* the captures so far                                         *)
  out          (* what writer.citations has returned, None before             *)

vars == <<style, text_cites, raw_cites, out>>

(* Output: commands and punctuation, keys, and notes.                      *)
Sign(s) == [kind |-> "sign", value |-> s]
Key(c) == [kind |-> "key", value |-> c.name]
Note(n) == [kind |-> "note", value |-> n]
Signs == {"{", "}", "[", "]", ";", ",", "~", "-", "@", "cite", "citet", "citep", "citetext",
          "citeyear", "citeyearpar", "citealt", "citealp", "textcite", "textcites",
          "autocite", "autocite*", "autocites"}
Tokens == [kind : {"sign"}, value : Signs] \cup [kind : {"key"}, value : Keys]
            \cup [kind : {"note"}, value : Notes]

When(b, tokens) == IF b THEN tokens ELSE <<>>
Written(n) == When(n # None, <<Note(n)>>)
Bracketed(n) == <<Sign("[")>> \o Written(n) \o <<Sign("]")>>
Braced(c) == <<Sign("{"), Key(c), Sign("}")>>

-----------------------------------------------------------------------------
(* The tables of larsers.citations.                                        *)

normalize(capture) == IF capture = Empty THEN None ELSE capture

Cite(m) ==
  [prenote |-> normalize(raw_cites[m]), name |-> raw_cites[m + 2],
   suppress_author |-> raw_cites[m + 1] = Dash, postnote |-> normalize(raw_cites[m + 3])]

Cites == [n \in 1 .. Len(raw_cites) \div 4 |-> Cite(4 * n - 3)]

(* A rope with these parts, flattened.                                     *)
Joined(parts) ==
  LET buffer[n \in 0 .. Len(parts)] == IF n = 0 THEN <<>> ELSE buffer[n - 1] \o parts[n]
  IN  buffer[Len(parts)]

-----------------------------------------------------------------------------
(* LaTeX.                                                                  *)

(* A mutant of HasNotes: only what follows the key counts.                 *)
HasPostnote(c) == c.postnote # None

HasNotes(c) == c.prenote # None \/ c.postnote # None

(* A mutant of citation_optargs: without the empty second argument.        *)
OptargsOne(c) ==
  When(c.prenote # None, Bracketed(c.prenote)) \o When(c.postnote # None, Bracketed(c.postnote))

citation_optargs(c) ==
  When(c.prenote # None, Bracketed(c.prenote)) \o When(HasNotes(c), Bracketed(c.postnote))

(* A citation with notes has a command of its own; one without joins the   *)
(* braces left open, or opens them.                                        *)
LatexEach(opened, c) ==
  IF HasNotes(c)
    THEN When(opened, <<Sign("}")>>)
           \o When(c.prenote # None, Written(c.prenote) \o <<Sign("~")>>)
           \o <<Sign("cite")>> \o When(c.postnote # None, Bracketed(c.postnote)) \o Braced(c)
    ELSE (IF opened THEN <<Sign(",")>> ELSE <<Sign("cite"), Sign("{")>>) \o <<Key(c)>>

(* A mutant of OpenedBraces: they stay open after a complex citation.      *)
StillOpened(opened, c) == opened \/ ~HasNotes(c)

(* opened_braces after a citation. *)
OpenedBraces(opened, c) == ~HasNotes(c)

LatexCites(cites) ==
  LET opened[n \in 0 .. Len(cites)] == n # 0 /\ OpenedBraces(opened[n - 1], cites[n])
  IN  Joined([n \in DOMAIN cites |-> LatexEach(opened[n - 1], cites[n])])
        \o When(opened[Len(cites)], <<Sign("}")>>)

(* The scan of natbib stops at the first citation with notes or with       *)
(* suppress_author == not last_suppressed, where not nil is true.          *)
LastSuppressed(cites, n) == n > 1 /\ cites[n - 1].suppress_author

(* A mutant of IsComplex: only notes make a string complex.                *)
ComplexByNotes(cites) == \E n \in DOMAIN cites : HasNotes(cites[n])

IsComplex(cites) ==
  \E n \in DOMAIN cites :
    \/ HasNotes(cites[n])
    \/ cites[n].suppress_author = ~LastSuppressed(cites, n)

NatbibSingle(c) ==
  <<Sign(CASE text_cites -> "citet"
           [] ~text_cites /\ c.suppress_author -> "citeyearpar"
           [] OTHER -> "citep")>> \o citation_optargs(c) \o Braced(c)

NatbibComplex(n, c) ==
  When(n # 1, <<Sign(";")>>)
    \o <<Sign(CASE c.suppress_author -> "citeyear"
                [] ~c.suppress_author /\ text_cites -> "citealt"
                [] OTHER -> "citealp")>> \o citation_optargs(c) \o Braced(c)

NatbibSimple(n, c) == When(n # 1, <<Sign(",")>>) \o <<Key(c)>>

NatbibCites(cites) ==
  IF Len(cites) = 1 THEN NatbibSingle(cites[1])
  ELSE IF IsComplex(cites)
    THEN <<Sign("citetext"), Sign("{")>>
           \o Joined([n \in DOMAIN cites |-> NatbibComplex(n, cites[n])]) \o <<Sign("}")>>
    ELSE <<Sign(IF text_cites THEN "citet" ELSE "citep"), Sign("{")>>
           \o Joined([n \in DOMAIN cites |-> NatbibSimple(n, cites[n])]) \o <<Sign("}")>>

BiblatexEach(n, c) == citation_optargs(c) \o Braced(c)

BiblatexCites(cites) ==
  IF Len(cites) = 1
    THEN <<Sign(CASE text_cites -> "textcite"
                  [] ~text_cites /\ cites[1].suppress_author -> "autocite*"
                  [] OTHER -> "autocite")>> \o BiblatexEach(1, cites[1])
    ELSE <<Sign(IF text_cites THEN "textcites" ELSE "autocites")>>
           \o Joined([n \in DOMAIN cites |-> BiblatexEach(n, cites[n])])

-----------------------------------------------------------------------------
(* The generic writer, which writes Markdown.                              *)

GenericKey(c) == When(c.suppress_author, <<Sign("-")>>) \o <<Sign("@"), Key(c)>>

(* The first citation in the text opens a bracket for what follows its key.*)
GenericEach(n, c) ==
  CASE n = 1 /\ text_cites ->
         GenericKey(c) \o When(c.postnote # None, <<Sign("["), Note(c.postnote)>>)
    [] n = 1 /\ ~text_cites ->
         <<Sign("[")>> \o Written(c.prenote) \o GenericKey(c) \o Written(c.postnote)
    [] OTHER -> <<Sign(";")>> \o Written(c.prenote) \o GenericKey(c) \o Written(c.postnote)

GenericCites(cites) ==
  Joined([n \in DOMAIN cites |-> GenericEach(n, cites[n])])
    \o When(~text_cites \/ cites[1].postnote # None, <<Sign("]")>>)

-----------------------------------------------------------------------------
Init ==
  /\ style \in Styles
  /\ text_cites \in BOOLEAN
  /\ raw_cites = <<>>
  /\ out = None

MaybeNote == Notes \cup {Empty}

(* parsers.citation_name and citation_headless_body up to the first ;      *)
TextCitation ==
  /\ text_cites /\ raw_cites = <<>>
  /\ \E dash \in {Empty, Dash}, key \in Keys, post \in MaybeNote :
       raw_cites' = <<Empty, dash, key, post>>
  /\ UNCHANGED <<style, text_cites, out>>

(* parsers.citation_body_chunk                                             *)
BodyChunk ==
  /\ out = None
  /\ text_cites => raw_cites # <<>>
  /\ Len(raw_cites) < 4 * MaxCites
  /\ \E pre, post \in MaybeNote, dash \in {Empty, Dash}, key \in Keys :
       raw_cites' = raw_cites \o <<pre, dash, key, post>>
  /\ UNCHANGED <<style, text_cites, out>>

(* larsers.citations calls writer.citations.                               *)
WriteCitations ==
  /\ out = None /\ raw_cites # <<>>
  /\ out' = CASE style = "latex"    -> LatexCites(Cites)
              [] style = "natbib"   -> NatbibCites(Cites)
              [] style = "biblatex" -> BiblatexCites(Cites)
              [] style = "generic"  -> GenericCites(Cites)
  /\ UNCHANGED <<style, text_cites, raw_cites>>

Next == TextCitation \/ BodyChunk \/ WriteCitations

Spec == Init /\ [][Next]_vars

-----------------------------------------------------------------------------
(* What a reader of the output makes of it, token by token.                *)
(*   open    the braces and brackets that are open, innermost first        *)
(*   nested  each one that was closed was the innermost one                *)
(*   args    the optional arguments since the last key                     *)
(*   text    a note before a key, outside of them                          *)
(*   bare    a command or a dash since the last key suppresses the author  *)
(*   near    whether the last token was a key, or a comma after a key      *)
(*   behind  a key has come, and no semicolon or text of the document since*)
(*   found   the citations found                                           *)
Fresh == [open |-> <<>>, nested |-> TRUE, args |-> <<>>, text |-> None, bare |-> FALSE,
          near |-> "other", behind |-> FALSE, found |-> <<>>]

(* Of two optional arguments the first is the note before the citation; a  *)
(* single one, or the second, is the note after it.  Plain \cite has only  *)
(* one, and a note before it stands before it, as it does in a bracket of   *)
(* Markdown.                                                               *)
PrenoteRead(r) == IF style \in {"latex", "generic"} THEN r.text
                  ELSE IF Len(r.args) = 2 THEN r.args[1] ELSE None
PostnoteRead(r) == IF r.args = <<>> THEN None ELSE r.args[Len(r.args)]

ReadKey(r, name) ==
  [open |-> r.open, nested |-> r.nested, args |-> <<>>, text |-> None, bare |-> FALSE,
   near |-> "key", behind |-> TRUE,
   found |-> Append(r.found, [prenote |-> PrenoteRead(r), name |-> name, postnote |-> PostnoteRead(r),
                              bare |-> r.bare, joined |-> r.near = "comma"])]

InBrackets(open) == open # <<>> /\ Head(open) = "["

(* In Markdown a note stands in brackets, and belongs to the key before it *)
(* unless a semicolon stands between them: what follows a key up to its    *)
(* bracket is citation_headless_body.  Outside of brackets @key is a       *)
(* citation of its own, and everything else is text of the document.       *)
ReadNote(r, note) ==
  CASE style = "generic" /\ ~InBrackets(r.open) -> [r EXCEPT !.near = "other", !.behind = FALSE]
    [] style = "generic" /\ InBrackets(r.open) /\ r.behind ->
         [r EXCEPT !.near = "other", !.found[Len(r.found)].postnote = note]
    [] style # "generic" /\ InBrackets(r.open) -> [r EXCEPT !.near = "other", !.args[Len(r.args)] = note]
    [] OTHER -> [r EXCEPT !.near = "other", !.text = note]

Opening(s) == IF s = "}" THEN "{" ELSE "["

ReadSign(r, s) ==
  [open   |-> IF s \in {"{", "["} THEN <<s>> \o r.open
              ELSE IF s \in {"}", "]"} /\ r.open # <<>> THEN Tail(r.open) ELSE r.open,
   nested |-> r.nested /\ (s \in {"}", "]"} => r.open # <<>> /\ Head(r.open) = Opening(s)),
   args   |-> IF s = "[" THEN Append(r.args, None) ELSE r.args,
   text   |-> r.text,
   bare   |-> r.bare \/ s \in {"citeyear", "citeyearpar", "-"},
   near   |-> IF s = "," /\ r.near = "key" THEN "comma" ELSE "other",
   behind |-> r.behind /\ s # ";",
   found  |-> r.found]

ReadToken(r, t) == CASE t.kind = "key"  -> ReadKey(r, t.value)
                     [] t.kind = "note" -> ReadNote(r, t.value)
                     [] t.kind = "sign" -> ReadSign(r, t.value)

Scan(r, tokens) ==
  LET read[p \in 0 .. Len(tokens)] == IF p = 0 THEN r ELSE ReadToken(read[p - 1], tokens[p])
  IN  read[Len(tokens)]

Found == Scan(Fresh, out).found

-----------------------------------------------------------------------------
(* The braces and the brackets of the output are properly nested.          *)
WellBraced ==
  out # None => LET end == Scan(Fresh, out) IN end.nested /\ end.open = <<>>

(* The generic writer opens no bracket for a string in the text whose first*)
(* citation has no note after its key.                                     *)
Bracketless == style = "generic" /\ text_cites /\ raw_cites[4] = Empty

(* Whatever commands citations are grouped into, the output holds every    *)
(* key of the document, in order, each with its own notes before and after *)
(* as the target language reads them.  Only without brackets do the notes  *)
(* become text of the document; they are nobody else's then.               *)
NotesKept ==
  out # None =>
    /\ Len(Found) = Len(raw_cites) \div 4
    /\ \A n \in DOMAIN Found :
         /\ Found[n].name = raw_cites[4 * n - 1]
         /\ Found[n].prenote = IF Bracketless THEN None ELSE normalize(raw_cites[4 * n - 3])
         /\ Found[n].postnote = IF Bracketless THEN None ELSE normalize(raw_cites[4 * n])

(* A dash before a key suppresses its author and no other: in brackets     *)
(* always with natbib and in Markdown, and in strings of several also in   *)
(* the text.  (A single \citet, biblatex and plain LaTeX cannot or do not.) *)
AuthorsSuppressed ==
  /\ out # None
  /\ \/ style = "generic"
     \/ style = "natbib" /\ (~text_cites \/ Len(raw_cites) > 4)
  => \A n \in DOMAIN Found : Found[n].bare <=> raw_cites[4 * n - 2] = Dash

(* Neighbours share a command only if nothing would be lost by it, and     *)
(* then they do: with plain LaTeX two without notes, with natbib if no     *)
(* citation of the string has notes or a dash.                             *)
Plain(n) == raw_cites[4 * n - 3] = Empty /\ raw_cites[4 * n] = Empty
Grouping ==
  out # None /\ style \in {"latex", "natbib"} =>
    \A n \in 2 .. Len(Found) :
      Found[n].joined
        <=> IF style = "latex" THEN Plain(n - 1) /\ Plain(n)
            ELSE \A m \in DOMAIN Found : Plain(m) /\ raw_cites[4 * m - 2] = Empty
=============================================================================
