# lunamark, specified

lunamark converts Markdown to HTML, LaTeX, ConTeXt, DocBook, man and other
formats.  `lunamark.reader.markdown.new(writer, options)` makes a *converter*:
a function from text to text that shares state with its reader (tables of
references and notes) and with its writer (notes collected, sections open,
metadata).  The grammar is written with LPEG, and the standalone build bundles
LPEG and Lua 5.1.5 in C.  This directory holds TLA+ models of the converter's
state, of the command line program, and of the parts of LPEG and Lua that the
converter rests on; TLC runs on small instances; and TLAPS proofs for all
instances.

## Inventory

| component | state | operations | hard because | status |
|---|---|---|---|---|
| conversion (`reader/markdown.lua`, `util.lua`) | `references`, `rawnotes` (upvalues of the reader), the rope | `parse_markdown`, `register_link`, `indirect_link`, `register_note`, `lookup_note`, `walk` | two passes; functions in the rope run later, parse text, fail and define things in their turn; re-entry by `m` of the Lua metadata | `Conversion` |
| notes of the writers (`html.lua`, `man.lua`, `latex.lua`, `docbook.lua`, `context.lua`) | `endnotes` | `start_document`, `note`, `stop_document` | some look at the notes in the walk, some before it; the list is copied while it may still grow | `Conversion` |
| section containers (`xml.lua`, `html.lua`, `docbook.lua`) | `header_level_stack` | `start_section`, `stop_section` from `header` and `stop_document` | nothing in the document ends a section; a failed conversion leaves the stack behind; headers inside blocks | `Sections` |
| citations (`markdown.lua`, `latex.lua`, `generic.lua`) | grouping state of a loop | `citations` | consecutive citations are merged into one command under several conditions | `Citations` |
| command line (`bin/lunamark`) | options, extensions, templates | option loop, extension merging, output | options from three places, a shared table, files opened in an order | `Cli` |
| ropes (`util.lua`) | none | `walk`, `flatten`, `intersperse`, `rope_last` | nil in the middle, functions that return ropes | partly, in `Conversion` |
| LPEG (`standalone/lpeg.c`) | code, stack of choices and calls, list of captures | constructors, `match` | code is optimized while it is joined; captures are a flat list that failures cut | `LpegCode`, `LpegPatterns`, `LpegCaptures`, `Lpeg` |
| Lua: garbage collector (`lgc.c`, `lfunc.c`, `lstring.c`) | colours, gray lists, lists of objects | a step of the collector; barriers | a step may come between any two operations of the program; weak tables, finalizers, open upvalues, resurrection of strings | `LuaGC` |
| Lua: tables (`ltable.c`) | array part, node part with chains | `luaH_get`, `luaH_set`, `luaH_next`, `luaH_getn`, rehash | collisions move nodes, assignments move keys between the parts, the collector leaves dead keys behind | `LuaTable` |
| Lua: compiler (`lparser.c`, `lcode.c`) | registers, jump lists, scopes | the parser | jump lists are threaded through the code; expressions are discharged late | `LuaParser`, `LuaCode` |
| Lua: virtual machine, calls, errors (`lvm.c`, `ldo.c`, `ltm.c`) | stack, frames, upvalues | the instructions, calls, returns, `pcall` | multiple results, tail calls, metamethods, errors that unwind | `LuaVM` |
| Lua: checker, compiled chunks (`ldebug.c`, `ldump.c`, `lundump.c`) | none | `luaG_checkcode`, dump, load | writer and reader agree on every field; the machine trusts the checker | `LuaCheck`, `LuaDump` |
| Lua: sort (`ltablib.c`) | ranges that wait, the array | `table.sort` | the comparison is a function of the program and may be no order, or fail | `LuaSort` |
| Lua: string, table and base functions (`lstrlib.c`, `ltablib.c`, `lbaselib.c`) | a match and its captures | matching, replacing, table functions | backtracking, positions at both ends, errors in called functions | `LuaStrings`, `LuaLib` |
| fenced divs (`markdown.lua`) | `div_level`, a named capture | begin, end, `fenced_div_out` | nesting is decided by a counter carried through captures | not modelled |
| block and inline grammar | LPEG patterns | matching | text, not state | not modelled |
| fixed strings of the writers, entities, module tables | none | functions from strings to strings | - | not modelled |
| Lua: API, other libraries, loader, lexer; slnunicode | - | accessors, I/O, functions of their arguments | - | not modelled |
| build of `standalone/`, `bin/lunadoc`, `bin/shtest`, templates | - | build, tools | - | not modelled |

How they interact: the reader calls the writer while it parses (`writer.header`,
`writer.note` for an inline note, `writer.start_document`), and leaves functions
in the rope that `writer.rope_to_output` calls.  Those functions use the tables
of the reader, parse more text with the reader, and call the writer again.
There are no threads in lunamark; what makes the order of events hard is that
the same functions run in the parse, in the walk, and in a parse inside the
walk.  LPEG's machine works alone.  Below all of it, the collector of Lua takes
its steps between any two operations of the program, and the functions of the
libraries call back into the program.

The hazards this leads to, each with its line, are in `PROJECT.json`
("hazards"), with the properties that cover them or the reason why none does.

## Modules

### The converter and its program

`Sections.tla` - the writer's stack of section levels.  One action per call:
`Header` (the call of `stop_section`), `CloseSection` (one turn of its loop),
`StartSection`, `StopDocument`, `Finish`, `Fail` (an error in a nested parse).
`tags` is the list of elements open in the output; with it the model sees what
the code cannot: whether an end tag matches.  `EnterBlock` and `LeaveBlock` are
the blocks with tags of their own that a header may sit in.

`Conversion.tla` - one converter and the documents it gets one after the other.
A document is a sequence of *pieces*: link definitions, note definitions, link
and note references, inline notes, Lua comments that call `m`, text in error.
`pc` says what runs: `blocks` (parse_blocks on the document), `walk`
(rope_to_output), `note` (parse_blocks on the text of a note, inside the walk).

| code | action |
|---|---|
| `parse_markdown` up to `parse_blocks` | `StartDocument(d)` |
| `register_link`, `register_note` | `RegisterLink`, `RegisterNote` |
| `indirect_link` and `lookup_note` return a function | `Defer` |
| `larsers.InlineNote` | `InlineNote` |
| `lua_metadata` with a call of `m` | `LuaMetadata` |
| `create_parser`'s `error`, `pcall` in `walk` | `ParseError` |
| `writer.stop_document()`, then `rope_to_output` | `EndBlocks` |
| the function of `indirect_link` | `ForceLink` |
| the function of `lookup_note`: found, parsed and `writer.note` / not found | `ForceNote`, the parse, `EndNote` / `ForceUndefinedNote` |
| the function of `Html.stop_document` | `ForceStop` |
| `walk` on an entry of the list of notes, on strings | `WalkEntry`, `WalkString` |
| `parse_markdown` returns | `Finish` |

`Writer` chooses when the notes are looked at: `html` in the walk, `man` when
parse_blocks returns, `latex` (and context, docbook, which have the same shape)
writes them in place.  Ropes are flat sequences of pieces: `walk` and `flatten`
only care for the order of the leaves.  A call of `m` is modelled by what it
leaves behind when its text has no references and notes: `references` made anew
unless the caller has given a table, no notes numbered, `rawnotes` as it was; the
sections it closes are not in this module.  `indirect_image` is `indirect_link` with another
function of the writer and is not told apart from it.

`Rendering.tla` - the abstract specification: a document goes in and its
rendering comes out, piece by piece.  `Rendered` is written without passes or
tables: each reference against the whole document, each note by its number.
It is exact for documents whose notes hold links only and whose calls of `m`
come before what they would take away (`Promised`).

`Citations.tla` - from the captures of the citation grammar to what
`writer.citations` returns, in the LaTeX styles and the generic one.  The
grammar adds citations one by one (`TextCitation`, `BodyChunk`), and
`WriteCitations` is `larsers.citations`.  The properties read the output again
(`Scan`, token by token) the way LaTeX packages and Markdown do, without looking
at how it was written; in Markdown, what stands outside of brackets and is no key
is plain text.  Keys and notes are atoms.  That biblatex drops the dash of a
citation in a string of several, and plain LaTeX and `\textcite` always, is what
the tests of the repository expect.

`Cli.tla` - one run of `bin/lunamark`, a step for each of its stages in their
order; `Err` is `util.err` and every uncaught error.  Contents of files are
lists of the files they come from.  `--help`, `--version`, line endings, the
environment of a template (`timestamp`, `sources`) and the escaping of the first
value of a key are left out.  `-0 -Xall` switches nothing on, since `all` stands
for the extensions in a table that `-0` empties: `ExtensionsAsAsked` says what
`all` does exactly.

`MCConversion.tla`, `MCRendering.tla`, `MCCli.tla` - instances: labels `a` and
`A` with one tag and `b` with another, two targets, seven note texts, and sets
of all documents up to a length over chosen pieces; command lines in three
groups (extensions, files, template data).  `MCRendering` has the refinement
`Renders`: a conversion under `busy <- pc # "idle"` implements `Rendering`.

### LPEG

`LpegCode.tla` is the part of `lpeg.c` that joins and optimizes code,
`LpegPatterns.tla` the constructors that Lua calls, `Lpeg.tla` the machine, one
action for each instruction, and `LpegCaptures.tla` the values of a match.
`Peg.tla` is the reference: what an expression means, from its structure, with
no instructions and no list of captures.  `MatchMeansPeg` compares outcome and
captures.  An instruction takes one place whatever its operand; character sets
are sets.  `lpeg.setmaxstack`, `lpeg.type` and the printing of patterns are left
out.

### Lua

`LuaGC.tla` - the collector, with a program that creates objects, stores them
in tables, variables, upvalues and metatables, and lets them go.  The fields of
the structs are functions of addresses; the lists that link objects (`rootgc`,
`gray`, `grayagain`, `weak`, `tmudata`) are sets, of which `First` takes one: TLC
checks one order, the proofs use no more of `First` than that what it takes is
in the set.  `singlestep` has one action for each state of the
collector; `Program` one for each kind of operation.  `atomic` is in parts, one
for each call of `propagateall` in it: the variable `atomic` says how far it has
come, and the program waits until it is "no" again.  A table has one node, a
closure one upvalue, environments are the table of globals, and a sweep takes
one object at a time (the code up to 40).  How much is collected when (debt,
thresholds), prototypes and the shrinking of stacks are left out.

`LuaTable.tla` - one table, the program that assigns and loops, and the
collector that leaves dead keys or empties weak entries.  `LuaMap.tla` is what a
table promises: a map, and loops that visit each entry once and end when none is
left, unless the program leaves them; `IsMap` is the refinement, with the steps of
`next` among those of a loop.  Nodes are numbered, and the chains are the links between them
(`From`).  `resize` puts the old entries with `Put`, which has no further rehash:
there is room for all of them, as `RoomForAll` proves.

`LuaParser.tla` and `LuaCode.tla` compile trees of statements to instructions,
`LuaCheck.tla` is the checker of compiled code, `LuaDump.tla` writes and reads
it, `LuaVM.tla` runs it (an action for each instruction), `LuaLib.tla` and
`LuaStrings.tla` are the functions a program finds.  `LuaReference.tla` and
`LuaPatterns.tla` say what a program and a pattern mean, from the text and the
manual: `CodeMeansSource` compares what the program does to its host.
`MCLuaVM.tla` has the programs, each written above its tree.  Left out:
coroutines, hooks, the limits of the C stack, line numbers and names, the text
of error messages (there is one), numbers other than integers and nan,
`string.format`, sizes given to NEWTABLE as hints.  An error is raised and
handled in two steps that follow one another; an error in an error handler is
handled once (the code calls the handler again until the C stack overflows).

`LuaSort.tla` - `table.sort`, a step for each comparison.  The cells next to the
array are nil; a comparison function that changes the table is left out.

### Proofs

`SequenceFacts.tla` has lemmas about sequences and induction over the naturals
with sets; `Sections_proofs`, `Conversion_proofs`, `Citations_proofs`,
`Cli_proofs`, `LuaSort_proofs`, `LuaTable_proofs` and `LuaGC_proofs` prove
theorems about the module they are named after.

## Runs

| run | shows | bounds |
|---|---|---|
| sections | levels on the stack increase, the open sections are those no later header has ended, tags balance unless a header sits in a block, no two containers at once with `slides`, a conversion that ends leaves nothing open | 4 levels, 4 headers, one block at a time, 2 documents of which the first may fail: enough for a skipped level, a return to it, and a stack left over |
| citations | nesting, no key and no note lost but the notes Markdown has no bracket for, authors suppressed where a dash stands, commands shared exactly where nothing is lost by it | 2 keys, 2 notes, 3 citations: a simple one before and after a complex one |
| cli | the last mention of an extension counts; success means that all input has been converted; repeated keys | lists of up to 3 extension items, 3 inputs, 4 fields; files missing, locked, or output and input in one |
| latex | links resolve to the last definition of the document, in the text and in notes written in place | all documents up to 4 pieces: two spellings of a label, definition before, after and twice, a table of the caller that survives calls of `m` |
| html | the promise of `Rendering` with notes at the end; every number has its note; numbers unique with notes in notes, in a circle, and in error; every conversion ends; what a call of `m` leaves: the definitions of links after it, for links on both sides, and all texts of notes | all documents up to 4 pieces, one group with notes that hold links, one with notes of all kinds, one with links and notes around calls of `m`, one call or several, without a table of the caller |
| lpeg | a match does what the expression means; the stacks stay in bounds and in order; no capture a pending choice relies on is changed; every match ends | two characters, patterns of up to three constructors over chosen operands, all operators; limits of `lpeg.c` made small (bytes count to 3, 8 stack entries, 2 captures before a list grows) |
| gc | nothing reachable is freed or about to be, no black object refers to a white one while marking, finalizers run once and before death, garbage is freed | 5 addresses, 3 operations, from six heaps with weak tables, finalizers, open upvalues and a coroutine |
| table | keys are at home or chained from home, `#` is a border, a table is a map, the array part is well used after a rehash, loops end | numbers 1, 2 and 4, a name and an object whose hashes collide |
| vm | the assertions of compiler and machine hold, code means what its text means | the programs of `MCLuaVM`, all conditions of three operands in three contexts, all patterns of two or three items; constants of the code small enough for their limits to be met (2 constants as operands, 2 fields a flush, 4 metamethods in a chain, 3 captures) |
| sort | sorted at the end, nothing lost or read beyond the cells next to the array, depth logarithmic, it ends | up to six elements with orders, all functions of two elements and nil with four and five, functions that answer at random |

Two runs end in a violation; each shows a place where the code does not do what
the documentation or a comment in it says (see "findings"):

| run | what happens |
|---|---|
| leaking | a second document by the same converter sees notes of the first, and its links if the caller gave a table |
| lpeg_any | `P(2)*P(1)^-1` is compiled to a test for three characters and fails where it should match |

Fairness.  `FairSpec` of `Conversion` says that a conversion that has begun goes
on: it is one call of a Lua function, so every step of it is taken; nothing is
assumed about the caller, who need not convert another document.  In `LuaSort`
the C loop goes on whenever the function it calls returns; in `Lpeg` a match
that has begun is carried on; in `LuaTable` a loop of the program is.  `LuaGC`
assumes that a step of the collector is taken again and again, since a program
that goes on allocates, and every allocation may start one; nothing is assumed
about which operations the program performs.

`CHECK_DEADLOCK FALSE` where the system may stop: a converter after `MaxDocs`
documents, a program that has exited, citations that are written, a match that
is over.

Known departures of the code that no run here shows, met while modelling:

* A note referred to from a note has a number in the output of html, and no
  text: the list of notes is copied when its walk begins.  Hence `Promised`.
* The man writer makes that list before the walk, so that notes defined in
  blocks have numbers and are never printed.
* A link definition in a note is not seen by the links walked before it:
  `LinksResolve` and the theorems below leave such documents out.
* `bin/lunamark:218` says that Lua metadata "can occur anywhere in a document",
  but `m` is `parse_markdown` itself (`markdown.lua:1546`): a call drops the
  definitions of links above it, unless the caller has given a table (the command
  line gives none), and with html and man the notes numbered above it.
  `LinksResolve` says which definitions a link still finds, `Promised` and
  `NumbersUnique` where a comment does no harm (`NothingReset`): before the first
  definition and the first inline note.  A new `rawnotes` in `parse_markdown`, so
  that it is cleared between documents, would extend the harm to all notes.
* `generic.lua:301` writes citations in the text, `@k1 [; n1 @k2 n2]`, without
  brackets when the first has no note after it: `@k1; n1 @k2 n2`.  The grammar
  (`markdown.lua:1294`) reads the keys of that, and the notes as plain text.
  `citations-echo.test` expects this output, so that `NotesKept` states it: all
  keys, and the notes of all other strings (`Bracketless`).
* With latex, notes that refer to one another in a circle never end.
* `data[k] = table.insert(data[k],v)` (`bin/lunamark:724`): the third value of a
  key makes the field nil, a fourth ends the program; `DataOfPairs` says what
  one and two values do.
* `lpeg.c:1555`: `separateparts` takes 1 for the offset of a choice:
  `((P(2)*P'a' + S'') + P'b'):match("bbb")` gives 3.  A rule that starts with
  `P(-1)` and then calls itself is not found to be left recursive.
* `lgc.c`: userdata that wait for finalizers stay black through a sweep, and a
  userdata without `__gc` that only a finalized one refers to is marked as
  finalized, so that a `__gc` it gets later never runs; both are beyond the
  bounds of the run.
* `lgc.c:177`: `traversetable` returns before it looks at the nodes of a table
  whose keys and values are both weak, so that a key without a value is not
  marked dead there and may outlive its object; `NoDangling` counts a key only
  where there is a value.
* `ltable.c:11` says that the array part is used at least half, `computesizes`
  asks for more than half.  Assigning nil to a key that is absent may rehash.
* `lstrlib.c:183`: `)` is not among the special characters, so that
  `("")` with `find(")")` is a plain search while `match` raises an error.
* `manual.html` 2.8 says `__newindex` is called for any absent key of a table,
  but `t[nil] = v` raises an error before, since `luaV_settable` looks the key up
  with `luaH_set`; of a value that is no table it is called for any key.
* `table.sort` with a function that is no order may read the cells next to the
  array and swap nil into it, and with answers that change may never end.

## Proofs

TLAPS proves, for every value of the constants that satisfies their assumptions:

* `Sections_proofs`: `TypeCorrect`, `StackIncreases`, `SlidesAreFlat`,
  `OutlineCorrect`, `TagsBalance`, `EndsEmpty`.  The stack increases because
  `stop_section` takes every level off that is not smaller than the new one,
  which needs the stack to be increasing already: the invariant is inductive
  only as a whole.  `TagsBalance` rests on `BalancedInv`: the open elements are
  first the sections of the stack and then the blocks, and while sections are
  being closed there is no block.
* `Conversion_proofs`: `TypeCorrect`, which includes that the function of
  `stop_document` is the last leaf of the walk and that every note about to be
  walked is in the copy of the list; `LinksAreResolved`, that a reference finds
  the last definition of its label in the whole document that no call of `m`
  takes away.  Its invariant `LinkInv` says that while blocks are parsed the
  table is the latest of the pieces read, and from then on of the document.  Its
  hypothesis, `TextsLeaveLinks`, is that no note defines links or, when there is
  no table of the caller's, calls `m`.
* `Conversion_proofs`, on notes: `NumbersAreUnique`.  The writer hands out numbers in both
  passes, and marks move from the rope to the walk, into the contents of notes
  and to the output.  The invariant `Numbered` says that a number is in one
  place at a time: `Numbering` keeps the marks of the rope, of the walk, of the
  output and of the contents of the notes still to be written (`Pending`)
  apart, and `Queued` that a note is in the walk once, as it was copied.
  Hypothesis (`CallsComeFirst`): notes do not call `m`, and documents only before
  their first inline note, or the writer does not number notes; such a call finds
  no note to take away (`FirstNote`).
  `PromisedNotesAreDelivered`: with html, after a document whose
  notes hold links only, the notes at the end are those the text has numbers
  for.  The invariant `Delivering` follows the conversion in two halves: while
  the thunk of `stop_document` is ahead every note has a mark in the rope, the
  walk or the output and none is written; from then on nothing makes a note.
  It is false with man, whose list is made too early, and for a document that
  follows one with other notes, which are still in `rawnotes`: hence
  `MaxDocs <= 1 \/ Documents \subseteq Promised`.
* `Citations_proofs`: `CitationsAreWellBraced`, `CitationsAreAllWritten`,
  `DashesSuppressAuthors`, `CommandsAreShared`, for any number of citations, keys
  and notes.  `IInv` says that the captures come in quadruples, that a citation
  in the text begins with an empty note, and that the output is what the style
  makes of the captures.  The work is in what the reader of the output makes of
  it: `Reads(q, tokens, r)` says that it goes from state q to r, is proved for
  each sign and then for each part a style writes, and `ReadsAll` puts the parts
  together by an induction over the citations.  What a style has open after n
  citations (`opened_braces`, the bracket of the generic writer) is a function
  of n there.  `ReadsGenericBare` is the case without brackets, in which keys are
  found and notes are not.  The theorems follow from one lemma, `OutputRead`, for the four
  styles; `SimpleMeansPlain` is the induction behind the scan of natbib.
* `Cli_proofs`: `ConversionIsDelivered`, `ExtensionsAreAsAsked`,
  `DataAreOfPairs`, for command lines of any length and any files.  `Delivery`
  says how much of the input has been read at each stage and that nothing
  before the last one writes the output; `Extending` that after m items the
  table is what the last mention among them says (`Said`, `Asked`); `Filling`
  that after m pairs each field is what the pairs with its key make of it.
* `LuaSort_proofs`: `ElementsAreKept` for any function, order or not, and arrays
  of any length, from `Inv`: the loops stay in the range (`Place`), the array
  has the elements it had (`SameElements`), and with an order the pivot stops
  the loops at both ends (`Sentinels`).  `DepthIsBounded`: of the two parts the
  code sorts the smaller one by a call and the larger one by going on, so that
  what d calls wait for is at most the array halved d times (`Halved`).
  `SortSorts`: with a strict weak order the array is sorted at the end, since
  `Order` says that two cells are in order unless they are
  both in one of the ranges still to be sorted (`Separated`), that these ranges
  do not overlap (`Apart`), and what the loops have put on each side (`Divided`).
* `LuaTable_proofs`: `EntriesAreFound`, `TableIsMap`, `LengthIsBorder`,
  `SizesAreWellChosen` and `NextNeverFails`, for any keys, hashes and sizes and
  programs of any length: all that the run checks but that loops end.  The
  properties are not inductive; `IInv` is.  Its part `Sound` is about the table:
  * `Straight`: no two nodes lead to the same one and no chain comes back, so
    that a chain is the least set with its first node that the links stay in
    (`FromClosed`), and `PutAfter` and `PutInPlace` say what the chains are after
    the two ways of `newkey` to take a free node.
  * `AtHome` and `InChain`: the main position of each key has a node that is at
    home, and the key is in the chain of that one.  This is the invariant that
    `ltable.c:15` states, and dead keys must have it too: their nodes still link.
  * `LiveFirst`: a key that is not dead comes before dead ones like it, or `next`
    would go on from the wrong one of two nodes with the same key.
  * `FreeApart` and `FullAbove`: what has no key is in no chain, and all of it is
    below `lastfree`; `Apart` and `ArrayOfInts`: the two parts share no key.

  `PutStores` and `ResizeKeeps` show that assignments and rehashes keep `Sound` and
  change the value of one key or none.  The second is an induction over the old
  entries, and rests on `RoomForAll`: a table with as many nodes as there are
  keys to put never lacks a free one, for live keys are in different nodes.  The
  other part of `IInv`, `Looped`, says that a loop has visited the entries up to
  the place that `findindex` gives for its key, and no others: from it come the
  steps of loops in `TableIsMap`, the last one included, which finds nothing left, and `NextNeverFails`, which says that a loop
  never gets "invalid key to 'next'" although its key may be cleared and dead.
  The assumption `TableAssumption` says of the keys what the code does: there are
  finitely many, integers that fit an int and others, with hashes that are
  naturals.
* `LuaGC_proofs`: `NothingReachableIsFreed`, `NothingDangles`, `ThreeColours`,
  `TypeCorrect`, for any number of objects, texts, coroutines and operations,
  and any heap at the beginning whose references lead to objects and which has
  one string for a text (`HeapsAssumption`).  The properties themselves are not
  inductive; `IInv` is, and there is a lemma for each action.
  * `HeapInv`: what is alive (not of the other white) refers to what is alive
    only.  It gives the first two theorems, by an induction over the length of a
    path, and is what makes it right to free the dead.
  * `OpenInv`: an open upvalue, even a dead one, has its slot in the stack of a
    thread that exists, and is never black: its value changes with the stack,
    without a barrier.
  * `RunningInv`: the main thread and each coroutine that was resumed and has
    not yielded are alive, because each is held by an argument of `resume` that
    no upvalue can assign to (`Holds`).
  * `TmuInv`: userdata that wait for a finalizer are alive and finalized.
  * `SweepInv`: what a sweep has passed is of the current white, and outside a
    sweep nothing is dead: else the next flip would make the dead alive again,
    with fields that dangle.
  * `MarkInv`: the three colours.  `ListInv`: what is gray is in exactly one of
    the lists (an object in two would be traversed with a list already given
    up); `BlackInv`: a black object refers to nothing white; `GrayInv`: in
    `atomic`, what is gray and not in a list still to be emptied (`Todo`) keeps
    nothing white; `RootInv`: the roots are marked.  When the last list is empty
    they say that what is not white refers to nothing white, except for weak
    entries, which is what `ClearWeakStep` needs at the flip.
  * `ColourInv`: a thread is never black, a userdata never gray.

  The step that marks is common to many actions: `Marking` says what
  `reallymarkobject` does to the colours, `MarksKeep` that it keeps the rest.
  Those of the program share `Growth` (something is pushed) and
  `AssignmentKeeps` (something is assigned, with a barrier).

Induction over the naturals is done with sets (`NatSetInduction`,
`NatRecursion` of `SequenceFacts`): the theorems of the library take operators.

Only model-checked:

* what must happen eventually (`Terminates`, `SortEnds`, `MatchEnds`,
  `LoopEnds`, `GarbageFreed`): liveness and ENABLED are out of the prover's
  reach;
* `Renders`: `Rendered` is made by the folds of the community modules, which take
  operators;
* `FinalizedOnceBeforeDeath`: it is false for larger heaps (the departure of
  `lgc.c` above), so that there is nothing to prove;
* the properties of `Lpeg` and the modules behind `vm`: their algorithms are
  recursive operators, as they are in the code.

## Plan

1. `Sections`, `Conversion`, `Rendering`, `Citations`,
   `Cli` with proofs - done.
2. `Lpeg`, `LuaGC`, `LuaTable`, the compiler and the machine, `LuaSort` - done.
3. The colours and the safety of `LuaGC`, and `LuaTable` as a map, proved - done.
4. Next models: `FencedDivs` (the counter of open divs), ropes with holes,
   headers in notes (a composition of `Sections` and `Conversion`).
