-------------------------------- MODULE Cli ---------------------------------
(***************************************************************************)
(* The program bin/lunamark: one run from its command line to its exit.    *)
(*                                                                         *)
(* The order of the steps is what can be got wrong here.  Extensions come  *)
(* from defaults, an environment variable and an option, and writer and    *)
(* reader share one table of them.  The output file is opened, and with    *)
(* that emptied, before the layout is checked and the input is read.       *)
(***************************************************************************)
EXTENDS Naturals, Sequences, FiniteSets, FiniteSetsExt

CONSTANTS
  Commands,  (* what the program is called with, see CommandAssumption        *)
  Names,     (* names of extensions                                           *)
  Files,     (* names of files, "stdin" and "stdout" among them               *)
  Locked,    (* those that cannot be opened for writing                       *)
  Present,   (* those that exist when the program starts                      *)
  Templates, (* names find_template finds a file for                          *)
  Keys,      (* keys of the data for a template                               *)
  None       (* no exit status yet                                            *)

(* One item of a list of extensions: x, +x and -x, x=parameter, +x=parameter. *)
Values == {"on", "off", "parameter"}
Items == [name : Names \cup {"all"}, val : Values \cup {"illegal"}]

ASSUME CommandAssumption ==
  /\ \A c \in Commands :
       /\ c.to \in STRING /\ c.layout \in {"legal", "illegal"} /\ c.strict \in BOOLEAN
       /\ c.env \in Seq(Items) /\ c.X \in Seq(Items)
       /\ c.inputs \in Seq(Files \ {"stdin", "stdout"}) /\ c.output \in Files \ {"stdin"}
       /\ c.standalone \in BOOLEAN /\ c.template \in STRING
       /\ c.data \in Seq(Keys)
       /\ c.metadata \in SUBSET Keys
  /\ "all" \notin Names /\ {"containers", "slides"} \subseteq Names
  /\ {"stdin", "stdout"} \subseteq Files /\ "stdin" \in Present
  /\ None \notin Nat

VARIABLES
  cmd,         (* the command, with the metadata its document turns out to have *)
  pc,          (* the next step                                               *)
  i,           (* the next item, input or pair of data                        *)
  extensions,  (* the table of extensions; nil is "absent"                    *)
  files,       (* contents of all files                                       *)
  inp,         (* texts read so far                                           *)
  data,        (* fields for the template                                     *)
  status       (* exit status                                                 *)

vars == <<cmd, pc, i, extensions, files, inp, data, status>>

(* Contents: what a file held at the start, nothing, or a conversion of a  *)
(* list of contents.                                                       *)
Text(f) == [kind |-> "text", of |-> <<f>>]
Missing == [kind |-> "missing", of |-> <<>>]
Emptied == [kind |-> "empty", of |-> <<>>]
Result(texts, template) == [kind |-> "result", of |-> texts, template |-> template]

(* Fields: nil, a string, or a list, with the positions in the option      *)
(* --data its values come from; 0 is the metadata of the document.         *)
Nil == [kind |-> "nil", of |-> <<>>]
String(v) == [kind |-> "string", of |-> <<v>>]
List(values) == [kind |-> "list", of |-> values]

Formats == {"markdown", "html", "html5", "dzslides", "docbook", "latex", "context", "man"}
Writers == Formats \ {"markdown"}

Init ==
  /\ cmd \in Commands
  /\ pc = "to" /\ i = 1
  /\ extensions = [x \in Names |-> "absent"]
  /\ files = [f \in Files |-> IF f \in Present THEN Text(f) ELSE Missing]
  /\ inp = <<>>
  /\ data = [k \in Keys |-> Nil]
  /\ status = None

Goto(step) == pc' = step /\ i' = 1 /\ UNCHANGED <<cmd, status>>

(* util.err, and an error nobody catches. *)
Err(code) ==
  /\ pc' = "exit" /\ status' = code
  /\ UNCHANGED <<cmd, i, extensions, files, inp, data>>

-----------------------------------------------------------------------------
(* Options.                                                                *)

Defaults(to) ==
  [x \in Names |-> IF x = "citation_nbsps" \/ (x = "containers" /\ to \in {"docbook", "dzslides"})
                     THEN "on" ELSE "off"]

CheckTo ==
  /\ pc = "to"
  /\ IF cmd.to \notin Formats THEN Err(1)
     ELSE /\ extensions' = IF cmd.strict THEN extensions ELSE Defaults(cmd.to)
          /\ Goto("extensions")
          /\ UNCHANGED <<files, inp, data>>

(* A mutant of extensions_opt: the option comes before the environment.    *)
OptionFirst == cmd.X \o cmd.env

extensions_opt == cmd.env \o cmd.X

Extension ==
  /\ pc = "extensions" /\ i \in DOMAIN extensions_opt
  /\ LET item == extensions_opt[i] IN
     IF item.val = "illegal" THEN Err(1)
     ELSE /\ extensions' =
               [x \in Names |->
                  IF item.name = x \/ (item.name = "all" /\ extensions[x] # "absent")
                    THEN item.val ELSE extensions[x]]
          /\ i' = i + 1
          /\ UNCHANGED <<cmd, pc, files, inp, data, status>>

ExtensionsDone ==
  /\ pc = "extensions" /\ i \notin DOMAIN extensions_opt
  /\ Goto("output")
  /\ UNCHANGED <<extensions, files, inp, data>>

-----------------------------------------------------------------------------
(* Files.                                                                  *)

OpenOutput ==
  /\ pc = "output"
  /\ IF cmd.output \in Locked THEN Err(9)
     ELSE /\ files' = [files EXCEPT ![cmd.output] = IF cmd.output = "stdout" THEN @ ELSE Emptied]
          /\ Goto("writer")
          /\ UNCHANGED <<extensions, inp, data>>

(* The layout, then the writer; dzslides changes the table it is given.    *)
NewWriter ==
  /\ pc = "writer"
  /\ IF cmd.layout = "illegal" \/ cmd.to \notin Writers THEN Err(1)
     ELSE /\ extensions' = IF cmd.to = "dzslides" THEN [extensions EXCEPT !["slides"] = "on"]
                           ELSE extensions
          /\ Goto("input")
          /\ UNCHANGED <<files, inp, data>>

Args == IF cmd.inputs = <<>> THEN <<"stdin">> ELSE cmd.inputs

ReadInput ==
  /\ pc = "input" /\ i \in DOMAIN Args
  /\ IF files[Args[i]] = Missing THEN Err(7)
     ELSE /\ inp' = inp \o files[Args[i]].of
          /\ i' = i + 1
          /\ UNCHANGED <<cmd, pc, extensions, files, data, status>>

(* parse(inp) returns the document's metadata too, or ends in an error.    *)
Parse ==
  /\ pc = "input" /\ i \notin DOMAIN Args
  /\ \/ Err(1)
     \/ /\ data' = [k \in Keys |-> IF k \in cmd.metadata THEN String(0) ELSE Nil]
        /\ Goto("template")
        /\ UNCHANGED <<extensions, files, inp>>

-----------------------------------------------------------------------------
(* Templates and their data.                                               *)

(* A mutant of Template: --standalone goes before --template.              *)
StandaloneFirst ==
  CASE cmd.standalone -> "default"
    [] cmd.template # "" /\ ~cmd.standalone -> cmd.template
    [] OTHER -> "none"

Template ==
  CASE cmd.template # "" -> cmd.template
    [] cmd.template = "" /\ cmd.standalone -> "default"
    [] OTHER -> "none"

FindTemplate ==
  /\ pc = "template"
  /\ IF cmd.template # "" /\ cmd.template \notin Templates THEN Err(1)
     ELSE /\ Goto(IF Template = "none" THEN "write" ELSE "data")
          /\ UNCHANGED <<extensions, files, inp, data>>

Earlier(k) == Cardinality({n \in 1 .. i - 1 : cmd.data[n] = k})

(* A mutant of Repeated: the values are joined to one string.              *)
RepeatedJoined(field, n) == [field EXCEPT !.of = Append(@, i)]

(* A field whose key has come n times before.  table.insert changes the    *)
(* list and returns nothing, and that is assigned.                         *)
Repeated(field, n) == IF n = 1 THEN List(Append(field.of, i)) ELSE Nil

DataPair ==
  /\ pc = "data" /\ i \in DOMAIN cmd.data
  /\ LET k == cmd.data[i] IN
     IF Earlier(k) > 1 /\ data[k] = Nil THEN Err(1)
     ELSE /\ data' = [data EXCEPT ![k] = IF Earlier(k) = 0 THEN String(i)
                                         ELSE Repeated(@, Earlier(k))]
          /\ i' = i + 1
          /\ UNCHANGED <<cmd, pc, extensions, files, inp, status>>

DataDone ==
  /\ pc = "data" /\ i \notin DOMAIN cmd.data
  /\ Goto("write")
  /\ UNCHANGED <<extensions, files, inp, data>>

Write ==
  /\ pc = "write"
  /\ files' = [files EXCEPT ![cmd.output] = Result(inp, Template)]
  /\ pc' = "exit" /\ status' = 0
  /\ UNCHANGED <<cmd, i, extensions, inp, data>>

Next == CheckTo \/ Extension \/ ExtensionsDone \/ OpenOutput \/ NewWriter \/ ReadInput
          \/ Parse \/ FindTemplate \/ DataPair \/ DataDone \/ Write

Spec == Init /\ [][Next]_vars

-----------------------------------------------------------------------------
PCs == {"to", "extensions", "output", "writer", "input", "template", "data", "write", "exit"}

(* What was said last of an extension counts, whether by its name or by    *)
(* `all`, and the option is read after the environment.  `all` stands for  *)
(* every extension, but after --strict only for those named before it.     *)
(* Reader and writer see the same extensions, with slides for dzslides.    *)
ExtensionsAsAsked ==
  pc \in {"input", "template", "data", "write"} =>
    LET said == cmd.env \o cmd.X
        about(x) == {n \in DOMAIN said :
                       \/ said[n].name = x
                       \/ /\ said[n].name = "all"
                          /\ cmd.strict => \E m \in 1 .. n - 1 : said[m].name = x}
    IN  \A x \in Names :
          extensions[x] = IF x = "slides" /\ cmd.to = "dzslides" THEN "on"
                          ELSE IF about(x) # {} THEN said[Max(about(x))].val
                          ELSE IF cmd.strict THEN "absent" ELSE Defaults(cmd.to)[x]

(* A run that reports success has written the conversion of everything it  *)
(* was given, as it was when the run began and in that order, in the       *)
(* template asked for: unless the output is one of the inputs, which is    *)
(* then empty when it is read.                                             *)
ConversionDelivered ==
  status = 0 /\ cmd.output \notin {cmd.inputs[n] : n \in DOMAIN cmd.inputs} =>
    /\ files[cmd.output].of = IF cmd.inputs = <<>> THEN <<"stdin">> ELSE cmd.inputs
    /\ files[cmd.output].template = IF cmd.template # "" THEN cmd.template
                                    ELSE IF cmd.standalone THEN "default" ELSE "none"

(* A key given once has its value, one given twice, as in the example of   *)
(* the documentation, the list of both, whatever the metadata of the       *)
(* document says; the others have what it says.  A third value makes the   *)
(* field nil (bin/lunamark:724), and a fourth ends the program.            *)
DataOfPairs ==
  pc = "write" /\ Template # "none" =>
    \A k \in Keys :
      LET given == {n \in DOMAIN cmd.data : cmd.data[n] = k}
      IN  /\ given = {} => data[k] = IF k \in cmd.metadata THEN String(0) ELSE Nil
          /\ \A n \in given : given = {n} => data[k] = String(n)
          /\ \A m, n \in given : m < n /\ given = {m, n} => data[k] = List(<<m, n>>)
=============================================================================
