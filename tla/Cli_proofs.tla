----------------------------- MODULE Cli_proofs -----------------------------
(***************************************************************************)
(* The order of the steps of bin/lunamark is right for every command line: *)
(* with any number of extensions, inputs and pairs of data, and any        *)
(* contents of the files.                                                  *)
(*                                                                         *)
(* The invariant says how far the loop of each step has come: the          *)
(* extensions are what the items before i ask for, inp has the texts of    *)
(* the inputs before i, and the fields are those of the pairs before i.    *)
(***************************************************************************)
EXTENDS Cli, SequenceFacts, FiniteSetTheorems

Initially(f) == IF f \in Present THEN Text(f) ELSE Missing
NotAnInput   == cmd.output \notin {cmd.inputs[n] : n \in DOMAIN cmd.inputs}
Contents     == [kind : {"text", "missing", "empty", "result"}, of : Seq(Files)]

\* Steps before and after the loop over the inputs.
Before == {"to", "extensions", "output", "writer"}
After  == {"template", "data", "write"}

Typed == cmd \in Commands /\ pc \in PCs /\ i \in Nat \ {0}

\* The texts that are read when the output is not an input.
Reading == NotAnInput =>
  /\ \A f \in Files \ {cmd.output} : files[f] = Initially(f)
  /\ inp \in Seq(Files)
  /\ pc \in Before => inp = <<>>
  /\ pc = "input" => /\ i <= Len(Args) + 1 /\ Len(inp) = i - 1
                     /\ \A n \in 1 .. i - 1 : inp[n] = Args[n]
  /\ pc \in After => inp = Args
Written == /\ pc # "exit" => status = None
           /\ status = 0 /\ NotAnInput => files[cmd.output] = Result(Args, Template)
Delivery == Typed /\ DOMAIN files = Files /\ Reading /\ Written

\* What the items before the m-th say of x.
Said(x, m) == {n \in 1 .. m - 1 : \/ extensions_opt[n].name = x
                                  \/ /\ extensions_opt[n].name = "all"
                                     /\ cmd.strict => \E o \in 1 .. n - 1 : extensions_opt[o].name = x}
Asked(x, m) == IF Said(x, m) # {} THEN extensions_opt[Max(Said(x, m))].val
               ELSE IF cmd.strict THEN "absent" ELSE Defaults(cmd.to)[x]
AllAsked(slides) ==
  extensions = [x \in Names |-> IF slides /\ x = "slides" /\ cmd.to = "dzslides" THEN "on"
                                ELSE Asked(x, Len(extensions_opt) + 1)]
Extending ==
  /\ pc = "to" => extensions = [x \in Names |-> "absent"]
  /\ pc = "extensions" =>
       /\ i <= Len(extensions_opt) + 1
       /\ extensions = [x \in Names |-> Asked(x, i)]
       /\ \A x \in Names : extensions[x] # "absent" <=>
                             ~cmd.strict \/ \E o \in 1 .. i - 1 : extensions_opt[o].name = x
  /\ pc \in {"output", "writer"} => AllAsked(FALSE)
  /\ pc \in {"input"} \cup After => AllAsked(TRUE)

\* The fields when the pairs before the m-th are filled in.
Pairs(k, m) == {n \in 1 .. m - 1 : cmd.data[n] = k}
FieldOf(k, m) ==
  /\ Pairs(k, m) = {} => data[k] = IF k \in cmd.metadata THEN String(0) ELSE Nil
  /\ \A n \in Pairs(k, m) : Pairs(k, m) = {n} => data[k] = String(n)
  /\ \A q, n \in Pairs(k, m) : q < n /\ Pairs(k, m) = {q, n} => data[k] = List(<<q, n>>)
Filling ==
  /\ DOMAIN data = Keys
  /\ pc = "template" => \A k \in Keys : FieldOf(k, 1)
  /\ pc = "data" => i <= Len(cmd.data) + 1 /\ \A k \in Keys : FieldOf(k, i)
  /\ pc = "write" /\ Template # "none" => \A k \in Keys : FieldOf(k, Len(cmd.data) + 1)

-----------------------------------------------------------------------------
(* What is known of a command.                                             *)
LEMMA CommandFacts ==
  ASSUME cmd \in Commands
  PROVE  /\ extensions_opt \in Seq(Items) /\ Len(extensions_opt) \in Nat
         /\ DOMAIN extensions_opt = 1 .. Len(extensions_opt)
         /\ Args \in Seq(Files) /\ Len(Args) \in Nat /\ DOMAIN Args = 1 .. Len(Args)
         /\ cmd.data \in Seq(Keys) /\ Len(cmd.data) \in Nat /\ DOMAIN cmd.data = 1 .. Len(cmd.data)
         /\ cmd.output \in Files
         /\ NotAnInput => \A n \in 1 .. Len(Args) : Args[n] \in Files \ {cmd.output}
<1>1. /\ cmd.env \in Seq(Items) /\ cmd.X \in Seq(Items) /\ cmd.data \in Seq(Keys)
      /\ cmd.inputs \in Seq(Files \ {"stdin", "stdout"}) /\ cmd.output \in Files \ {"stdin"}
      /\ "stdin" \in Files
  BY CommandAssumption
<1>2. extensions_opt \in Seq(Items)
  BY <1>1, ConcatProperties DEF extensions_opt
<1>3. CASE cmd.inputs = <<>>
  <2>1. Args = <<"stdin">>
    BY <1>3 DEF Args
  <2>2. Args \in Seq(Files) /\ Len(Args) = 1 /\ Args[1] = "stdin"
    BY <1>1, <2>1
  <2> QED BY <1>1, <1>2, <2>2, LenProperties
<1>4. CASE cmd.inputs # <<>>
  <2>1. Args = cmd.inputs
    BY <1>4 DEF Args
  <2>2. Args \in Seq(Files)
    BY <1>1, <2>1, SeqMonotonic
  <2>3. DOMAIN Args = 1 .. Len(Args) /\ Len(Args) \in Nat
    BY <2>2, LenProperties
  <2>4. \A n \in 1 .. Len(Args) : Args[n] \in Files
    BY <2>2, ElementOfSeq
  <2>5. NotAnInput => \A n \in 1 .. Len(Args) : Args[n] # cmd.output
    BY <2>1, <2>3 DEF NotAnInput
  <2> QED BY <1>1, <1>2, <2>2, <2>3, <2>4, <2>5, LenProperties
<1> QED BY <1>3, <1>4

LEMMA TemplateIs ==
  ASSUME cmd \in Commands
  PROVE  Template = IF cmd.template # "" THEN cmd.template
                    ELSE IF cmd.standalone THEN "default" ELSE "none"
<1>1. cmd.standalone \in BOOLEAN
  BY CommandAssumption
<1>2. CASE cmd.template # ""
  BY <1>2 DEF Template
<1>3. CASE cmd.template = "" /\ cmd.standalone
  BY <1>3 DEF Template
<1>4. CASE cmd.template = "" /\ ~cmd.standalone
  BY <1>4 DEF Template
<1> QED BY <1>1, <1>2, <1>3, <1>4

(* What does not change with the command.                                  *)
LEMMA SameCommand ==
  ASSUME UNCHANGED cmd
  PROVE  /\ NotAnInput' = NotAnInput /\ Args' = Args /\ Template' = Template
         /\ extensions_opt' = extensions_opt
         /\ \A x, m : Said(x, m)' = Said(x, m) /\ Asked(x, m)' = Asked(x, m)
         /\ \A k, m : Pairs(k, m)' = Pairs(k, m)
<1>1. NotAnInput' = NotAnInput /\ Args' = Args /\ Template' = Template /\ extensions_opt' = extensions_opt
  BY DEF NotAnInput, Args, Template, extensions_opt
<1>2. \A x, m : Said(x, m)' = Said(x, m)
  BY <1>1 DEF Said
<1>3. \A x, m : Asked(x, m)' = Asked(x, m)
  BY <1>1, <1>2 DEF Asked, Defaults
<1>4. \A k, m : Pairs(k, m)' = Pairs(k, m)
  BY DEF Pairs
<1> QED BY <1>1, <1>2, <1>3, <1>4

LEMMA TypedStep ==
  ASSUME Typed, Next
  PROVE  Typed' /\ UNCHANGED cmd
<1>1. UNCHANGED cmd
  BY DEF Next, CheckTo, Extension, ExtensionsDone, OpenOutput, NewWriter, ReadInput, Parse, FindTemplate,
         DataPair, DataDone, Write, Err, Goto
<1>2. i' \in {1, i, i + 1}
  BY DEF Next, CheckTo, Extension, ExtensionsDone, OpenOutput, NewWriter, ReadInput, Parse,
         FindTemplate, DataPair, DataDone, Write, Err, Goto
<1>3. pc' \in PCs
  BY DEF Typed, PCs, Next, CheckTo, Extension, ExtensionsDone, OpenOutput, NewWriter, ReadInput, Parse,
         FindTemplate, DataPair, DataDone, Write, Err, Goto
<1> QED BY <1>1, <1>2, <1>3 DEF Typed

-----------------------------------------------------------------------------
(* The files and the texts.                                                *)
LEMMA SequencesEqual ==
  ASSUME NEW S, NEW s \in Seq(S), NEW t \in Seq(S), Len(s) = Len(t), \A n \in 1 .. Len(s) : s[n] = t[n]
  PROVE  s = t
BY SeqEqual

LEMMA InitDelivery ==
  ASSUME Init
  PROVE  Delivery
<1>1. Typed
  BY DEF Init, Typed, PCs
<1>2. DOMAIN files = Files /\ \A f \in Files : files[f] = Initially(f)
  BY DEF Init, Initially
<1>3. inp = <<>> /\ inp \in Seq(Files) /\ pc = "to" /\ status = None
  BY EmptySeq DEF Init
<1>4. status # 0
  BY <1>3, CommandAssumption
<1> QED BY <1>1, <1>2, <1>3, <1>4 DEF Delivery, Reading, Written, Before, After

LEMMA ErrDelivery ==
  ASSUME Delivery, NEW code \in Nat \ {0}, Err(code)
  PROVE  Delivery'
<1>1. /\ pc' = "exit" /\ status' = code
      /\ UNCHANGED <<cmd, i, files, inp>>
  BY DEF Err
<1>2. Typed'
  BY <1>1 DEF Delivery, Typed, PCs
<1>3. Reading'
  BY <1>1, SameCommand DEF Delivery, Reading, Before, After
<1>4. Written'
  BY <1>1 DEF Written
<1> QED BY <1>1, <1>2, <1>3, <1>4 DEF Delivery

\* The steps that leave files, texts and status alone, and where they lead.
Leads == \/ pc \in Before /\ pc' \in Before
         \/ pc = "writer" /\ pc' = "input" /\ i' = 1
         \/ pc \in After /\ pc' \in After

LEMMA AsideDelivery ==
  ASSUME Delivery, UNCHANGED <<cmd, files, inp, status>>, Typed', Leads
  PROVE  Delivery'
<1>1. pc # "exit" /\ pc' # "exit"
  BY DEF Leads, Before, After
<1>2. Written'
  BY <1>1, CommandAssumption DEF Delivery, Written
<1>3. Reading'
  <2>1. SUFFICES ASSUME NotAnInput PROVE Reading'
    BY SameCommand DEF Reading
  <2>2. (\A f \in Files \ {cmd.output} : files[f] = Initially(f)) /\ inp \in Seq(Files)
    BY <2>1 DEF Delivery, Reading
  <2>3. CASE pc \in Before /\ pc' \in Before
    <3>1. pc' # "input" /\ pc' \notin After
      BY <2>3 DEF Before, After
    <3> QED BY <2>1, <2>2, <2>3, <3>1 DEF Delivery, Reading, Initially
  <2>4. CASE pc = "writer" /\ pc' = "input" /\ i' = 1
    <3>1. inp = <<>> /\ Len(inp) = 0
      BY <2>1, <2>4, EmptySeq DEF Delivery, Reading, Before
    <3>2. Len(Args) \in Nat /\ Args' = Args
      BY CommandFacts, SameCommand DEF Delivery, Typed
    <3> QED BY <2>1, <2>2, <2>4, <3>1, <3>2 DEF Reading, Before, After, Initially
  <2>5. CASE pc \in After /\ pc' \in After
    <3>1. pc' # "input" /\ pc' \notin Before
      BY <2>5 DEF Before, After
    <3> QED BY <2>1, <2>2, <2>5, <3>1, SameCommand DEF Delivery, Reading, Initially
  <2> QED BY <2>3, <2>4, <2>5 DEF Leads
<1> QED BY <1>2, <1>3 DEF Delivery

LEMMA OpenDelivery ==
  ASSUME Delivery, Typed', OpenOutput
  PROVE  Delivery'
<1>1. CASE cmd.output \in Locked
  BY <1>1, ErrDelivery DEF OpenOutput
<1>2. CASE cmd.output \notin Locked
  <2>1. /\ pc = "output" /\ pc' = "writer" /\ UNCHANGED <<cmd, status, inp>>
        /\ files' = [files EXCEPT ![cmd.output] = IF cmd.output = "stdout" THEN @ ELSE Emptied]
    BY <1>2 DEF OpenOutput, Goto
  <2>2. DOMAIN files' = Files /\ \A f \in Files \ {cmd.output} : files'[f] = files[f]
    BY <2>1 DEF Delivery
  <2>3. Reading'
    BY <2>1, <2>2, SameCommand DEF Delivery, Reading, Before, After, Initially
  <2>4. Written'
    BY <2>1, CommandAssumption DEF Delivery, Written
  <2> QED BY <2>2, <2>3, <2>4 DEF Delivery
<1> QED BY <1>1, <1>2

LEMMA ReadDelivery ==
  ASSUME Delivery, Typed', ReadInput
  PROVE  Delivery'
<1>1. CASE files[Args[i]] = Missing
  BY <1>1, ErrDelivery DEF ReadInput
<1>2. CASE files[Args[i]] # Missing
  <2>1. /\ pc = "input" /\ i \in DOMAIN Args /\ UNCHANGED <<cmd, pc, files, status>>
        /\ inp' = inp \o files[Args[i]].of /\ i' = i + 1
    BY <1>2 DEF ReadInput
  <2>2. i \in 1 .. Len(Args) /\ Len(Args) \in Nat
    BY <2>1, CommandFacts DEF Delivery, Typed
  <2>3. ASSUME NotAnInput
        PROVE  /\ inp' \in Seq(Files) /\ Len(inp') = i
               /\ \A n \in 1 .. i : inp'[n] = Args[n]
    <3>1. Args[i] \in Files \ {cmd.output}
      BY <2>2, <2>3, CommandFacts DEF Delivery, Typed
    <3>2. files[Args[i]] = Text(Args[i])
      BY <1>2, <2>3, <3>1 DEF Delivery, Reading, Initially
    <3>3. inp' = inp \o <<Args[i]>> /\ <<Args[i]>> \in Seq(Files) /\ Len(<<Args[i]>>) = 1 /\ <<Args[i]>>[1] = Args[i]
      BY <2>1, <3>1, <3>2 DEF Text
    <3>4. inp \in Seq(Files) /\ Len(inp) = i - 1 /\ \A n \in 1 .. i - 1 : inp[n] = Args[n]
      BY <2>1, <2>3 DEF Delivery, Reading
    <3>5. Append(inp, Args[i]) = inp \o <<Args[i]>>
      BY <3>1, <3>4, AppendIsConcat
    <3>6. /\ inp' \in Seq(Files) /\ Len(inp') = (i - 1) + 1
          /\ \A n \in 1 .. i - 1 : inp'[n] = inp[n]
          /\ inp'[(i - 1) + 1] = Args[i]
      BY <3>1, <3>3, <3>4, <3>5, AppendProperties
    <3>7. (i - 1) + 1 = i
      BY <2>2
    <3> QED BY <2>2, <3>4, <3>6, <3>7
  <2>4. Reading'
    <3>1. i + 1 <= Len(Args) + 1 /\ (i + 1) - 1 = i
      BY <2>2
    <3>2. ASSUME NotAnInput PROVE \A f \in Files \ {cmd.output} : files[f] = Initially(f)
      BY <3>2 DEF Delivery, Reading
    <3> QED BY <2>1, <2>3, <3>1, <3>2, SameCommand DEF Reading, Before, After, Initially
  <2>5. Written'
    BY <2>1, CommandAssumption DEF Delivery, Written
  <2> QED BY <2>1, <2>4, <2>5 DEF Delivery
<1> QED BY <1>1, <1>2

LEMMA ParseDelivery ==
  ASSUME Delivery, Typed', Parse
  PROVE  Delivery'
<1>1. CASE Err(1)
  BY <1>1, ErrDelivery
<1>2. CASE pc' = "template" /\ UNCHANGED <<cmd, status, files, inp>>
  <2>1. pc = "input" /\ i \notin DOMAIN Args /\ i \in Nat \ {0}
    BY DEF Parse, Delivery, Typed
  <2>2. Len(Args) \in Nat /\ DOMAIN Args = 1 .. Len(Args) /\ Args \in Seq(Files)
    BY CommandFacts DEF Delivery, Typed
  <2>3. ASSUME NotAnInput PROVE inp = Args
    <3>1. /\ inp \in Seq(Files) /\ i <= Len(Args) + 1 /\ Len(inp) = i - 1
          /\ \A n \in 1 .. i - 1 : inp[n] = Args[n]
      BY <2>1, <2>3 DEF Delivery, Reading
    <3>2. i - 1 = Len(Args)
      BY <2>1, <2>2, <3>1
    <3> QED BY <2>2, <3>1, <3>2, SequencesEqual
  <2>4. Reading'
    BY <1>2, <2>3, SameCommand DEF Delivery, Reading, Before, After, Initially
  <2>5. Written'
    BY <1>2, <2>1, CommandAssumption DEF Delivery, Written
  <2> QED BY <1>2, <2>4, <2>5 DEF Delivery
<1> QED BY <1>1, <1>2 DEF Parse, Goto

LEMMA WriteDelivery ==
  ASSUME Delivery, Typed', Write
  PROVE  Delivery'
<1>1. /\ pc = "write" /\ pc' = "exit" /\ status' = 0 /\ UNCHANGED <<cmd, inp>>
      /\ files' = [files EXCEPT ![cmd.output] = Result(inp, Template)]
  BY DEF Write
<1>2. cmd.output \in Files /\ Template' = Template /\ Args' = Args
  BY CommandFacts, SameCommand, <1>1 DEF Delivery, Typed
<1>3. /\ DOMAIN files' = Files /\ files'[cmd.output] = Result(inp, Template)
      /\ \A f \in Files \ {cmd.output} : files'[f] = files[f]
  BY <1>1, <1>2 DEF Delivery
<1>4. Reading'
  BY <1>1, <1>3, SameCommand DEF Delivery, Reading, Before, After, Initially
<1>5. Written'
  <2>1. NotAnInput => inp = Args
    BY <1>1 DEF Delivery, Reading, After
  <2> QED BY <1>1, <1>2, <1>3, <2>1, SameCommand DEF Written, Result
<1> QED BY <1>3, <1>4, <1>5 DEF Delivery

LEMMA DeliveryInvariance == Spec => []Delivery
<1>1. Init => Delivery
  BY InitDelivery
<1>2. Delivery /\ [Next]_vars => Delivery'
  <2> SUFFICES ASSUME Delivery, [Next]_vars PROVE Delivery'
    OBVIOUS
  <2>1. CASE Next
    <3>1. Typed' /\ UNCHANGED cmd
      BY <2>1, TypedStep DEF Delivery
    <3>2. ASSUME NEW code \in Nat \ {0}, Err(code) PROVE Delivery'
      BY <3>2, ErrDelivery
    <3>3. CASE CheckTo
      BY <3>1, <3>2, <3>3, AsideDelivery DEF CheckTo, Goto, Leads, Before
    <3>4. CASE Extension
      BY <3>1, <3>2, <3>4, AsideDelivery DEF Extension, Leads, Before
    <3>5. CASE ExtensionsDone
      BY <3>1, <3>5, AsideDelivery DEF ExtensionsDone, Goto, Leads, Before
    <3>6. CASE NewWriter
      BY <3>1, <3>2, <3>6, AsideDelivery DEF NewWriter, Goto, Leads
    <3>7. CASE FindTemplate
      <4>1. Err(1) \/ (pc = "template" /\ pc' \in {"write", "data"} /\ UNCHANGED <<files, inp, status>>)
        BY <3>7 DEF FindTemplate, Goto
      <4> QED BY <3>1, <3>2, <4>1, AsideDelivery DEF Leads, After
    <3>8. CASE DataPair
      BY <3>1, <3>2, <3>8, AsideDelivery DEF DataPair, Leads, After
    <3>9. CASE DataDone
      BY <3>1, <3>9, AsideDelivery DEF DataDone, Goto, Leads, After
    <3> QED BY <2>1, <3>1, <3>3, <3>4, <3>5, <3>6, <3>7, <3>8, <3>9, OpenDelivery, ReadDelivery,
               ParseDelivery, WriteDelivery DEF Next
  <2>2. CASE UNCHANGED vars
    BY <2>2, SameCommand DEF vars, Delivery, Typed, Reading, Written, Before, After, Initially
  <2> QED BY <2>1, <2>2
<1> QED BY <1>1, <1>2, PTL DEF Spec

(* A run that reports success has written the conversion of all its        *)
(* inputs, in their order and as they were, to the output file, in the     *)
(* template asked for: for any number of inputs and any files.             *)
THEOREM ConversionIsDelivered == Spec => []ConversionDelivered
<1>1. Delivery => ConversionDelivered
  <2> SUFFICES ASSUME Delivery, status = 0, NotAnInput
               PROVE  /\ files[cmd.output].of = IF cmd.inputs = <<>> THEN <<"stdin">> ELSE cmd.inputs
                      /\ files[cmd.output].template = IF cmd.template # "" THEN cmd.template
                                                      ELSE IF cmd.standalone THEN "default" ELSE "none"
    BY DEF ConversionDelivered, NotAnInput
  <2>1. files[cmd.output] = Result(Args, Template)
    BY DEF Delivery, Written
  <2>2. files[cmd.output].of = Args /\ files[cmd.output].template = Template
    BY <2>1 DEF Result
  <2> QED BY <2>2, TemplateIs DEF Args, Delivery, Typed
<1> QED BY <1>1, DeliveryInvariance, PTL

-----------------------------------------------------------------------------
(* The extensions.                                                         *)
LEMMA MaxOfMore ==
  ASSUME NEW m \in Nat, NEW S \in SUBSET (1 .. m - 1)
  PROVE  Max(S \cup {m}) = m
<1>1. m \in S \cup {m} /\ \A y \in S \cup {m} : m >= y
  OBVIOUS
<1>2. \A x \in S \cup {m} : (\A y \in S \cup {m} : x >= y) => x = m
  OBVIOUS
<1> QED BY <1>1, <1>2 DEF Max

\* The m-th item says something of x.
Speaks(x, m) == \/ extensions_opt[m].name = x
                \/ /\ extensions_opt[m].name = "all"
                   /\ cmd.strict => \E o \in 1 .. m - 1 : extensions_opt[o].name = x

(* What is asked for by one item more.                                     *)
LEMMA OneItemMore ==
  ASSUME NEW x, NEW m \in Nat \ {0}
  PROVE  Asked(x, m + 1) = IF Speaks(x, m) THEN extensions_opt[m].val ELSE Asked(x, m)
<1>1. Said(x, m + 1) = IF Speaks(x, m) THEN Said(x, m) \cup {m} ELSE Said(x, m)
  <2>1. \A n : n \in 1 .. (m + 1) - 1 <=> n \in 1 .. m - 1 \/ n = m
    OBVIOUS
  <2>2. \A n : n \in Said(x, m + 1) <=> n \in Said(x, m) \/ (n = m /\ Speaks(x, m))
    BY <2>1 DEF Said, Speaks
  <2> QED BY <2>2
<1>2. Said(x, m) \in SUBSET (1 .. m - 1)
  BY DEF Said
<1>3. Max(Said(x, m) \cup {m}) = m
  BY <1>2, MaxOfMore
<1>4. Said(x, m) \cup {m} # {}
  OBVIOUS
<1> HIDE DEF Said
<1> QED BY <1>1, <1>3, <1>4 DEF Asked

LEMMA NothingAsked ==
  ASSUME NEW x
  PROVE  Asked(x, 1) = IF cmd.strict THEN "absent" ELSE Defaults(cmd.to)[x]
<1>1. Said(x, 1) = {}
  BY DEF Said
<1> QED BY <1>1 DEF Asked

LEMMA InitExtending ==
  ASSUME Init
  PROVE  Extending
BY DEF Init, Extending, After

LEMMA CheckToExtending ==
  ASSUME Typed, Extending, CheckTo
  PROVE  Extending'
<1>1. CASE Err(1)
  BY <1>1 DEF Err, Extending, After
<1>2. CASE ~Err(1)
  <2>1. /\ pc = "to" /\ pc' = "extensions" /\ i' = 1 /\ UNCHANGED cmd
        /\ extensions' = IF cmd.strict THEN extensions ELSE Defaults(cmd.to)
    BY <1>2 DEF CheckTo, Goto
  <2>2. Defaults(cmd.to) = [x \in Names |-> Defaults(cmd.to)[x]]
        /\ \A x \in Names : Defaults(cmd.to)[x] # "absent"
    BY DEF Defaults
  <2>3. extensions' = [x \in Names |-> IF cmd.strict THEN "absent" ELSE Defaults(cmd.to)[x]]
    BY <2>1, <2>2 DEF Extending
  <2>4. extensions' = [x \in Names |-> Asked(x, 1)]
    BY <2>3, NothingAsked
  <2>5. 1 <= Len(extensions_opt) + 1
    BY CommandFacts DEF Typed
  <2>6. \A x \in Names : extensions'[x] # "absent" <=> ~cmd.strict
    BY <2>2, <2>3
  <2>7. \A x \in Names : ~\E o \in 1 .. 1 - 1 : extensions_opt[o].name = x
    OBVIOUS
  <2> QED BY <2>1, <2>4, <2>5, <2>6, <2>7, SameCommand DEF Extending, After
<1> QED BY <1>1, <1>2

LEMMA ExtensionExtending ==
  ASSUME Typed, Extending, Extension
  PROVE  Extending'
<1>1. CASE Err(1)
  BY <1>1 DEF Err, Extending, After
<1>2. CASE ~Err(1)
  <2> DEFINE item == extensions_opt[i]
  <2>1. /\ pc = "extensions" /\ i \in DOMAIN extensions_opt /\ item.val # "illegal"
        /\ extensions' = [x \in Names |-> IF item.name = x \/ (item.name = "all" /\ extensions[x] # "absent")
                                          THEN item.val ELSE extensions[x]]
        /\ i' = i + 1 /\ UNCHANGED <<cmd, pc>>
    BY <1>2 DEF Extension
  <2>2. i \in 1 .. Len(extensions_opt) /\ Len(extensions_opt) \in Nat /\ item \in Items
    BY <2>1, CommandFacts, ElementOfSeq DEF Typed
  <2>3. item.val # "absent" /\ "all" \notin Names
    BY <2>2, CommandAssumption DEF Items, Values
  <2>4. \A x \in Names : extensions[x] = Asked(x, i)
    BY <2>1 DEF Extending
  <2>5. \A x \in Names : extensions[x] # "absent" <=>
                           ~cmd.strict \/ \E o \in 1 .. i - 1 : extensions_opt[o].name = x
    BY <2>1 DEF Extending
  <2>6. \A x \in Names : Speaks(x, i) <=> (item.name = x \/ (item.name = "all" /\ extensions[x] # "absent"))
    BY <2>5 DEF Speaks
  <2>7. \A x \in Names : extensions'[x] = IF Speaks(x, i) THEN item.val ELSE Asked(x, i)
    BY <2>1, <2>4, <2>6
  <2>8. extensions' = [x \in Names |-> Asked(x, i + 1)]
    <3>1. \A x \in Names : Asked(x, i + 1) = extensions'[x]
      BY <2>2, <2>7, OneItemMore
    <3> QED BY <2>1, <3>1
  <2>9. ASSUME NEW x \in Names
        PROVE  extensions'[x] # "absent" <=>
                 ~cmd.strict \/ \E o \in 1 .. (i + 1) - 1 : extensions_opt[o].name = x
    <3>1. (\E o \in 1 .. (i + 1) - 1 : extensions_opt[o].name = x) <=>
            (item.name = x \/ \E o \in 1 .. i - 1 : extensions_opt[o].name = x)
      BY <2>2
    <3>2. extensions'[x] # "absent" <=> (item.name = x \/ extensions[x] # "absent")
      BY <2>1, <2>3
    <3> QED BY <2>5, <3>1, <3>2
  <2>10. i + 1 <= Len(extensions_opt) + 1
    BY <2>2
  <2> QED BY <2>1, <2>8, <2>9, <2>10, SameCommand DEF Extending, After
<1> QED BY <1>1, <1>2

LEMMA ExtensionsDoneExtending ==
  ASSUME Typed, Extending, ExtensionsDone
  PROVE  Extending'
<1>1. /\ pc = "extensions" /\ i \notin DOMAIN extensions_opt
      /\ pc' = "output" /\ UNCHANGED <<cmd, extensions>>
  BY DEF ExtensionsDone, Goto
<1>2. i = Len(extensions_opt) + 1
  BY <1>1, CommandFacts DEF Typed, Extending
<1>3. extensions = [x \in Names |-> Asked(x, Len(extensions_opt) + 1)]
  BY <1>1, <1>2 DEF Extending
<1>4. AllAsked(FALSE)'
  BY <1>1, <1>3, SameCommand DEF AllAsked
<1> QED BY <1>1, <1>4 DEF Extending, After

LEMMA NewWriterExtending ==
  ASSUME Typed, Extending, NewWriter
  PROVE  Extending'
<1>1. CASE Err(1)
  BY <1>1 DEF Err, Extending, After
<1>2. CASE ~Err(1)
  <2>1. /\ pc = "writer" /\ pc' = "input" /\ UNCHANGED cmd
        /\ extensions' = IF cmd.to = "dzslides" THEN [extensions EXCEPT !["slides"] = "on"] ELSE extensions
    BY <1>2 DEF NewWriter, Goto
  <2>2. extensions = [x \in Names |-> Asked(x, Len(extensions_opt) + 1)]
    BY <2>1 DEF Extending, AllAsked
  <2>3. AllAsked(TRUE)'
    BY <2>1, <2>2, SameCommand DEF AllAsked
  <2> QED BY <2>1, <2>3 DEF Extending, After
<1> QED BY <1>1, <1>2

\* The steps that leave the extensions alone.
LEMMA AsideExtending ==
  ASSUME Extending, UNCHANGED <<cmd, extensions>>,
         \/ pc \in {"output", "writer"} /\ pc' \in {"output", "writer"}
         \/ pc \in {"input"} \cup After /\ pc' \in {"input"} \cup After
         \/ pc' = "exit"
  PROVE  Extending'
<1>1. AllAsked(TRUE)' = AllAsked(TRUE) /\ AllAsked(FALSE)' = AllAsked(FALSE)
  BY SameCommand DEF AllAsked
<1> QED BY <1>1 DEF Extending, After

LEMMA ExtendingInvariance == Spec => []Extending
<1>1. Init => Extending /\ Typed
  BY InitExtending, InitDelivery DEF Delivery
<1>2. Delivery /\ Extending /\ [Next]_vars => Extending'
  <2> SUFFICES ASSUME Typed, Extending, [Next]_vars PROVE Extending'
    BY DEF Delivery
  <2>1. CASE OpenOutput
    BY <2>1, AsideExtending DEF OpenOutput, Goto, Err
  <2>2. CASE ReadInput
    BY <2>2, AsideExtending DEF ReadInput, Goto, Err
  <2>3. CASE Parse
    BY <2>3, AsideExtending DEF Parse, Goto, Err, After
  <2>4. CASE FindTemplate
    <3>1. pc \in After /\ pc' \in After \cup {"exit"} /\ UNCHANGED <<cmd, extensions>>
      BY <2>4 DEF FindTemplate, Goto, Err, After
    <3> QED BY <3>1, AsideExtending
  <2>5. CASE DataPair
    BY <2>5, AsideExtending DEF DataPair, Err, After
  <2>6. CASE DataDone \/ Write
    BY <2>6, AsideExtending DEF DataDone, Write, Goto, After
  <2>7. CASE UNCHANGED vars
    BY <2>7, SameCommand DEF vars, Extending, AllAsked
  <2> QED BY <2>1, <2>2, <2>3, <2>4, <2>5, <2>6, <2>7, CheckToExtending, ExtensionExtending,
             ExtensionsDoneExtending, NewWriterExtending DEF Next
<1> QED BY <1>1, <1>2, DeliveryInvariance, PTL DEF Spec

(* Reader and writer get the extensions that were asked for last, by name  *)
(* or by `all`: for environments and options of any length.                *)
THEOREM ExtensionsAreAsAsked == Spec => []ExtensionsAsAsked
<1>1. Delivery /\ Extending => ExtensionsAsAsked
  <2> SUFFICES ASSUME Typed, Extending, pc \in {"input", "template", "data", "write"}
               PROVE  ExtensionsAsAsked
    BY DEF Delivery, ExtensionsAsAsked
  <2> DEFINE said == cmd.env \o cmd.X
             about(x) == {n \in DOMAIN said :
                            \/ said[n].name = x
                            \/ /\ said[n].name = "all"
                               /\ cmd.strict => \E m \in 1 .. n - 1 : said[m].name = x}
  <2>1. Len(extensions_opt) \in Nat /\ DOMAIN extensions_opt = 1 .. (Len(extensions_opt) + 1) - 1
    BY CommandFacts DEF Typed
  <2>2. said = extensions_opt
    BY DEF extensions_opt
  <2>3. \A x : about(x) = Said(x, Len(extensions_opt) + 1)
    <3> HIDE DEF said
    <3> QED BY <2>1, <2>2 DEF Said
  <2>4. AllAsked(TRUE)
    BY DEF Extending, After
  <2> HIDE DEF said, about
  <2>5. ASSUME NEW x \in Names
        PROVE  extensions[x] = IF x = "slides" /\ cmd.to = "dzslides" THEN "on"
                               ELSE IF about(x) # {} THEN said[Max(about(x))].val
                               ELSE IF cmd.strict THEN "absent" ELSE Defaults(cmd.to)[x]
    BY <2>2, <2>3, <2>4 DEF AllAsked, Asked
  <2> QED BY <2>5 DEF ExtensionsAsAsked, said, about
<1> QED BY <1>1, DeliveryInvariance, ExtendingInvariance, PTL

-----------------------------------------------------------------------------
(* The data for the template.                                              *)
LEMMA HowMany ==
  ASSUME NEW S, IsFiniteSet(S)
  PROVE  /\ Cardinality(S) \in Nat
         /\ Cardinality(S) = 0 => S = {}
         /\ Cardinality(S) = 1 => \E m \in S : S = {m}
         /\ Cardinality(S) \notin {0, 1} => \E a, b \in S : a # b
<1>1. Cardinality(S) \in Nat
  BY FS_CardinalityType
<1>2. Cardinality(S) = 0 <=> S = {}
  BY FS_EmptySet
<1>3. Cardinality(S) = 1 <=> \E m : S = {m}
  BY FS_Singleton
<1>4. ASSUME S # {}, \A m : S # {m}
      PROVE  \E a, b \in S : a # b
  BY <1>4
<1> QED BY <1>1, <1>2, <1>3, <1>4

(* The field of the key of one pair more.                                  *)
LEMMA OnePairMore ==
  ASSUME Typed, i <= Len(cmd.data), NEW k \in Keys
  PROVE  /\ Pairs(k, i + 1) = IF k = cmd.data[i] THEN Pairs(k, i) \cup {i} ELSE Pairs(k, i)
         /\ Pairs(k, i) \in SUBSET (1 .. i - 1)
         /\ IsFiniteSet(Pairs(k, i))
<1>1. i \in Nat \ {0}
  BY DEF Typed
<1>2. \A n : n \in 1 .. (i + 1) - 1 <=> n \in 1 .. i - 1 \/ n = i
  BY <1>1
<1>3. Pairs(k, i) \in SUBSET (1 .. i - 1)
  BY DEF Pairs
<1>4. IsFiniteSet(1 .. i - 1)
  BY <1>1, FS_Interval
<1>5. IsFiniteSet(Pairs(k, i))
  BY <1>3, <1>4, FS_Subset
<1>6. \A n : n \in Pairs(k, i + 1) <=> n \in Pairs(k, i) \/ (n = i /\ k = cmd.data[i])
  BY <1>2 DEF Pairs
<1> QED BY <1>3, <1>5, <1>6

LEMMA TwoValues ==
  ASSUME NEW m \in Nat, NEW n \in Nat
  PROVE  Append(<<m>>, n) = <<m, n>>
<1>1. /\ <<m>> \in Seq(Nat) /\ Len(<<m>>) = 1 /\ <<m>>[1] = m
      /\ <<m, n>> \in Seq(Nat) /\ Len(<<m, n>>) = 2 /\ <<m, n>>[1] = m /\ <<m, n>>[2] = n
  OBVIOUS
<1>2. ASSUME NEW s \in Seq(Nat), Len(s) = 1, NEW t \in Seq(Nat), Len(t) = 2, t[1] = s[1], t[2] = n
      PROVE  Append(s, n) = t
  <2>1. /\ Append(s, n) \in Seq(Nat) /\ Len(Append(s, n)) = 2
        /\ Append(s, n)[1] = s[1] /\ Append(s, n)[2] = n
    <3>1. /\ Append(s, n) \in Seq(Nat) /\ Len(Append(s, n)) = Len(s) + 1
          /\ \A o \in 1 .. Len(s) : Append(s, n)[o] = s[o]
          /\ Append(s, n)[Len(s) + 1] = n
      BY AppendProperties
    <3> QED BY <1>2, <3>1
  <2>2. \A o \in 1 .. 2 : o = 1 \/ o = 2
    OBVIOUS
  <2> QED BY <1>2, <2>1, <2>2, SequencesEqual
<1> QED BY <1>1, <1>2

LEMMA DataPairFilling ==
  ASSUME Typed, Filling, DataPair, i \in DOMAIN cmd.data, ~Err(1)
  PROVE  Filling'
<1>a. /\ i \in 1 .. Len(cmd.data) /\ Len(cmd.data) \in Nat /\ cmd.data[i] \in Keys
      /\ i <= Len(cmd.data)
  BY CommandFacts, ElementOfSeq DEF Typed
<1>0. PICK k0 \in Keys, next \in Nat : k0 = cmd.data[i] /\ next = i + 1
  BY <1>a
<1> DEFINE P == Pairs(k0, i)
<1>1. /\ pc = "data" /\ UNCHANGED <<cmd, pc>> /\ i' = i + 1
      /\ data' = [data EXCEPT ![k0] = IF Earlier(k0) = 0 THEN String(i) ELSE Repeated(@, Earlier(k0))]
  BY <1>0 DEF DataPair
<1>3. /\ DOMAIN data = Keys /\ \A k \in Keys : FieldOf(k, i)
  BY <1>1 DEF Filling
<1>4. /\ DOMAIN data' = Keys /\ \A k \in Keys \ {k0} : data'[k] = data[k]
      /\ data'[k0] = IF Earlier(k0) = 0 THEN String(i) ELSE Repeated(data[k0], Earlier(k0))
  BY <1>1, <1>a, <1>3
<1>5. Earlier(k0) = Cardinality(P)
  BY DEF Earlier, Pairs
<1>6. P \in SUBSET (1 .. i - 1) /\ IsFiniteSet(P) /\ Pairs(k0, next) = P \cup {i}
  BY <1>0, <1>a, OnePairMore
<1>7. \A k : Pairs(k, next)' = Pairs(k, next)
  BY <1>1 DEF Pairs
<1> HIDE DEF P
<1>8. ASSUME NEW k \in Keys \ {k0} PROVE FieldOf(k, next)'
  <2>1. Pairs(k, next) = Pairs(k, i)
    BY <1>0, <1>a, OnePairMore
  <2>2. data'[k] = data[k] /\ FieldOf(k, i)
    BY <1>3, <1>4
  <2>3. (k \in cmd'.metadata) = (k \in cmd.metadata)
    BY <1>1
  <2> DEFINE Q == Pairs(k, i)
  <2>4. Q = Pairs(k, next)' /\ Q = Pairs(k, i)
    BY <1>7, <2>1
  <2> HIDE DEF Q
  <2> QED BY <2>2, <2>3, <2>4, <1>1, <1>7, <2>1 DEF FieldOf
<1>9. \/ data'[k0] = String(i) /\ P = {}
      \/ \E m \in P : P = {m} /\ data'[k0] = List(<<m, i>>)
      \/ \E a, b \in P : a # b
  <2>1. CASE Cardinality(P) = 0
    BY <1>4, <1>5, <1>6, <2>1, HowMany
  <2>2. CASE Cardinality(P) = 1
    <3>1. PICK m \in P : P = {m}
      BY <1>6, <2>2, HowMany
    <3>2. data[k0] = String(m)
      BY <1>a, <1>3, <3>1 DEF FieldOf, P
    <3>3. data'[k0] = List(Append(<<m>>, i))
      BY <1>4, <1>5, <2>2, <3>2 DEF Repeated, String
    <3>4. Append(<<m>>, i) = <<m, i>>
      <4>1. i \in Nat /\ m \in Nat
        BY <1>a, <1>6
      <4> QED BY <4>1, TwoValues
    <3> QED BY <3>1, <3>3, <3>4
  <2>3. CASE Cardinality(P) \notin {0, 1}
    BY <1>6, <2>3, HowMany
  <2> QED BY <2>1, <2>2, <2>3
<1>10. FieldOf(k0, next)'
  <2> DEFINE Q == P \cup {i}
  <2>1. Q = Pairs(k0, next)'
    BY <1>6, <1>7
  <2>2. i \in Nat /\ i \notin P /\ \A n \in P : n \in Nat /\ n < i
    BY <1>a, <1>6
  <2> DEFINE Right == /\ Q # {}
                      /\ \A n \in Q : Q = {n} => data'[k0] = String(n)
                      /\ \A q, n \in Q : q < n /\ Q = {q, n} => data'[k0] = List(<<q, n>>)
  <2>3. Right
    <3>1. CASE data'[k0] = String(i) /\ P = {}
      <4>1. Q = {i}
        BY <3>1
      <4> QED BY <2>2, <3>1, <4>1
    <3>2. ASSUME NEW m \in P, P = {m}, data'[k0] = List(<<m, i>>) PROVE Right
      <4>1. Q = {m, i} /\ m \in Nat /\ m < i
        BY <2>2, <3>2
      <4>2. \A n : Q # {n}
        BY <2>2, <4>1
      <4>3. ASSUME NEW q \in Q, NEW n \in Q, q < n PROVE q = m /\ n = i
        BY <2>2, <4>1, <4>3
      <4> QED BY <3>2, <4>1, <4>2, <4>3
    <3>3. ASSUME NEW a \in P, NEW b \in P, a # b PROVE Right
      <4>1. a \in Q /\ b \in Q /\ i \in Q /\ a # i /\ b # i
        BY <2>2
      <4>2. (\A n : Q # {n}) /\ \A q, n : Q # {q, n}
        BY <3>3, <4>1
      <4> QED BY <4>1, <4>2
    <3> QED BY <1>9, <3>1, <3>2, <3>3
  <2> HIDE DEF Q
  <2>4. FieldOf(k0, next)' <=>
          /\ Q = {} => data'[k0] = IF k0 \in cmd'.metadata THEN String(0) ELSE Nil
          /\ \A n \in Q : Q = {n} => data'[k0] = String(n)
          /\ \A q, n \in Q : q < n /\ Q = {q, n} => data'[k0] = List(<<q, n>>)
    BY <1>1, <2>1 DEF FieldOf, String, Nil, List
  <2> QED BY <2>3, <2>4
<1>11. \A k \in Keys : FieldOf(k, next)'
  BY <1>8, <1>10
<1>12. i' = next
  BY <1>0, <1>1
<1>13. (\A k \in Keys : FieldOf(k, i))'
  BY <1>11, <1>12 DEF FieldOf, Pairs
<1>14. i' <= Len(cmd'.data) + 1 /\ pc' = "data"
  BY <1>1, <1>a
<1> QED BY <1>4, <1>13, <1>14 DEF Filling

\* The steps that leave the fields alone.
LEMMA SameFields ==
  ASSUME UNCHANGED <<cmd, data>>
  PROVE  \A k, m : FieldOf(k, m)' = FieldOf(k, m)
BY SameCommand DEF FieldOf, Pairs

LEMMA FillingInvariance == Spec => []Filling
<1>1. Init => Filling
  BY DEF Init, Filling
<1>2. Delivery /\ Filling /\ [Next]_vars => Filling'
  <2> SUFFICES ASSUME Typed, Filling, [Next]_vars PROVE Filling'
    BY DEF Delivery
  <2>1. ASSUME Err(1) \/ Err(7) \/ Err(9) PROVE Filling'
    BY <2>1 DEF Err, Filling
  <2>2. CASE CheckTo \/ Extension \/ ExtensionsDone \/ OpenOutput \/ NewWriter \/ ReadInput \/ Write
    <3>1. Err(1) \/ Err(7) \/ Err(9) \/ (data' = data /\ pc' \notin {"template", "data", "write"})
      BY <2>2 DEF CheckTo, Extension, ExtensionsDone, OpenOutput, NewWriter, ReadInput, Write, Goto
    <3> QED BY <2>1, <3>1 DEF Filling
  <2>3. CASE Parse
    <3>1. CASE Err(1)
      BY <2>1, <3>1
    <3>2. CASE ~Err(1)
      <4>1. /\ data' = [k \in Keys |-> IF k \in cmd.metadata THEN String(0) ELSE Nil]
            /\ pc' = "template" /\ UNCHANGED cmd
        BY <2>3, <3>2 DEF Parse, Goto
      <4>2. \A k : Pairs(k, 1)' = {}
        BY DEF Pairs
      <4>3. \A k \in Keys : FieldOf(k, 1)'
        BY <4>1, <4>2 DEF FieldOf, String, Nil
      <4> QED BY <4>1, <4>3 DEF Filling
    <3> QED BY <3>1, <3>2
  <2>4. CASE FindTemplate
    <3>1. CASE Err(1)
      BY <2>1, <3>1
    <3>2. CASE ~Err(1)
      <4>1. /\ pc = "template" /\ UNCHANGED <<cmd, data>> /\ i' = 1
            /\ pc' = IF Template = "none" THEN "write" ELSE "data"
        BY <2>4, <3>2 DEF FindTemplate, Goto
      <4>2. \A k \in Keys : FieldOf(k, 1)'
        BY <4>1, SameFields DEF Filling
      <4>3. (\A k \in Keys : FieldOf(k, i))'
        BY <4>1, <4>2 DEF FieldOf, Pairs
      <4>4. Template' = Template /\ 1 <= Len(cmd.data) + 1 /\ cmd' = cmd
        BY <4>1, SameCommand, CommandFacts DEF Typed
      <4>5. pc' = "write" => Template' = "none"
        BY <4>1, <4>4
      <4>6. pc' # "template" /\ i' <= Len(cmd'.data) + 1 /\ DOMAIN data' = Keys
        BY <4>1, <4>4 DEF Filling
      <4> QED BY <4>3, <4>5, <4>6 DEF Filling
    <3> QED BY <3>1, <3>2
  <2>5. CASE DataPair
    <3>1. CASE Err(1)
      BY <2>1, <3>1
    <3>2. CASE ~Err(1)
      BY <2>5, <3>2, DataPairFilling DEF DataPair
    <3> QED BY <3>1, <3>2
  <2>6. CASE DataDone
    <3>1. pc = "data" /\ i \notin DOMAIN cmd.data /\ pc' = "write" /\ UNCHANGED <<cmd, data>>
      BY <2>6 DEF DataDone, Goto
    <3>2. i = Len(cmd.data) + 1
      BY <3>1, CommandFacts DEF Typed, Filling
    <3>3. \A k \in Keys : FieldOf(k, i)
      BY <3>1 DEF Filling
    <3>4. (\A k \in Keys : FieldOf(k, Len(cmd.data) + 1))'
      BY <3>1, <3>2, <3>3 DEF FieldOf, Pairs
    <3> QED BY <3>1, <3>4 DEF Filling
  <2>7. CASE UNCHANGED vars
    <3>1. UNCHANGED <<cmd, pc, i, data>>
      BY <2>7 DEF vars
    <3>2. (\A k \in Keys : FieldOf(k, 1))' = (\A k \in Keys : FieldOf(k, 1))
      BY <3>1 DEF FieldOf, Pairs
    <3>3. (\A k \in Keys : FieldOf(k, i))' = (\A k \in Keys : FieldOf(k, i))
      BY <3>1 DEF FieldOf, Pairs
    <3>4. (\A k \in Keys : FieldOf(k, Len(cmd.data) + 1))' = (\A k \in Keys : FieldOf(k, Len(cmd.data) + 1))
      BY <3>1 DEF FieldOf, Pairs
    <3> QED BY <3>1, <3>2, <3>3, <3>4, SameCommand DEF Filling
  <2> QED BY <2>2, <2>3, <2>4, <2>5, <2>6, <2>7 DEF Next
<1> QED BY <1>1, <1>2, DeliveryInvariance, PTL DEF Spec

(* Each key of the template has the value or the two values that --data    *)
(* gives it, in their order, and the metadata of the document when it      *)
(* gives none: for any number of pairs.                                    *)
THEOREM DataAreOfPairs == Spec => []DataOfPairs
<1>1. Delivery /\ Filling => DataOfPairs
  <2> SUFFICES ASSUME Typed, Filling, pc = "write", Template # "none", NEW k \in Keys
               PROVE  LET given == {n \in DOMAIN cmd.data : cmd.data[n] = k}
                      IN  /\ given = {} => data[k] = IF k \in cmd.metadata THEN String(0) ELSE Nil
                          /\ \A n \in given : given = {n} => data[k] = String(n)
                          /\ \A m, n \in given : m < n /\ given = {m, n} => data[k] = List(<<m, n>>)
    BY DEF Delivery, DataOfPairs
  <2> DEFINE given == {n \in DOMAIN cmd.data : cmd.data[n] = k}
  <2>1. DOMAIN cmd.data = 1 .. (Len(cmd.data) + 1) - 1
    BY CommandFacts DEF Typed
  <2>2. given = Pairs(k, Len(cmd.data) + 1)
    BY <2>1 DEF Pairs
  <2>3. FieldOf(k, Len(cmd.data) + 1)
    BY DEF Filling
  <2> HIDE DEF given
  <2>4. /\ given = {} => data[k] = IF k \in cmd.metadata THEN String(0) ELSE Nil
        /\ \A n \in given : given = {n} => data[k] = String(n)
        /\ \A m, n \in given : m < n /\ given = {m, n} => data[k] = List(<<m, n>>)
    BY <2>2, <2>3 DEF FieldOf
  <2> QED BY <2>4 DEF given
<1> QED BY <1>1, DeliveryInvariance, FillingInvariance, PTL
=============================================================================
