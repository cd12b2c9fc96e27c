------------------------------- MODULE MCCli --------------------------------
(* Command lines for TLC: each of three groups varies one part of them.    *)
EXTENDS Cli, SequencesExt

MCNames == {"containers", "slides", "smart"}
MCFiles == {"stdin", "stdout", "a", "b", "gone", "locked"}

Plain ==
  [to |-> "html", layout |-> "legal", strict |-> FALSE, env |-> <<>>, X |-> <<>>,
   inputs |-> <<"a">>, output |-> "stdout", standalone |-> FALSE, template |-> "",
   data |-> <<>>, metadata |-> {}]

Item(name, val) == [name |-> name, val |-> val]
MCItems == {Item("all", "on"), Item("all", "off"), Item("smart", "off"), Item("smart", "parameter"),
            Item("slides", "on"), Item("containers", "illegal")}

WithExtensions ==
  {[Plain EXCEPT !.to = to, !.strict = strict, !.env = env, !.X = X] :
     to \in {"html", "docbook", "dzslides", "markdown", "pdf"}, strict \in BOOLEAN,
     env \in BoundedSeq(MCItems, 1), X \in BoundedSeq(MCItems, 2)}

WithFiles ==
  {[Plain EXCEPT !.layout = layout, !.inputs = inputs, !.output = output,
                 !.standalone = standalone, !.template = template] :
     layout \in {"legal", "illegal"}, inputs \in BoundedSeq({"a", "b", "gone"}, 3),
     output \in {"stdout", "a", "gone", "locked"},
     standalone \in BOOLEAN, template \in {"", "letter", "lost"}}

WithData ==
  {[Plain EXCEPT !.template = template, !.data = fields, !.metadata = metadata] :
     template \in {"", "letter"}, fields \in BoundedSeq({"cc", "title"}, 4),
     metadata \in SUBSET {"title"}}

MCCommands == WithExtensions \cup WithFiles \cup WithData
=============================================================================
