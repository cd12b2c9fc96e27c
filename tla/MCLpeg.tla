------------------------------- MODULE MCLpeg -------------------------------
(***************************************************************************)
(* A small instance of Lpeg: two characters, bytes that count to 3,        *)
(* captures that move over 2 characters, patterns of up to three           *)
(* constructors over the operands below.                                   *)
(***************************************************************************)
EXTENDS Lpeg

a == <<"string", <<"a">>>>
b == <<"string", <<"b">>>>
Name == <<"name", "g">>
MCStarters == {<<"true">>, <<"number", 1>>, <<"number", -1>>, <<"set", {"a", "b"}>>,
               <<"star", a, 0>>, <<"leaf", "backref", Name>>, <<"leaf", "arg", 1>>,
               <<"cap", "group", a, Name>>, <<"var", A>>,
               <<"alt", <<"seq", a, <<"seq", <<"var", S>>, b>>>>, <<"true">>>>}
MCOperands == {a, <<"string", <<"a", "b">>>>, <<"number", 2>>, <<"leaf", "position", <<>>>>,
               <<"cap", "simple", b, <<>>>>, <<"var", S>>, <<"star", b, -1>>}
MCLabels == {<<"simple", <<>>>>, <<"table", <<>>>>, <<"subst", <<>>>>, <<"group", Name>>,
             <<"fold", <<"function", "f">>>>, <<"function", <<"function", "f">>>>,
             <<"query", <<"map", <<"str", <<"a">>>>, <<"str", <<"x">>>>>>>>,
             <<"string", <<"format", <<<<"ref", 1>>, <<"char", "x">>, <<"ref", 0>>>>>>>>}
MCRepetitions == {-2, -1, 0, 1}
MCSubjects == {<<"b", "a", "a", "b">>}
MCInits == {-3}    \* from the second character
LastTwo == {-2}
MCArgs == <<<<"str", <<"x">>>>>>
=============================================================================
