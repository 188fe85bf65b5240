-------------------------------- MODULE MCProgram --------------------------------
(* Instances of Program for TLC.  An int has three bits, so that a count    *)
(* that wraps around is a small number.                                      *)
EXTENDS Program

Typed(text, words) == [text |-> text, words |-> words]
Code(text) == Typed(text, <<"code">>)
Said(words) == Typed(<<"w">>, words)

PointerDecl == <<"w", "*", "w">>
MCNumerals == [w \in {"0", "1", "2", "3", "7", "8"} |->
                 CASE w = "0" -> 0 [] w = "1" -> 1 [] w = "2" -> 2 [] w = "3" -> 3
                   [] w = "7" -> 7 [] w = "8" -> 8]

CodeLines ==
  { Code(<<"w", ";">>), Code(PointerDecl), Code(PointerDecl \o <<";">>),
    Code(<<"w", "(">>), Code(<<")", ";">>), Code(<<"w", "\\">>), Typed(<<>>, <<>>) }
CountLines ==
  { Said(<<":undo">>), Said(<<":undo", "2">>), Said(<<":undo7">>), Said(<<":stack", "pop", "3">>),
    Said(<<":stack", "pop", "8">>), Said(<<":view", "pop">>) }
StackLines ==
  { Said(<<":stack", "push", "w">>), Said(<<":stack", "clear">>), Said(<<":stack", "drop", "x">>),
    Said(<<":stack", "set", "x", "w">>), Said(<<":layout", "swap", "0", "1">>),
    Said(<<":stacklayout">>) }
OtherLines ==
  { Said(<<":reset">>), Said(<<":load", "f">>), Said(<<":I", "d">>), Said(<<":libpath", "d">>),
    Said(<<":security", "system", "=", "true">>),
    Said(<<":quit">>), Said(<<"::f", ";">>), Said(<<":clear">>) }
MCLines == CodeLines \cup CountLines \cup StackLines \cup OtherLines

\* Two of them come to the prompt.
MCCommands ==
  { <<>>, <<"-e", "a", "f">>,
    <<"-e", "-h", "f", "--no-interactive">>, <<"g", "f", "--no-interactive">>,
    <<"-Id", "-I=d", "-L", "--no-interactive", "--no-interactive", "--", "-h", "-e">>,
    <<"--scaffold", "-e", "-e", "--no-interactive">>,
    <<"--help", "f">>, <<"-e">>, <<"--lib", "m">>, <<"none", "f">> }
MCMissing == {"none"}

(* The line the README pipes in: cpp_int a=cpp_int("1"); a*a *)
Piped == {Code(<<"w", "sp", "w", "=", "w", "(", "\"", "w", "\"", ")", ";", "sp", "w", "*", "w">>)}
PipedCommands == { <<>> }
NoFiles == {}
NoNumerals == [w \in {} |-> 0]
================================================================================
