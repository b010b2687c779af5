---------------------------- MODULE MCAssembler ----------------------------
(* An instance of Assembler for TLC: twenty lines that between them use    *)
(* every format of instruction, every way to fail and every way to end.    *)
EXTENDS Assembler

L(label, toks, end) == [label |-> label, toks |-> toks, end |-> end]

\* Labels before and behind what refers to them, more than one at an address,
\* one named like a number, and the failures.
MCLines ==
  {L(NoLabel, <<>>, "newline"), L("a", <<>>, "newline"), L("8", <<>>, "comment"),
   L("a", <<"beq", "$1", "$t0", "a">>, "newline"),
   L("b", <<"bne", "$1", "$40", "b">>, "comment"),
   L(NoLabel, <<"j", "a">>, "newline"),
   L(NoLabel, <<"beq", "$1", "$1", "b">>, "newline"),
   L(NoLabel, <<"addi", "$1", "$1", "8">>, "newline"),
   L(NoLabel, <<"sll", "$1", "$1", "8">>, "token"),
   L(NoLabel, <<"jr", "$1">>, "quote"),
   L(NoLabel, <<"jr", "$1">>, "unbalanced"),
   L(NoLabel, <<"lw", "$1", "8($1)">>, "newline"),
   L(NoLabel, <<"add", "$1", "$1", "$1">>, "newline"),
   L(NoLabel, <<"jal", "8">>, "comment"),
   L(NoLabel, <<"lw", "$1", "8">>, "newline"), L("c", <<"b:", "jr", "$1">>, "newline"),
   L(NoLabel, <<"jr">>, "newline"), L(NoLabel, <<"jr", "$x">>, "newline"),
   L(NoLabel, <<"jr", "$">>, "newline"), L(NoLabel, <<"jr", "a">>, "comment")}

MCRegNumber == ("$1" :> 1) @@ ("$40" :> 40)
MCNumber == ("8" :> 8)
MCParenthesised == ("8($1)" :> <<"8", "$1">>)
MCClip == ("8" :> "")

MCArgLists ==
  {<<"class">>, <<"class", "-i">>, <<"class", "-i", "f", "-o">>,
   <<"class", "-i", "f", "-s", "elf">>, <<"class", "-i", "f", "-b", "0">>,
   <<"class", "-i", "f", "-o", "p">>, <<"class", "-i", "f", "-s", "hex">>,
   <<"class", "-i", "f", "-s", "mif", "-b", "3">>}
MCAtoi == ("0" :> 0) @@ ("3" :> 3)
=============================================================================
