------------------------------ MODULE MCLoader ------------------------------
(* An instance of Loader for TLC: segments of three bytes, at most three of *)
(* them, bytes of one bit.                                                 *)
EXTENDS Loader

\* Without arguments it is as behind a script of no line.
MCArgLists == {<<"cload", "-i", "script">>, <<"cload", "-i">>, <<"cload", "-o", "out">>}
MCAtoi == [arg \in {} |-> 0]

\* One byte, a range, a range that ends behind the memory, a negative index.
MCSpans == {<<0>>, <<1, 2>>, <<2, 3, 4>>, <<-1>>}
=============================================================================
