------------------------------ MODULE ShellEnv ------------------------------
(***************************************************************************)
(* The command line of CLASS and of the loader (env.cpp).  An argument is  *)
(* a string; what an option takes as its value is simply the argument      *)
(* behind it, even if that is an option too.                               *)
(***************************************************************************)
EXTENDS Integers, SequencesExt

CONSTANTS
  ArgLists,        \* the command lines, program name first
  Atoi,            \* what atoi makes of an argument: a function on strings
  UnsignedValues   \* how many values an unsigned has, 2^32

ASSUME EnvAssumption ==
  /\ UnsignedValues \in Nat \ {0}
  /\ \A args \in ArgLists :
       /\ args \in Seq(STRING)
       /\ \A i \in 1 .. Len(args) - 1 : args[i] = "-b" => Atoi[args[i + 1]] \in Int

Modes == {"MACHINE", "INTERACTIVE", "SHUTDOWN"}
StreamOf == [hex |-> "HEX", bin |-> "BIN", mif |-> "MIF"]

Places(args, option) == {i \in DOMAIN args : args[i] = option}
Valued(args, option) == {i \in Places(args, option) : i < Len(args)}

\* The value behind the last of some places, or what the constructor of Env set.
LastValue(args, places, default) == IF places = {} THEN default ELSE args[Max(places) + 1]

\* The loop over the arguments: the last of several equal options counts, except
\* that a -s with a bad value clears the flag and keeps the type.  The flags the
\* constructor leaves out are FALSE at the start: both programs keep the Env in
\* zeroed memory (a static object, a fresh mapping).
characterize_Env(args) ==
  LET types == {i \in Valued(args, "-s") : args[i + 1] \in DOMAIN StreamOf}
      width == Atoi[LastValue(args, Valued(args, "-b"), "")] % UnsignedValues
  IN  [mode |-> IF Places(args, "-i") \cup Places(args, "-o") # {}
                  THEN "MACHINE" ELSE "INTERACTIVE",
       hasInput |-> Places(args, "-i") # {},
       hasInputValue |-> Valued(args, "-i") # {},
       hasOutput |-> Places(args, "-o") # {},
       hasOutputValue |-> Valued(args, "-o") # {},
       output |-> LastValue(args, Valued(args, "-o"), ""),
       hasStrMode |-> Places(args, "-s") # {},
       hasStrModeValue |-> LastValue(args, Valued(args, "-s"), "") \in DOMAIN StreamOf,
       st |-> StreamOf[LastValue(args, types, "bin")],
       hasWordSize |-> Places(args, "-b") # {},
       hasWordSizeValue |-> Valued(args, "-b") # {} /\ width > 0,
       width |-> IF Valued(args, "-b") = {} THEN 4 ELSE width]
=============================================================================
