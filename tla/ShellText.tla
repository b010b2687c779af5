----------------------------- MODULE ShellText -----------------------------
(***************************************************************************)
(* What the shells make of text: the loop that reads a line from the       *)
(* terminal, chop_string, numbers, labels, hexadecimal text, and ranges.   *)
(*                                                                         *)
(* A string is a sequence of characters.  The state is a line being typed, *)
(* or a range being counted out; the pure functions are checked on         *)
(* everything that can be typed.                                           *)
(***************************************************************************)
EXTENDS Integers, SequencesExt

CONSTANTS
  Alphabet,   \* the characters typed: one of each kind the code tells apart
  Values,     \* how many values the integer type of a number has, 2^32 or 2^64
  MaxInt,     \* the greatest long long, 2^63 - 1
  Fields,     \* the numbers in a range specifier
  MaxLen      \* bound: characters typed

LongLongs == (- MaxInt - 1) .. MaxInt

ASSUME TextAssumption ==
  /\ Values \in Nat \ {0} /\ MaxInt \in Nat \ {0} /\ MaxLen \in Nat
  /\ Fields \subseteq LongLongs

VARIABLES
  pc,
  typed,      \* history: what fgetc has returned
  rd_buffer, QUOTES, ESCAPED,
  given,      \* history: the numbers of the range specifier
  rng,        \* the range object
  values      \* history: what next has returned

vars == <<pc, typed, rd_buffer, QUOTES, ESCAPED, given, rng, values>>

Abs(n) == IF n < 0 THEN - n ELSE n

White == {" ", "\t", "\n", "\r"}
Separators == White \cup {","}
Quotes == {"\"", "'"}

-----------------------------------------------------------------------------
(* chop_string: a fold over the characters before the first semicolon.     *)

Commentless(s) ==
  LET cut == {i \in DOMAIN s : s[i] = ";"}
  IN  IF cut = {} THEN s ELSE SubSeq(s, 1, Min(cut) - 1)

Pushed(st) == IF st.built = <<>> THEN st.toks ELSE Append(st.toks, st.built)

\* Mutated form: a token is not forgotten when it is pushed.
Chop_Keeps(st, c) ==
  IF ~ st.escaped /\ c = "\\" THEN [st EXCEPT !.escaped = TRUE]
  ELSE IF ~ st.escaped /\ c \in Quotes THEN [st EXCEPT !.quoted = ~ @]
  ELSE IF ~ st.escaped /\ ~ st.quoted /\ c \in Separators
    THEN [st EXCEPT !.toks = Pushed(st)]
  ELSE [st EXCEPT !.built = Append(@, c), !.escaped = FALSE]

Chop(st, c) ==
  IF ~ st.escaped /\ c = "\\" THEN [st EXCEPT !.escaped = TRUE]
  ELSE IF ~ st.escaped /\ c \in Quotes THEN [st EXCEPT !.quoted = ~ @]
  ELSE IF ~ st.escaped /\ ~ st.quoted /\ c \in Separators
    THEN [st EXCEPT !.toks = Pushed(st), !.built = <<>>]
  ELSE [st EXCEPT !.built = Append(@, c), !.escaped = FALSE]

\* `thrown` is mt_bad_escape.
chop_string(s) ==
  LET end == FoldLeft(Chop, [toks |-> <<>>, built |-> <<>>, escaped |-> FALSE, quoted |-> FALSE],
                      Commentless(s))
  IN  [thrown |-> end.escaped \/ end.quoted, toks |-> Pushed(end)]

\* What is behind the first colon.
trim_label(s) ==
  LET colons == {i \in DOMAIN s : s[i] = ":"}
  IN  IF colons = {} THEN <<>> ELSE SubSeq(s, Min(colons) + 1, Len(s))

-----------------------------------------------------------------------------
(* Numbers.                                                                *)

Digits == <<"0", "1", "2", "3", "4", "5", "6", "7", "8", "9", "a", "b", "c", "d", "e", "f">>
Capitals == [A |-> "a", B |-> "b", C |-> "c", D |-> "d", E |-> "e", F |-> "f"]
Lower(c) == IF c \in DOMAIN Capitals THEN Capitals[c] ELSE c

IsDigit(c) == \E n \in 0 .. 15 : Digits[n + 1] = Lower(c)
get_digit_value(c) == CHOOSE n \in 0 .. 15 : Digits[n + 1] = Lower(c)

\* The string behind the prefix, or nothing, also when there is only the prefix.
has_prefix(s, prefix) ==
  IF Len(prefix) < Len(s) /\ SubSeq(s, 1, Len(prefix)) = prefix
    THEN SubSeq(s, Len(prefix) + 1, Len(s)) ELSE <<>>

Base(s) == IF has_prefix(s, <<"0", "x">>) # <<>> THEN 16
           ELSE IF has_prefix(s, <<"o">>) # <<>> THEN 8 ELSE 10
Unprefixed(s) == CASE Base(s) = 16 -> has_prefix(s, <<"0", "x">>)
                   [] Base(s) = 8  -> has_prefix(s, <<"o">>)
                   [] OTHER        -> s

Negative(s) == Unprefixed(s)[1] = "-"
Magnitude(s) == IF Negative(s) THEN Tail(Unprefixed(s)) ELSE Unprefixed(s)

\* mt_bad_imm.  A digit need not be less than the base, and there may be none.
BadImm(s) == s = <<>> \/ \E i \in DOMAIN Magnitude(s) : ~ IsDigit(Magnitude(s)[i])

\* The inner loop, which has the width of the type too.
multiplier(base) ==
  LET m[itr \in Nat] == IF itr = 0 THEN 1 ELSE (m[itr - 1] * base) % Values IN m

\* Mutated form: one multiplication too many.
Sum_Shifted(digits, base) ==
  FoldLeftDomain(LAMBDA ret, i :
                   (ret + get_digit_value(digits[i]) * multiplier(base)[i]) % Values, 0, digits)

\* From the least significant digit, each with its own power of the base.
Sum(digits, base) ==
  FoldLeftDomain(LAMBDA ret, i :
                   (ret + get_digit_value(digits[i]) * multiplier(base)[i - 1]) % Values, 0, digits)

numeric_interpret(s) ==
  LET ret == Sum(Reverse(Magnitude(s)), Base(s))
  IN  IF Negative(s) THEN (- ret) % Values ELSE ret

-----------------------------------------------------------------------------
(* Hexadecimal text: the program x2b and dynamicHexBuilder.                *)

isHex(c) == \E n \in 0 .. 15 : Digits[n + 1] = c
Inked(s) == FoldLeft(LAMBDA t, c : IF c \in White THEN t ELSE Append(t, c), <<>>, s)

\* A character that is no lower case hexadecimal digit, or an odd number.
X2bFails(s) ==
  (\E i \in DOMAIN Inked(s) : ~ isHex(Inked(s)[i])) \/ Len(Inked(s)) % 2 = 1

\* push_front: the last byte of the text is the first of the file.
x2b(s) ==
  LET t == Inked(s)
  IN  Reverse([i \in 1 .. Len(t) \div 2 |->
                 16 * get_digit_value(t[2 * i - 1]) + get_digit_value(t[2 * i])])

dynamicHexBuilder(bytes) ==
  FoldLeft(LAMBDA text, b : <<Digits[b \div 16 + 1], Digits[(b % 16) + 1]>> \o text, <<>>, bytes)

-----------------------------------------------------------------------------
(* The state.                                                              *)

NoRange == [first |-> 0, bound |-> 0, step |-> 1, curr |-> 0, next_count |-> 0]

Init ==
  /\ pc = "reading" /\ typed = <<>>
  /\ rd_buffer = <<>> /\ QUOTES = FALSE /\ ESCAPED = FALSE
  /\ given = <<>> /\ rng = NoRange /\ values = <<>>

rangevars == <<given, rng, values>>
readvars == <<typed, rd_buffer, QUOTES, ESCAPED>>

\* ReadFromInput takes a character.  It drops a backslash that is not quoted,
\* whatever it escapes, and any double quote, an escaped one too, is a quote.
Escape ==
  /\ pc = "reading" /\ Len(typed) < MaxLen
  /\ "\\" \in Alphabet /\ ~ QUOTES /\ ~ ESCAPED
  /\ typed' = Append(typed, "\\") /\ ESCAPED' = TRUE
  /\ UNCHANGED <<pc, rd_buffer, QUOTES, rangevars>>

\* Mutated form: a newline ends the line even in quotes.
Type_NoQuotes(c) ==
  /\ pc = "reading" /\ Len(typed) < MaxLen
  /\ c = "\\" => QUOTES \/ ESCAPED
  /\ typed' = Append(typed, c) /\ rd_buffer' = Append(rd_buffer, c)
  /\ QUOTES' = IF c = "\"" THEN ~ QUOTES ELSE QUOTES
  /\ IF c \in {"\n", "\r"} /\ ~ ESCAPED THEN pc' = "line" /\ UNCHANGED ESCAPED
                                        ELSE pc' = pc /\ ESCAPED' = FALSE
  /\ UNCHANGED rangevars

Type(c) ==
  /\ pc = "reading" /\ Len(typed) < MaxLen
  /\ c = "\\" => QUOTES \/ ESCAPED
  /\ typed' = Append(typed, c) /\ rd_buffer' = Append(rd_buffer, c)
  /\ QUOTES' = IF c = "\"" THEN ~ QUOTES ELSE QUOTES
  /\ IF c \in {"\n", "\r"} /\ ~ ESCAPED /\ ~ QUOTES
       THEN pc' = "line" /\ UNCHANGED ESCAPED
       ELSE pc' = pc /\ ESCAPED' = FALSE
  /\ UNCHANGED rangevars

\* A long long after an operation that may overflow: two's complement.
Wrapped(n) == ((n + MaxInt + 1) % (2 * (MaxInt + 1))) - (MaxInt + 1)

\* Division rounds towards zero.
Quotient(m, n) ==
  LET q == Abs(m) \div Abs(n) IN IF (m < 0) = (n < 0) THEN q ELSE - q

\* Mutated form: the last value is left out.
Bound_Exclusive(begin, end, step) ==
  IF step > 0 THEN Quotient(Wrapped(end - begin), step)
              ELSE Quotient(Wrapped(begin - end), Wrapped(- step))

Bound(begin, end, step) ==
  IF step > 0 THEN Wrapped(Quotient(Wrapped(end - begin), step) + 1)
              ELSE Wrapped(Quotient(Wrapped(begin - end), Wrapped(- step)) + 1)

\* `difference` is end - begin as the constructor's two tests see it.
Invalid(difference, step) ==
  \/ step = 0
  \/ difference > 0 /\ step < 0
  \/ difference < 0 /\ step > 0

\* The constructor: begin, begin:end or begin:end:step.  Overflow of end - begin
\* is undefined: the tests look at what was computed, or compare end with begin.
range(fields) ==
  LET begin == fields[1]
      end == IF Len(fields) > 1 THEN fields[2] ELSE begin
      step == IF Len(fields) > 2 THEN fields[3] ELSE 1
  IN  /\ pc = "reading"
      /\ given' = <<begin, end, step>>
      /\ \E difference \in {Wrapped(end - begin), end - begin} :
           IF Invalid(difference, step) THEN pc' = "invalid_range" /\ UNCHANGED rng
           ELSE /\ pc' = "range"
                /\ rng' = [first |-> begin, bound |-> Bound(begin, end, step), step |-> step,
                           curr |-> begin, next_count |-> 0]
      /\ UNCHANGED <<readvars, values>>

atEnd == rng.next_count >= rng.bound

next ==
  /\ pc = "range" /\ ~ atEnd
  /\ values' = Append(values, rng.curr)
  /\ rng' = [rng EXCEPT !.curr = Wrapped(@ + rng.step), !.next_count = @ + 1]
  /\ UNCHANGED <<pc, readvars, given>>

Next ==
  \/ Escape
  \/ \E c \in Alphabet : Type(c)
  \/ typed = <<>> /\ \E n \in 1 .. 3 : \E fields \in [1 .. n -> Fields] : range(fields)
  \/ next

Spec == Init /\ [][Next]_vars

-----------------------------------------------------------------------------
(* What should hold, of any string, the one typed so far.                  *)

\* Escaped character by character, any text is one argument, itself: blanks,
\* commas, quotes and backslashes.  Semicolons are the exception, they cut the
\* line before it is looked at.
EscapeRoundTrip ==
  typed # <<>> /\ ~ Contains(typed, ";") =>
    chop_string(FlattenSeq([i \in DOMAIN typed |-> <<"\\", typed[i]>>]))
      = [thrown |-> FALSE, toks |-> <<typed>>]

\* A separator outside quotes separates: what is before it and what is behind
\* it are chopped independently.
ChopSplits ==
  \A i \in DOMAIN typed :
    LET before == SubSeq(typed, 1, i - 1)
        behind == SubSeq(typed, i + 1, Len(typed))
    IN  typed[i] \in Separators /\ ~ Contains(before, ";") /\ ~ chop_string(before).thrown =>
          chop_string(typed) =
            [thrown |-> chop_string(behind).thrown,
             toks |-> chop_string(before).toks \o chop_string(behind).toks]

\* The two readings of a label agree: if the first argument ends in the first
\* colon of the line, trim_label leaves the other arguments.  Quotes and
\* escapes, which trim_label does not know, are left out.
LabelTrimmed ==
  LET toks == chop_string(typed).toks
  IN  /\ \A i \in DOMAIN typed : typed[i] \notin Quotes \cup {"\\"}
      /\ toks # <<>>
      /\ SelectInSeq(toks[1], LAMBDA c : c = ":") = Len(toks[1])
      => chop_string(trim_label(typed)).toks = Tail(toks)

\* Arguments are what was meant, however they are written.
TokensRight == EscapeRoundTrip /\ ChopSplits /\ LabelTrimmed

\* The value of a number, however long, is what reading it digit by digit
\* gives, modulo the size of the type.
NumericExact ==
  ~ BadImm(typed) =>
    LET magnitude == FoldLeft(LAMBDA n, c : n * Base(typed) + get_digit_value(c), 0,
                              Magnitude(typed))
    IN  numeric_interpret(typed) = (IF Negative(typed) THEN - magnitude ELSE magnitude) % Values

\* x2b undoes the hex builder: text it accepts is what the builder makes of the
\* bytes.  That is one call of the builder: the assembler writes each instruction
\* on a line of its own, and x2b, which turns round the whole text and not each
\* line, puts the last of several instructions first.
HexRoundTrip == ~ X2bFails(typed) => dynamicHexBuilder(x2b(typed)) = Inked(typed)

\* Numbers and hexadecimal text keep their values.
NumbersRight == NumericExact /\ HexRoundTrip

\* A line from the terminal is whole: chop_string, whose exception would end
\* the loader, finds its quotes balanced, because the line is not over in a
\* quote.  Left out are the lines in which, as they have been kept, there is a
\* single quote, a semicolon, or a double quote right behind a backslash: the
\* two readers see them differently, and some of them throw, such as it's, "a;b",
\* "a\" and, typed with two backslashes, \"".
LineWhole ==
  /\ pc = "line"
  /\ \A i \in DOMAIN rd_buffer : rd_buffer[i] \notin {"'", ";"}
  /\ \A i \in 1 .. Len(rd_buffer) - 1 : rd_buffer[i] = "\\" => rd_buffer[i + 1] # "\""
  => ~ chop_string(rd_buffer).thrown

\* A range counts out, in order, every number from begin to end, both included,
\* that a multiple of the step leads to, and ends there: begin and end are near
\* enough for their difference and the count to be long longs.
RangeExact ==
  pc = "range" /\ Abs(given[2] - given[1]) < MaxInt =>
    LET begin == given[1]
        end == given[2]
        step == given[3]
        between == {v \in (begin .. end) \cup (end .. begin) : (v - begin) % Abs(step) = 0}
    IN  /\ \A i \in DOMAIN values : values[i] = begin + (i - 1) * step
        /\ ToSet(values) \subseteq between
        /\ atEnd => ToSet(values) = between
=============================================================================
