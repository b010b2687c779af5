----------------------------- MODULE Assembler -----------------------------
(***************************************************************************)
(* CLASS, the assembler: Shell::Run, the symbols table, the MIPS encoder,  *)
(* the program buffer and the output stream.                               *)
(*                                                                         *)
(* A line of the input is its label, its other tokens and how it ends; a   *)
(* token is a string, and what the text of it means as a register, as a    *)
(* number or as an offset(register) is given by constants.  Words are      *)
(* records of the fields the encoder masks.                                *)
(***************************************************************************)
EXTENDS ShellEnv

CONSTANTS
  Lines,           \* the lines a file may have
  NoLabel,
  RegNumber,       \* "$12" -> 12: what atoi makes of the digits
  StrayDigits,     \* digits that may lie behind the unterminated copy of them
  ShortTokens,     \* tokens of one character or none
  DollarTokens,    \* other tokens that begin with $
  Number,          \* tokens numeric_interpret takes, and their values
  Parenthesised,   \* "8($3)" -> <<"8", "$3">>
  Clip,            \* a token without its last character
  ImmSize, TargetSize,  \* 2^16, 2^26
  AddressSpace,    \* 2^32
  MaxProgram,      \* MAX_PROGRAM, bytes, as many as fill it with instructions
  MaxLines         \* bound: lines of a file

ASSUME AssemblerAssumption ==
  /\ Lines \subseteq
       [label : {l.label : l \in Lines}, toks : Seq(STRING),
        end : {"newline", "token", "quote", "comment", "unbalanced"}]
  /\ \A l \in Lines : l.end = "token" => l.toks # <<>> /\ Clip[Last(l.toks)] \in STRING
  /\ ImmSize \in Nat \ {0} /\ TargetSize \in Nat \ {0}
  /\ AddressSpace \in Nat \ {0} /\ AddressSpace % (4 * ImmSize) = 0
  /\ MaxProgram \in Nat /\ MaxProgram % 4 = 0 /\ MaxLines \in Nat
  /\ StrayDigits \subseteq 0 .. 9

VARIABLES
  pc, env,
  error,        \* the exception that ended the run
  file,         \* history: the lines read so far
  lines,        \* the instruction lines, as pass 1 keeps them
  equiv_pc,
  syms_to_PC, PC_to_syms,
  PC_to_line_number,
  asm_pc, inst_lengths,
  prog,         \* bytes up to eop
  ind,          \* instructions appended to the stream
  insts,        \* mif_insts
  out           \* the output file

vars == <<pc, env, error, file, lines, equiv_pc, syms_to_PC, PC_to_syms, PC_to_line_number,
          asm_pc, inst_lengths, prog, ind, insts, out>>
passvars == <<lines, equiv_pc, syms_to_PC, PC_to_syms, PC_to_line_number>>
flashvars == <<asm_pc, inst_lengths, prog>>
outvars == <<ind, insts, out>>

Labels == {l.label : l \in Lines} \ {NoLabel}
Ended == {"done", "error", "terminated"}
NoFile == [name |-> "", depth |-> 0, text |-> <<>>]

-----------------------------------------------------------------------------
(* The instruction set.                                                    *)

RInsts == {"add", "addu", "sub", "and", "or", "nor", "slt", "sltu", "subu", "sll", "srl", "jr"}
ShiftInsts == {"sll", "srl"}
MemInsts == {"lbu", "lhu", "lw", "sb", "sh", "sw"}
BranchInsts == {"beq", "bne"}
IInsts == MemInsts \cup BranchInsts
            \cup {"addiu", "addi", "andi", "ori", "xori", "slti", "sltiu"}
JInsts == {"j", "jal"}

ArgCount(m) ==
  CASE m = "jr" \/ m \in JInsts -> 2
    [] m \in MemInsts -> 3
    [] OTHER -> 4

RegisterNames ==
  <<"$zero", "$at", "$v0", "$v1", "$a0", "$a1", "$a2", "$a3",
    "$t0", "$t1", "$t2", "$t3", "$t4", "$t5", "$t6", "$t7",
    "$s0", "$s1", "$s2", "$s3", "$s4", "$s5", "$s6", "$s7",
    "$t8", "$t9", "$k0", "$k1", "$gp", "$sp", "$fp", "$ra">>

Exceptions ==
  {"none", "mt_bad_escape", "mt_multidef_symbol", "mt_bad_imm", "mt_bad_reg_format",
   "mt_bad_mnemonic", "mt_asm_bad_arg_count", "mt_parse_unexpected",
   "mt_unmatched_parenthesis", "mt_program_size_violation", "mt_illegal_file_error",
   "options"}

Value(v) == [err |-> "none", val |-> v]
Throw(e) == [err |-> e, val |-> 0]

friendly_to_numerical(t) == {n \in 0 .. 31 : RegisterNames[n + 1] = t}

\* The digits are copied into a buffer without a terminator; there is no check
\* of the range.
get_reg_num(t) ==
  IF t \in DOMAIN RegNumber
    THEN {Value(n) : n \in {RegNumber[t]} \cup {10 * RegNumber[t] + d : d \in StrayDigits}}
    ELSE {Throw(IF t \in ShortTokens THEN "mt_bad_imm"
                ELSE IF t \in DollarTokens THEN "mt_bad_reg_format"
                ELSE "mt_parse_unexpected")}

Register(t) ==
  IF friendly_to_numerical(t) # {} THEN {Value(n) : n \in friendly_to_numerical(t)}
                                   ELSE get_reg_num(t)

get_imm(t) == {IF t \in DOMAIN Number THEN Value(Number[t]) ELSE Throw("mt_bad_imm")}

\* Mutated form: relative to the branch itself.
offset_to_address_br_Own(current, target) == ((target - current) % AddressSpace) \div 4

\* Unsigned: a shift of the difference modulo 2^32.
offset_to_address_br(current, target) == ((target - current - 4) % AddressSpace) \div 4

\* The three arguments in the order in which they are parsed.  A label is
\* looked up before a number is tried, for any instruction with an immediate.
First(m, t) ==
  IF m \in JInsts
    THEN IF t \in DOMAIN syms_to_PC THEN {Value(syms_to_PC[t] \div 4)} ELSE get_imm(t)
    ELSE Register(t)

Second(m, t) ==
  IF m \notin MemInsts THEN Register(t)
  ELSE IF t \in DOMAIN Parenthesised THEN Register(Parenthesised[t][2])
  ELSE {Throw("mt_unmatched_parenthesis")}

Third(m, t, baseAddress) ==
  IF m \in RInsts THEN IF m \in ShiftInsts THEN get_imm(t) ELSE Register(t)
  ELSE IF t \in DOMAIN syms_to_PC
    THEN {Value(offset_to_address_br(baseAddress, syms_to_PC[t]))}
    ELSE get_imm(t)

Word(op, rs, rt, rd, imm) == [op |-> op, rs |-> rs, rt |-> rt, rd |-> rd, imm |-> imm]

\* A word of zeros is sll $0, $0, 0.
ZeroWord == Word("sll", 0, 0, 0, 0)

generic_mips32_encode(m, a, b, c) ==
  CASE m = "jr"          -> Word(m, a % 32, 0, 0, 0)
    [] m \in ShiftInsts  -> Word(m, b % 32, 0, a % 32, c % 32)
    [] m \in RInsts      -> Word(m, b % 32, c % 32, a % 32, 0)
    [] m \in IInsts      -> Word(m, b % 32, a % 32, 0, c % ImmSize)
    [] m \in JInsts      -> Word(m, 0, 0, 0, a % TargetSize)

\* What assemble may return or throw.
assemble(args, baseAddress) ==
  IF args = <<>> THEN {Value(ZeroWord)}
  ELSE IF args[1] \notin RInsts \cup IInsts \cup JInsts THEN {Throw("mt_bad_mnemonic")}
  ELSE IF Len(args) # ArgCount(args[1]) THEN {Throw("mt_asm_bad_arg_count")}
  ELSE LET m == args[1]
           second == IF Len(args) > 2 THEN Second(m, args[3]) ELSE {Value(0)}
           third == IF m \in MemInsts
                      THEN IF args[3] \in DOMAIN Parenthesised
                             THEN get_imm(Parenthesised[args[3]][1]) ELSE {Value(0)}
                      ELSE IF Len(args) > 3 THEN Third(m, args[4], baseAddress) ELSE {Value(0)}
           first(a, b, c) == IF a.err # "none" THEN a ELSE IF b.err # "none" THEN b ELSE c
       IN  {IF first(a, b, c).err # "none" THEN first(a, b, c)
            ELSE Value(generic_mips32_encode(m, a.val, b.val, c.val)) :
              a \in First(m, args[2]), b \in second, c \in third}

-----------------------------------------------------------------------------

AsmTypeOK ==
  /\ pc \in {"start", "pass1", "pass2", "open", "append"} \cup Ended
  /\ error \in Exceptions
  /\ file \in Seq(Lines) /\ Len(file) <= MaxLines
  /\ lines \in Seq([toks : Seq(STRING), bad : BOOLEAN])
  /\ equiv_pc \in Nat /\ asm_pc \in Nat /\ ind \in Nat
  /\ DOMAIN syms_to_PC \subseteq Labels
  /\ \A l \in DOMAIN syms_to_PC : syms_to_PC[l] \in 0 .. equiv_pc
  /\ Len(prog) <= MaxProgram
  /\ Len(inst_lengths) <= Len(lines) /\ ind <= Len(inst_lengths)

Init ==
  /\ pc = "start" /\ error = "none"
  /\ env \in {characterize_Env(args) : args \in ArgLists}
  /\ file = <<>> /\ lines = <<>> /\ equiv_pc = 0
  /\ syms_to_PC = <<>> /\ PC_to_syms = <<>> /\ PC_to_line_number = <<>>
  /\ asm_pc = 0 /\ inst_lengths = <<>> /\ prog = <<>>
  /\ ind = 0 /\ insts = <<>> /\ out = NoFile

End(how, e) == pc' = how /\ error' = e
Goto(there) == pc' = there /\ UNCHANGED error

-----------------------------------------------------------------------------
(* The command line.                                                       *)

\* An input with a name that can be opened, and a value behind each option.
OptionsGood ==
  /\ env.hasInput /\ env.hasInputValue
  /\ env.hasOutput => env.hasOutputValue
  /\ env.hasStrMode => env.hasStrModeValue
  /\ env.hasWordSize => env.hasWordSizeValue

\* Mutated form: the output is opened with the input.
Start_Opens ==
  /\ pc = "start" /\ OptionsGood /\ Goto("pass1")
  /\ out' = [NoFile EXCEPT !.name = env.output]
  /\ UNCHANGED <<env, file, passvars, flashvars, ind, insts>>

Start ==
  /\ pc = "start" /\ OptionsGood /\ Goto("pass1")
  /\ UNCHANGED <<env, file, passvars, flashvars, outvars>>

\* Usage, an option without its value, or an input that cannot be opened.
Refuse ==
  /\ pc = "start" /\ End("error", "options")
  /\ UNCHANGED <<env, file, passvars, flashvars, outvars>>

-----------------------------------------------------------------------------
(* The first pass: symbols, and the lines that are left.                   *)

\* The next line of the file; only the last one may lack its newline.
Read(l) ==
  /\ pc = "pass1" /\ Len(file) < MaxLines
  /\ file # <<>> => file[Len(file)].end = "newline"
  /\ file' = Append(file, l)
  /\ UNCHANGED <<env, flashvars, outvars>>

\* std::map::insert and operator[].
Put(f, x, v) == [y \in DOMAIN f \cup {x} |-> IF y = x THEN v ELSE f[y]]

has(PC) == PC \in DOMAIN PC_to_syms
SymbolsAt(PC) == IF has(PC) THEN PC_to_syms[PC] ELSE {}

insert(key, PC) ==
  /\ syms_to_PC' = Put(syms_to_PC, key, PC)
  /\ PC_to_syms' = Put(PC_to_syms, PC, SymbolsAt(PC) \cup {key})

Unbalanced(l) ==
  /\ l.end = "unbalanced" /\ Read(l)
  /\ End("error", "mt_bad_escape") /\ UNCHANGED passvars

\* Mutated form: insert looks for the symbol when half of it is in the table.
Duplicate_Half(l) ==
  /\ l.end # "unbalanced" /\ l.label \in DOMAIN syms_to_PC /\ Read(l)
  /\ End("error", "mt_multidef_symbol")
  /\ PC_to_syms' = Put(PC_to_syms, equiv_pc, SymbolsAt(equiv_pc) \cup {l.label})
  /\ UNCHANGED <<lines, equiv_pc, syms_to_PC, PC_to_line_number>>

Duplicate(l) ==
  /\ l.end # "unbalanced" /\ l.label \in DOMAIN syms_to_PC /\ Read(l)
  /\ End("error", "mt_multidef_symbol") /\ UNCHANGED passvars

\* pop_back is meant for the newline, and takes whatever comes last.
\* A token of one character is gone.
Stripped(l) ==
  LET clipped == Clip[Last(l.toks)]
  IN  [toks |-> IF l.end = "token"
                  THEN Front(l.toks) \o IF clipped = "" THEN <<>> ELSE <<clipped>>
                  ELSE l.toks,
       bad |-> l.end = "quote"]

\* Mutated forms: the label of a line with an instruction gets the address
\* behind it; a line with nothing but a label is counted.
Line_Late(l) ==
  /\ l.end # "unbalanced" /\ l.label \notin DOMAIN syms_to_PC /\ Read(l) /\ Goto("pass1")
  /\ IF l.toks = <<>> THEN UNCHANGED <<lines, equiv_pc, PC_to_line_number>>
     ELSE /\ PC_to_line_number' = Put(PC_to_line_number, equiv_pc, Len(file'))
          /\ equiv_pc' = equiv_pc + 4
          /\ lines' = Append(lines, Stripped(l))
  /\ IF l.label = NoLabel THEN UNCHANGED <<syms_to_PC, PC_to_syms>>
                          ELSE insert(l.label, equiv_pc')

Line_Counts(l) ==
  /\ l.end # "unbalanced" /\ l.label \notin DOMAIN syms_to_PC /\ Read(l) /\ Goto("pass1")
  /\ IF l.label = NoLabel THEN UNCHANGED <<syms_to_PC, PC_to_syms>>
                          ELSE insert(l.label, equiv_pc)
  /\ equiv_pc' = equiv_pc + IF l.toks = <<>> /\ l.label = NoLabel THEN 0 ELSE 4
  /\ IF l.toks = <<>> THEN UNCHANGED <<lines, PC_to_line_number>>
     ELSE /\ PC_to_line_number' = Put(PC_to_line_number, equiv_pc, Len(file'))
          /\ lines' = Append(lines, Stripped(l))

\* Blank lines, labels alone, instructions with and without a label.
Line(l) ==
  /\ l.end # "unbalanced" /\ l.label \notin DOMAIN syms_to_PC /\ Read(l) /\ Goto("pass1")
  /\ IF l.label = NoLabel THEN UNCHANGED <<syms_to_PC, PC_to_syms>>
                          ELSE insert(l.label, equiv_pc)
  /\ IF l.toks = <<>> THEN UNCHANGED <<lines, equiv_pc, PC_to_line_number>>
     ELSE /\ PC_to_line_number' = Put(PC_to_line_number, equiv_pc, Len(file'))
          /\ equiv_pc' = equiv_pc + 4
          /\ lines' = Append(lines, Stripped(l))

EndOfFile ==
  /\ pc = "pass1" /\ Goto("pass2")
  /\ UNCHANGED <<env, file, passvars, flashvars, outvars>>

-----------------------------------------------------------------------------
(* The second pass.  AsmFlash catches what assemble throws and nothing     *)
(* else; neither Run nor main catches the rest.                            *)

\* Big endian: the most significant byte, 3, is the first.
Bytes(w) == <<<<w, 3>>, <<w, 2>>, <<w, 1>>, <<w, 0>>>>

Current == lines[Len(inst_lengths) + 1]
More == pc = "pass2" /\ Len(inst_lengths) < Len(lines)

\* Mutated form: the program buffer has no end.
AsmFlash_Unbounded ==
  /\ More /\ ~ Current.bad
  /\ \E r \in assemble(Current.toks, asm_pc) :
       IF r.err = "none"
         THEN /\ prog' = prog \o Bytes(r.val)
              /\ inst_lengths' = Append(inst_lengths, 4)
              /\ asm_pc' = asm_pc + 4
              /\ Goto("pass2")
         ELSE End("error", r.err) /\ UNCHANGED flashvars
  /\ UNCHANGED <<env, file, passvars, outvars>>

\* MaxProgram holds whole instructions: write_next takes all four bytes or none.
AsmFlash ==
  /\ More /\ ~ Current.bad /\ Len(prog) + 4 <= MaxProgram
  /\ \E r \in assemble(Current.toks, asm_pc) :
       IF r.err = "none"
         THEN /\ prog' = prog \o Bytes(r.val)
              /\ inst_lengths' = Append(inst_lengths, 4)
              /\ asm_pc' = asm_pc + 4
              /\ Goto("pass2")
         ELSE End("error", r.err) /\ UNCHANGED flashvars
  /\ UNCHANGED <<env, file, passvars, outvars>>

\* chop_string throws, or write_next.
AsmFlashThrows ==
  /\ More
  /\ \/ Current.bad /\ End("terminated", "mt_bad_escape")
     \/ /\ ~ Current.bad /\ Len(prog) + 4 > MaxProgram
        /\ \E r \in assemble(Current.toks, asm_pc) :
             IF r.err = "none" THEN End("terminated", "mt_program_size_violation")
                               ELSE End("error", r.err)
  /\ UNCHANGED <<env, file, passvars, flashvars, outvars>>

\* Mutated form: the second pass waits for every line of the file.
Assembled_Lines ==
  /\ pc = "pass2" /\ Len(inst_lengths) = Len(file) /\ Goto("open")
  /\ UNCHANGED <<env, file, passvars, flashvars, outvars>>

Assembled ==
  /\ pc = "pass2" /\ Len(inst_lengths) = Len(lines) /\ Goto("open")
  /\ UNCHANGED <<env, file, passvars, flashvars, outvars>>

-----------------------------------------------------------------------------
(* The output stream.                                                      *)

DefaultName == [BIN |-> "a.bin", HEX |-> "a.hex", MIF |-> "a.mif"]

Open ==
  /\ pc = "open" /\ Goto("append")
  /\ out' = [NoFile EXCEPT !.name = IF env.hasOutput THEN env.output ELSE DefaultName[env.st]]
  /\ UNCHANGED <<env, file, passvars, flashvars, ind, insts>>

OpenFails ==
  /\ pc = "open" /\ End("error", "mt_illegal_file_error")
  /\ UNCHANGED <<env, file, passvars, flashvars, outvars>>

addr == 4 * ind
buf == SubSeq(prog, addr + 1, addr + inst_lengths[ind + 1])

\* In hex the byte of the highest address comes first.
append ==
  /\ pc = "append" /\ addr < Len(prog)
  /\ out' = [out EXCEPT !.text = CASE env.st = "BIN" -> @ \o buf
                                   [] env.st = "HEX" -> Append(@, Reverse(buf))
                                   [] env.st = "MIF" -> @]
  /\ insts' = IF env.st = "MIF" THEN Append(insts, Reverse(buf)) ELSE insts
  /\ ind' = ind + 1
  /\ UNCHANGED <<pc, error, env, file, passvars, flashvars>>

\* The bytes of the instructions from the back, width to a row; a row is
\* written with its last byte in front and filled up with zeros.
Rows(width) ==
  LET bytes == FlattenSeq([i \in DOMAIN insts |-> Reverse(insts[i])])
      depth == Len(bytes) \div width + IF Len(bytes) % width # 0 THEN 1 ELSE 0
  IN  [r \in 1 .. depth |->
         [k \in 1 .. width |->
            LET n == width * r + 1 - k
            IN  IF n <= Len(bytes) THEN bytes[n] ELSE <<ZeroWord, 0>>]]

\* Mutated form: the division rounds down.
Depth_Floor(width) == Len(prog) \div width

\* total_bytes is the length of the program by now.
Depth(width) == Len(prog) \div width + IF Len(prog) % width # 0 THEN 1 ELSE 0

finalize ==
  /\ pc = "append" /\ addr >= Len(prog) /\ End("done", "none")
  /\ out' = IF insts # <<>>
              THEN [out EXCEPT !.depth = Depth(env.width), !.text = Rows(env.width)] ELSE out
  /\ UNCHANGED <<env, file, passvars, flashvars, ind, insts>>

-----------------------------------------------------------------------------

Next ==
  \/ Start \/ Refuse
  \/ \E l \in Lines : Unbalanced(l) \/ Duplicate(l) \/ Line(l)
  \/ EndOfFile
  \/ AsmFlash \/ AsmFlashThrows \/ Assembled
  \/ Open \/ OpenFails \/ append \/ finalize

\* One thread, and a file that ends.
Spec == Init /\ [][Next]_vars /\ WF_vars(Next)

-----------------------------------------------------------------------------
(* What should hold.                                                       *)

InstructionsBefore(n) == Cardinality({k \in 1 .. n - 1 : file[k].toks # <<>>})

\* A label stands for the instruction that follows it in the file, whether it
\* shares a line with an instruction or with none, and however many labels,
\* blank lines and comments come between.  (When a run fails in the last line
\* read, that line declares nothing.)
SymbolsRight ==
  \A l \in DOMAIN syms_to_PC :
    \E n \in DOMAIN file :
      /\ file[n].label = l
      /\ \A k \in 1 .. n - 1 : file[k].label # l
      /\ syms_to_PC[l] = 4 * InstructionsBefore(n)

\* The two directions of the symbols table agree, also after a second
\* declaration was refused.
SymsInverse ==
  /\ \A l \in DOMAIN syms_to_PC : has(syms_to_PC[l]) /\ l \in PC_to_syms[syms_to_PC[l]]
  /\ \A PC \in DOMAIN PC_to_syms : \A l \in PC_to_syms[PC] :
       l \in DOMAIN syms_to_PC /\ syms_to_PC[l] = PC

\* The passes agree: the address at which the second assembles a line is the
\* one the first gave it, the table leads from it to the line of the file, and
\* every line but an empty one takes as many bytes as the first counted.
PassesAgree ==
  /\ asm_pc = Len(prog)
  /\ asm_pc = 4 * Len(inst_lengths)
  /\ equiv_pc = 4 * Len(lines)
  /\ \A i \in DOMAIN lines :
       /\ 4 * (i - 1) \in DOMAIN PC_to_line_number
       /\ LET n == PC_to_line_number[4 * (i - 1)]
          IN  n \in DOMAIN file /\ lines[i] = Stripped(file[n]) /\ InstructionsBefore(n) = i - 1

\* What the device makes of an immediate of a branch.
Signed(imm) == IF 2 * imm >= ImmSize THEN imm - ImmSize ELSE imm

\* A branch or a jump to a label that is near enough for its field goes there.
BranchReaches ==
  \A i \in DOMAIN inst_lengths :
    LET args == lines[i].toks
        word == prog[4 * i][1]
        here == 4 * (i - 1)
        target == syms_to_PC[args[Len(args)]]
        offset == (target - here - 4) \div 4
    IN  args # <<>> /\ args[Len(args)] \in DOMAIN syms_to_PC =>
          /\ args[1] \in BranchInsts /\ 2 * offset \in - ImmSize .. ImmSize - 1 =>
               here + 4 + 4 * Signed(word.imm) = target
          /\ args[1] \in JInsts /\ target < 4 * TargetSize => 4 * word.imm = target

\* A run that succeeds has assembled every instruction of the file, and the
\* output, read back byte by byte, is the program: a MIF of any width has DEPTH
\* rows and no more zeros than fill its last one.
OutputFaithful ==
  pc = "done" =>
    /\ Len(prog) = 4 * InstructionsBefore(Len(file) + 1)
    /\ env.st = "BIN" => out.text = prog
    /\ env.st = "HEX" => FlattenSeq([i \in DOMAIN out.text |-> Reverse(out.text[i])]) = prog
    /\ env.st = "MIF" =>
         LET w == env.width
             back == FlattenSeq([i \in DOMAIN out.text |-> Reverse(out.text[i])])
         IN  /\ out.depth = Len(out.text)
             /\ Len(back) = w * out.depth /\ Len(back) - Len(prog) \in 0 .. w - 1
             /\ SubSeq(back, 1, Len(prog)) = prog

\* An input that is refused leaves the output file, an old one included, as it
\* was: it is opened when there is nothing left to go wrong.
FailureWritesNothing == pc \in {"error", "terminated"} => out = NoFile

\* Every run comes to an end.
AsmEnds == <>(pc \in Ended)

\* "Strip newlines at the back" (shell.cpp:167): the second pass sees the
\* instructions of the file as they were written.
LastLineKept ==
  \A i \in DOMAIN lines : \E n \in DOMAIN file :
    ~ lines[i].bad /\ lines[i].toks = file[n].toks
=============================================================================
