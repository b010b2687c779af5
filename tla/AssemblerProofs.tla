-------------------------- MODULE AssemblerProofs --------------------------
(***************************************************************************)
(* Proofs about Assembler, for every set of lines and options: its types,  *)
(* the symbols table, the agreement of the two passes, where branches and  *)
(* jumps go, and the output of a run that fails and of one that succeeds.  *)
(***************************************************************************)
EXTENDS Assembler, DataLemmas, FiniteSetTheorems, SequenceTheorems, TLAPS

-----------------------------------------------------------------------------
(* The symbols table.                                                      *)

LEMMA InsertInverse ==
  ASSUME NEW key, NEW PC, key \notin DOMAIN syms_to_PC, SymsInverse, insert(key, PC)
  PROVE  SymsInverse'
<1>0. /\ DOMAIN syms_to_PC' = {key} \cup DOMAIN syms_to_PC
      /\ syms_to_PC'[key] = PC
      /\ \A l \in DOMAIN syms_to_PC : l # key => syms_to_PC'[l] = syms_to_PC[l]
      /\ DOMAIN PC_to_syms' = {PC} \cup DOMAIN PC_to_syms
      /\ PC_to_syms'[PC] = (IF has(PC) THEN PC_to_syms[PC] ELSE {}) \cup {key}
      /\ \A p \in DOMAIN PC_to_syms : p # PC => PC_to_syms'[p] = PC_to_syms[p]
  BY DEF insert, Put, SymbolsAt
<1>1. ASSUME NEW l \in DOMAIN syms_to_PC'
      PROVE  syms_to_PC'[l] \in DOMAIN PC_to_syms' /\ l \in PC_to_syms'[syms_to_PC'[l]]
  <2>1. CASE l = key
    BY <1>0, <2>1
  <2>2. CASE l # key
    <3>1. /\ l \in DOMAIN syms_to_PC /\ syms_to_PC'[l] = syms_to_PC[l]
          /\ syms_to_PC[l] \in DOMAIN PC_to_syms /\ l \in PC_to_syms[syms_to_PC[l]]
      BY <1>0, <1>1, <2>2 DEF SymsInverse, has
    <3> QED BY <1>0, <3>1 DEF has
  <2> QED BY <2>1, <2>2
<1>2. ASSUME NEW p \in DOMAIN PC_to_syms', NEW l \in PC_to_syms'[p]
      PROVE  l \in DOMAIN syms_to_PC' /\ syms_to_PC'[l] = p
  <2>1. CASE l = key /\ p = PC
    BY <1>0, <2>1
  <2>2. CASE ~ (l = key /\ p = PC)
    <3>1. p \in DOMAIN PC_to_syms /\ l \in PC_to_syms[p]
      BY <1>0, <1>2, <2>2 DEF has
    <3>2. l \in DOMAIN syms_to_PC /\ syms_to_PC[l] = p /\ l # key
      BY <3>1 DEF SymsInverse
    <3> QED BY <1>0, <3>2
  <2> QED BY <2>1, <2>2
<1> QED BY <1>1, <1>2 DEF SymsInverse, has

\* An action that reads no label leaves the table alone.
LEMMA TableKept ==
  ASSUME [Next]_vars, ~ \E l \in Lines : Line(l)
  PROVE  UNCHANGED <<lines, equiv_pc, syms_to_PC, PC_to_syms, PC_to_line_number>>
<1>1. CASE Start \/ Refuse \/ EndOfFile \/ AsmFlash \/ AsmFlashThrows \/ Assembled
  BY <1>1 DEF Start, Refuse, EndOfFile, AsmFlash, AsmFlashThrows, Assembled, passvars
<1>2. CASE Open \/ OpenFails \/ append \/ finalize
  BY <1>2 DEF Open, OpenFails, append, finalize, passvars
<1>3. CASE \E l \in Lines : Unbalanced(l) \/ Duplicate(l)
  BY <1>3 DEF Unbalanced, Duplicate, passvars
<1>4. CASE UNCHANGED vars
  BY <1>4 DEF vars
<1> QED BY <1>1, <1>2, <1>3, <1>4 DEF Next

\* syms_table::insert: the two directions of the table agree, also after a
\* second declaration was refused.
THEOREM TableIsInverse ==
  Spec => []SymsInverse
<1>1. Init => SymsInverse
  BY DEF Init, SymsInverse, has
<1>2. SymsInverse /\ [Next]_vars => SymsInverse'
  <2>1. SUFFICES ASSUME SymsInverse, [Next]_vars
                 PROVE  SymsInverse'
    OBVIOUS
  <2>2. CASE \E l \in Lines : Line(l)
    <3>1. PICK l \in Lines : Line(l)
      BY <2>2
    <3>2. CASE l.label = NoLabel
      BY <2>1, <3>1, <3>2 DEF Line, SymsInverse, has
    <3>3. CASE l.label # NoLabel
      <4>1. l.label \notin DOMAIN syms_to_PC /\ insert(l.label, equiv_pc)
        BY <3>1, <3>3 DEF Line
      <4> QED BY <2>1, <4>1, InsertInverse
    <3> QED BY <3>2, <3>3
  <2>3. CASE ~ \E l \in Lines : Line(l)
    <3>1. UNCHANGED <<syms_to_PC, PC_to_syms>>
      BY <2>1, <2>3, TableKept
    <3> QED BY <2>1, <3>1 DEF SymsInverse, has
  <2> QED BY <2>2, <2>3
<1> QED BY <1>1, <1>2, PTL DEF Spec

-----------------------------------------------------------------------------
(* The output of a run that fails.                                         *)

\* The output is opened when there is nothing left to go wrong.
WriteInv == pc # "append" /\ pc # "done" => out = NoFile

\* Shell::Run: an input that is refused leaves the output file as it was.
THEOREM FailuresWriteNothing ==
  Spec => []FailureWritesNothing
<1>1. Init => WriteInv
  BY DEF Init, WriteInv
<1>2. WriteInv /\ [Next]_vars => WriteInv'
  <2>1. SUFFICES ASSUME WriteInv, [Next]_vars
                 PROVE  WriteInv'
    OBVIOUS
  <2>2. CASE Start \/ Refuse \/ EndOfFile \/ Assembled \/ OpenFails
    BY <2>1, <2>2 DEF Start, Refuse, EndOfFile, Assembled, OpenFails, outvars, Goto, End, WriteInv
  <2>3. CASE AsmFlash \/ AsmFlashThrows
    <3>1. pc = "pass2" /\ UNCHANGED out
      BY <2>3 DEF AsmFlash, AsmFlashThrows, More, outvars
    <3> QED BY <2>1, <3>1 DEF WriteInv
  <2>4. CASE \E l \in Lines : Unbalanced(l) \/ Duplicate(l) \/ Line(l)
    <3>1. pc = "pass1" /\ UNCHANGED out
      BY <2>4 DEF Unbalanced, Duplicate, Line, Read, outvars
    <3> QED BY <2>1, <3>1 DEF WriteInv
  <2>5. CASE Open
    BY <2>5 DEF Open, Goto, WriteInv
  <2>6. CASE append
    BY <2>6 DEF append, WriteInv
  <2>7. CASE finalize
    BY <2>7 DEF finalize, End, WriteInv
  <2>8. CASE UNCHANGED vars
    BY <2>1, <2>8 DEF vars, WriteInv
  <2> QED BY <2>1, <2>2, <2>3, <2>4, <2>5, <2>6, <2>7, <2>8 DEF Next
<1>3. WriteInv => FailureWritesNothing
  BY DEF WriteInv, FailureWritesNothing
<1> QED BY <1>1, <1>2, <1>3, PTL DEF Spec

-----------------------------------------------------------------------------
(* The agreement of the passes.                                            *)

Filled(n) == {k \in 1 .. n - 1 : file[k].toks # <<>>}
Kept == {Stripped(l) : l \in Lines}

\* Pass 1: lines counts the instructions of the file, unless the last line
\* read was refused.
CountInv ==
  /\ file \in Seq(Lines) /\ lines \in Seq(Kept)
  /\ pc \in {"start", "pass1"} => InstructionsBefore(Len(file) + 1) = Len(lines)
  /\ equiv_pc = 4 * Len(lines)
  /\ \A i \in 1 .. Len(lines) : \E n \in 1 .. Len(file) :
       /\ 4 * (i - 1) \in DOMAIN PC_to_line_number /\ PC_to_line_number[4 * (i - 1)] = n
       /\ lines[i] = Stripped(file[n]) /\ InstructionsBefore(n) = i - 1

\* Pass 2: every instruction takes four bytes.
FlashInv ==
  /\ \E S : prog \in Seq(S)
  /\ inst_lengths \in Seq({4})
  /\ asm_pc = Len(prog) /\ asm_pc = 4 * Len(inst_lengths)

LEMMA FilledFinite ==
  ASSUME NEW n \in Nat
  PROVE  IsFiniteSet(Filled(n)) /\ InstructionsBefore(n) = Cardinality(Filled(n))
<1>1. IsFiniteSet(1 .. n - 1)
  BY FS_Interval
<1>2. Filled(n) \in SUBSET (1 .. n - 1)
  BY DEF Filled
<1> QED BY <1>1, <1>2, FS_Subset DEF Filled, InstructionsBefore

\* A line that is added counts for what comes behind it.
LEMMA CountAppend ==
  ASSUME NEW N \in Nat, N = Len(file), file \in Seq(Lines),
         NEW l \in Lines, file' = Append(file, l)
  PROVE  /\ Len(file') = N + 1 /\ file' \in Seq(Lines)
         /\ file'[N + 1] = l /\ \A n \in 1 .. N : file'[n] = file[n]
         /\ \A n \in 1 .. N + 1 : InstructionsBefore(n)' = InstructionsBefore(n)
         /\ InstructionsBefore(N + 2)' =
              InstructionsBefore(N + 1) + IF l.toks = <<>> THEN 0 ELSE 1
<1>1. /\ Len(file') = N + 1 /\ file' \in Seq(Lines)
      /\ file'[N + 1] = l /\ \A n \in 1 .. N : file'[n] = file[n]
  OBVIOUS
<1>2. \A n \in 1 .. N + 1 : InstructionsBefore(n)' = InstructionsBefore(n)
  <2>1. SUFFICES ASSUME NEW n \in 1 .. N + 1
                 PROVE  InstructionsBefore(n)' = InstructionsBefore(n)
    OBVIOUS
  <2>2. \A k \in 1 .. n - 1 : file'[k].toks = file[k].toks
    BY <1>1
  <2>3. {k \in 1 .. n - 1 : file'[k].toks # <<>>} = {k \in 1 .. n - 1 : file[k].toks # <<>>}
    BY <2>2
  <2> QED BY <2>3, Zenon DEF InstructionsBefore
<1> DEFINE F == {k \in 1 .. N + 1 : file'[k].toks # <<>>}
<1>3. F = Filled(N + 1) \cup IF l.toks = <<>> THEN {} ELSE {N + 1}
  <2>1. \A k \in 1 .. N : file'[k].toks = file[k].toks
    BY <1>1
  <2>2. Filled(N + 1) = {k \in 1 .. N : file[k].toks # <<>>}
    BY <1>1 DEF Filled
  <2>3. 1 .. N + 1 = (1 .. N) \cup {N + 1} /\ N + 1 \notin 1 .. N
    BY <1>1
  <2> QED BY <1>1, <2>1, <2>2, <2>3
<1>4. InstructionsBefore(N + 2)' = Cardinality(F)
  <2>1. PICK m \in Nat : m = N + 2
    OBVIOUS
  <2>2. {k \in 1 .. m - 1 : file'[k].toks # <<>>} = F
    <3>1. m - 1 = N + 1
      BY <2>1
    <3> QED BY <3>1
  <2>3. InstructionsBefore(m)' = Cardinality({k \in 1 .. m - 1 : file'[k].toks # <<>>})
    BY Zenon DEF InstructionsBefore
  <2>4. InstructionsBefore(m)' = Cardinality(F)
    BY <2>2, <2>3, Zenon
  <2> QED BY <2>1, <2>4
<1> HIDE DEF F
<1>5. IsFiniteSet(Filled(N + 1)) /\ InstructionsBefore(N + 1) = Cardinality(Filled(N + 1))
  BY <1>1, FilledFinite
<1>6. N + 1 \notin Filled(N + 1)
  BY <1>1 DEF Filled
<1>7. Cardinality(Filled(N + 1)) \in Nat
  BY <1>5, FS_CardinalityType
<1>8. CASE l.toks = <<>>
  <2>1. F = Filled(N + 1)
    BY <1>3, <1>8
  <2> QED BY <1>1, <1>2, <1>4, <1>5, <1>7, <1>8, <2>1
<1>9. CASE l.toks # <<>>
  <2>1. F = Filled(N + 1) \cup {N + 1}
    BY <1>3, <1>9
  <2>2. Cardinality(F) = Cardinality(Filled(N + 1)) + 1
    BY <1>5, <1>6, <2>1, FS_AddElement
  <2> QED BY <1>1, <1>2, <1>4, <1>5, <1>9, <2>2
<1> QED BY <1>8, <1>9

\* What CountInv says of the i-th instruction.
Placed(i) ==
  \E n \in 1 .. Len(file) :
    /\ 4 * (i - 1) \in DOMAIN PC_to_line_number /\ PC_to_line_number[4 * (i - 1)] = n
    /\ lines[i] = Stripped(file[n]) /\ InstructionsBefore(n) = i - 1

LEMMA CountRead ==
  ASSUME CountInv, NEW l \in Lines, file' = Append(file, l),
         UNCHANGED <<lines, equiv_pc, PC_to_line_number>>,
         pc' \in {"start", "pass1"} => pc = "pass1" /\ l.toks = <<>>
  PROVE  CountInv'
<1>1. PICK N \in Nat : N = Len(file)
  BY DEF CountInv
<1>2. /\ Len(file') = N + 1 /\ file' \in Seq(Lines)
      /\ \A n \in 1 .. N : file'[n] = file[n]
      /\ \A n \in 1 .. N + 1 : InstructionsBefore(n)' = InstructionsBefore(n)
      /\ InstructionsBefore(N + 2)' =
           InstructionsBefore(N + 1) + IF l.toks = <<>> THEN 0 ELSE 1
  BY <1>1, CountAppend DEF CountInv
<1>3. pc' \in {"start", "pass1"} => InstructionsBefore(Len(file) + 1)' = Len(lines')
  <2>1. SUFFICES ASSUME pc' \in {"start", "pass1"}
                 PROVE  InstructionsBefore(Len(file) + 1)' = Len(lines')
    OBVIOUS
  <2>2. InstructionsBefore(N + 1) = Len(lines) /\ Len(lines) \in Nat
    BY <1>1, <2>1 DEF CountInv
  <2>3. InstructionsBefore(N + 2)' = Len(lines)
    BY <1>2, <2>1, <2>2
  <2>4. Len(file') + 1 = N + 2
    BY <1>2
  <2> QED BY <2>3, <2>4
<1>4. ASSUME NEW i \in 1 .. Len(lines')
      PROVE  Placed(i)'
  <2>1. PICK n \in 1 .. N :
          /\ 4 * (i - 1) \in DOMAIN PC_to_line_number /\ PC_to_line_number[4 * (i - 1)] = n
          /\ lines[i] = Stripped(file[n]) /\ InstructionsBefore(n) = i - 1
    BY <1>1 DEF CountInv
  <2>2. n \in 1 .. Len(file') /\ file'[n] = file[n] /\ InstructionsBefore(n)' = i - 1
    BY <1>2, <2>1
  <2> QED BY <2>1, <2>2 DEF Placed
<1> QED BY <1>2, <1>3, <1>4 DEF CountInv, Placed

LEMMA CountLine ==
  ASSUME CountInv, NEW l \in Lines, Line(l), l.toks # <<>>
  PROVE  CountInv'
<1>1. PICK N \in Nat, M \in Nat : N = Len(file) /\ M = Len(lines)
  BY DEF CountInv
<1>2. /\ file' = Append(file, l) /\ pc = "pass1" /\ lines' = Append(lines, Stripped(l))
      /\ equiv_pc' = equiv_pc + 4
      /\ PC_to_line_number' = Put(PC_to_line_number, equiv_pc, Len(file'))
  BY DEF Line, Read
<1>3. /\ Len(file') = N + 1 /\ file' \in Seq(Lines)
      /\ file'[N + 1] = l /\ \A n \in 1 .. N : file'[n] = file[n]
      /\ \A n \in 1 .. N + 1 : InstructionsBefore(n)' = InstructionsBefore(n)
      /\ InstructionsBefore(N + 2)' = InstructionsBefore(N + 1) + 1
  BY <1>1, <1>2, CountAppend DEF CountInv
<1>4. /\ lines' \in Seq(Kept) /\ Len(lines') = M + 1 /\ lines'[M + 1] = Stripped(l)
      /\ \A i \in 1 .. M : lines'[i] = lines[i]
  BY <1>1, <1>2 DEF CountInv, Kept
<1>5. InstructionsBefore(N + 1) = M /\ equiv_pc = 4 * M
  BY <1>1, <1>2 DEF CountInv
<1>6. InstructionsBefore(Len(file) + 1)' = Len(lines')
  <2>1. InstructionsBefore(N + 2)' = M + 1 /\ Len(file') + 1 = N + 2
    BY <1>3, <1>5
  <2> QED BY <1>4, <2>1
<1>7. /\ DOMAIN PC_to_line_number' = DOMAIN PC_to_line_number \cup {4 * M}
      /\ PC_to_line_number'[4 * M] = N + 1
      /\ \A p \in DOMAIN PC_to_line_number :
           p # 4 * M => PC_to_line_number'[p] = PC_to_line_number[p]
  BY <1>2, <1>3, <1>5 DEF Put
<1>8. ASSUME NEW i \in 1 .. M + 1
      PROVE  Placed(i)'
  <2>1. CASE i = M + 1
    <3>1. 4 * (i - 1) = 4 * M /\ i - 1 = M
      BY <2>1
    <3>2. InstructionsBefore(N + 1)' = i - 1
      BY <1>3, <1>5, <3>1
    <3>3. lines'[i] = Stripped(file'[N + 1]) /\ N + 1 \in 1 .. Len(file')
      BY <1>3, <1>4, <2>1
    <3> QED BY <1>7, <3>1, <3>2, <3>3 DEF Placed
  <2>2. CASE i # M + 1
    <3>1. i \in 1 .. M /\ 4 * (i - 1) # 4 * M
      BY <2>2
    <3>2. PICK n \in 1 .. N :
            /\ 4 * (i - 1) \in DOMAIN PC_to_line_number /\ PC_to_line_number[4 * (i - 1)] = n
            /\ lines[i] = Stripped(file[n]) /\ InstructionsBefore(n) = i - 1
      BY <1>1, <3>1 DEF CountInv
    <3>3. n \in 1 .. Len(file') /\ file'[n] = file[n] /\ InstructionsBefore(n)' = i - 1
      BY <1>3, <3>2
    <3>4. PC_to_line_number'[4 * (i - 1)] = n /\ 4 * (i - 1) \in DOMAIN PC_to_line_number'
      BY <1>7, <3>1, <3>2
    <3>5. lines'[i] = Stripped(file'[n])
      BY <1>4, <3>1, <3>2, <3>3
    <3> QED BY <3>3, <3>4, <3>5 DEF Placed
  <2> QED BY <2>1, <2>2
<1>9. equiv_pc' = 4 * Len(lines')
  BY <1>2, <1>4, <1>5
<1> QED BY <1>3, <1>4, <1>6, <1>8, <1>9 DEF CountInv, Placed

LEMMA CountStep ==
  ASSUME CountInv, [Next]_vars
  PROVE  CountInv'
<1>1. CASE \E l \in Lines : Line(l) /\ l.toks # <<>>
  BY <1>1, CountLine
<1>2. CASE \E l \in Lines : Unbalanced(l) \/ Duplicate(l) \/ (Line(l) /\ l.toks = <<>>)
  <2>1. PICK l \in Lines : Unbalanced(l) \/ Duplicate(l) \/ (Line(l) /\ l.toks = <<>>)
    BY <1>2
  <2>2. /\ file' = Append(file, l) /\ UNCHANGED <<lines, equiv_pc, PC_to_line_number>>
        /\ pc = "pass1" /\ (pc' \in {"start", "pass1"} => l.toks = <<>>)
    BY <2>1 DEF Unbalanced, Duplicate, Line, Read, End, passvars
  <2> QED BY <2>2, CountRead
<1>3. CASE ~ \E l \in Lines : Unbalanced(l) \/ Duplicate(l) \/ Line(l)
  <2>1. UNCHANGED <<file, lines, equiv_pc, PC_to_line_number>>
    <3>1. CASE Start \/ Refuse \/ EndOfFile \/ AsmFlash \/ AsmFlashThrows \/ Assembled
      BY <3>1 DEF Start, Refuse, EndOfFile, AsmFlash, AsmFlashThrows, Assembled, passvars
    <3>2. CASE Open \/ OpenFails \/ append \/ finalize
      BY <3>2 DEF Open, OpenFails, append, finalize, passvars
    <3>3. CASE UNCHANGED vars
      BY <3>3 DEF vars
    <3> QED BY <1>3, <3>1, <3>2, <3>3 DEF Next
  <2>2. pc' \in {"start", "pass1"} => pc \in {"start", "pass1"}
    <3>1. CASE Start \/ Refuse \/ EndOfFile \/ AsmFlash \/ AsmFlashThrows \/ Assembled
      BY <3>1 DEF Start, Refuse, EndOfFile, AsmFlash, AsmFlashThrows, Assembled, More, Goto, End
    <3>2. CASE Open \/ OpenFails \/ append \/ finalize
      BY <3>2 DEF Open, OpenFails, append, finalize, Goto, End
    <3>3. CASE UNCHANGED vars
      BY <3>3 DEF vars
    <3> QED BY <1>3, <3>1, <3>2, <3>3 DEF Next
  <2> QED BY <2>1, <2>2 DEF CountInv, InstructionsBefore
<1> QED BY <1>1, <1>2, <1>3

LEMMA FourBytes ==
  ASSUME NEW w
  PROVE  \E R : Bytes(w) \in Seq(R) /\ Len(Bytes(w)) = 4
<1>1. PICK b3, b2, b1, b0 : b3 = <<w, 3>> /\ b2 = <<w, 2>> /\ b1 = <<w, 1>> /\ b0 = <<w, 0>>
  OBVIOUS
<1>2. Bytes(w) = <<b3, b2, b1, b0>>
  BY <1>1, Zenon DEF Bytes
<1>3. <<b3, b2, b1, b0>> \in Seq({b3, b2, b1, b0}) /\ Len(<<b3, b2, b1, b0>>) = 4
  OBVIOUS
<1> QED BY <1>2, <1>3, Zenon

LEMMA FlashStep ==
  ASSUME FlashInv, [Next]_vars
  PROVE  FlashInv'
<1>1. CASE AsmFlash
  <2>1. PICK r \in assemble(Current.toks, asm_pc) :
          IF r.err = "none"
            THEN /\ prog' = prog \o Bytes(r.val)
                 /\ inst_lengths' = Append(inst_lengths, 4)
                 /\ asm_pc' = asm_pc + 4
                 /\ Goto("pass2")
            ELSE End("error", r.err) /\ UNCHANGED flashvars
    BY <1>1 DEF AsmFlash
  <2>2. CASE r.err = "none"
    <3>1. PICK S : prog \in Seq(S)
      BY DEF FlashInv
    <3>2. PICK R : Bytes(r.val) \in Seq(R) /\ Len(Bytes(r.val)) = 4
      BY FourBytes
    <3>p. PICK bytes : bytes = Bytes(r.val)
      OBVIOUS
    <3> DEFINE T == S \cup R
    <3>3. prog \in Seq(T) /\ bytes \in Seq(T)
      <4>1. S \subseteq T /\ R \subseteq T
        OBVIOUS
      <4>2. bytes \in Seq(R)
        BY <3>2, <3>p
      <4> HIDE DEF T
      <4> QED BY <3>1, <4>1, <4>2, SeqMonotonic
    <3> HIDE DEF T
    <3>4. prog \o bytes \in Seq(T) /\ Len(prog \o bytes) = Len(prog) + 4 /\ Len(prog) \in Nat
      <4>1. Len(bytes) = 4
        BY <3>2, <3>p
      <4>2. Len(prog) \in Nat
        BY <3>3, LenProperties
      <4>3. prog \o bytes \in Seq(T) /\ Len(prog \o bytes) = Len(prog) + Len(bytes)
        BY <3>3, ConcatProperties
      <4> QED BY <4>1, <4>2, <4>3
    <3>5. prog' = prog \o bytes /\ asm_pc' = asm_pc + 4 /\ inst_lengths' = Append(inst_lengths, 4)
      BY <2>1, <2>2, <3>p
    <3>6. inst_lengths' \in Seq({4}) /\ Len(inst_lengths') = Len(inst_lengths) + 1
          /\ Len(inst_lengths) \in Nat
      BY <3>5 DEF FlashInv
    <3>7. prog' \in Seq(T) /\ Len(prog') = Len(prog) + 4
      BY <3>4, <3>5
    <3>8. asm_pc' = Len(prog') /\ asm_pc' = 4 * Len(inst_lengths')
      BY <3>4, <3>5, <3>6, <3>7 DEF FlashInv
    <3>9. \E U : prog' \in Seq(U)
      BY <3>7
    <3> QED BY <3>6, <3>8, <3>9 DEF FlashInv
  <2>3. CASE r.err # "none"
    BY <2>1, <2>3 DEF flashvars, FlashInv
  <2> QED BY <2>2, <2>3
<1>2. CASE ~ AsmFlash
  <2>1. UNCHANGED flashvars
    <3>1. CASE Start \/ Refuse \/ EndOfFile \/ AsmFlashThrows \/ Assembled
      BY <3>1 DEF Start, Refuse, EndOfFile, AsmFlashThrows, Assembled
    <3>2. CASE Open \/ OpenFails \/ append \/ finalize
      BY <3>2 DEF Open, OpenFails, append, finalize
    <3>3. CASE \E l \in Lines : Unbalanced(l) \/ Duplicate(l) \/ Line(l)
      BY <3>3 DEF Unbalanced, Duplicate, Line, Read
    <3>4. CASE UNCHANGED vars
      BY <3>4 DEF vars, flashvars
    <3> QED BY <1>2, <3>1, <3>2, <3>3, <3>4 DEF Next
  <2> QED BY <2>1 DEF flashvars, FlashInv
<1> QED BY <1>1, <1>2

LEMMA PassInit ==
  ASSUME Init
  PROVE  CountInv /\ FlashInv
<1>1. /\ file = <<>> /\ lines = <<>> /\ equiv_pc = 0 /\ asm_pc = 0 /\ prog = <<>>
      /\ inst_lengths = <<>>
  BY DEF Init
<1>2. InstructionsBefore(1) = 0
  <2>1. {k \in 1 .. 1 - 1 : file[k].toks # <<>>} = {}
    OBVIOUS
  <2> QED BY <2>1, FS_EmptySet, Zenon DEF InstructionsBefore
<1>3. FlashInv
  <2>1. \E S : prog \in Seq(S)
    <3>1. prog \in Seq({})
      BY <1>1
    <3> QED BY <3>1
  <2> QED BY <1>1, <2>1 DEF FlashInv
<1>4. CountInv
  <2>1. Len(file) = 0 /\ Len(lines) = 0 /\ Len(file) + 1 = 1
    BY <1>1
  <2>2. InstructionsBefore(Len(file) + 1) = Len(lines)
    BY <1>2, <2>1
  <2> QED BY <1>1, <2>1, <2>2 DEF CountInv
<1> QED BY <1>3, <1>4

\* Shell::Run: both passes give an instruction the same address, and the table
\* of line numbers leads from it to its line.
THEOREM PassesDoAgree ==
  Spec => []PassesAgree
<1>1. Init => CountInv /\ FlashInv
  BY PassInit
<1>2. CountInv /\ FlashInv /\ [Next]_vars => CountInv' /\ FlashInv'
  BY CountStep, FlashStep
<1>3. CountInv /\ FlashInv => PassesAgree
  <2>1. SUFFICES ASSUME CountInv, FlashInv
                 PROVE  PassesAgree
    OBVIOUS
  <2>2. DOMAIN lines = 1 .. Len(lines) /\ DOMAIN file = 1 .. Len(file)
    BY <2>1 DEF CountInv
  <2>3. ASSUME NEW i \in DOMAIN lines
        PROVE  /\ 4 * (i - 1) \in DOMAIN PC_to_line_number
               /\ PC_to_line_number[4 * (i - 1)] \in DOMAIN file
               /\ lines[i] = Stripped(file[PC_to_line_number[4 * (i - 1)]])
               /\ InstructionsBefore(PC_to_line_number[4 * (i - 1)]) = i - 1
    BY <2>1, <2>2 DEF CountInv
  <2> QED BY <2>1, <2>3 DEF CountInv, FlashInv, PassesAgree
<1> QED BY <1>1, <1>2, <1>3, PTL DEF Spec

-----------------------------------------------------------------------------
(* What the symbols stand for.                                             *)

\* The first line with the label, n, is the one that gave it its address.
Declared(l) ==
  \E n \in 1 .. Len(file) :
    /\ file[n].label = l /\ \A k \in 1 .. n - 1 : file[k].label # l
    /\ syms_to_PC[l] = 4 * InstructionsBefore(n)

LabelInv ==
  /\ pc \in {"start", "pass1"} =>
       \A k \in 1 .. Len(file) : file[k].label \in DOMAIN syms_to_PC \cup {NoLabel}
  /\ \A l \in DOMAIN syms_to_PC : Declared(l)

\* A declaration stays one when a line is added.
LEMMA DeclaredKept ==
  ASSUME CountInv, NEW x \in Lines, file' = Append(file, x),
         NEW l, Declared(l), syms_to_PC'[l] = syms_to_PC[l]
  PROVE  Declared(l)'
<1>1. PICK N \in Nat : N = Len(file)
  BY DEF CountInv
<1>2. /\ Len(file') = N + 1 /\ \A n \in 1 .. N : file'[n] = file[n]
      /\ \A n \in 1 .. N + 1 : InstructionsBefore(n)' = InstructionsBefore(n)
  BY <1>1, CountAppend DEF CountInv
<1>3. PICK n \in 1 .. N :
        /\ file[n].label = l /\ \A k \in 1 .. n - 1 : file[k].label # l
        /\ syms_to_PC[l] = 4 * InstructionsBefore(n)
  BY <1>1 DEF Declared
<1>4. n \in 1 .. Len(file') /\ file'[n].label = l /\ \A k \in 1 .. n - 1 : file'[k].label # l
  BY <1>2, <1>3
<1>5. syms_to_PC'[l] = 4 * (InstructionsBefore(n)')
  BY <1>2, <1>3
<1> QED BY <1>4, <1>5 DEF Declared

LEMMA LabelLine ==
  ASSUME CountInv, LabelInv, NEW x \in Lines, Line(x)
  PROVE  LabelInv'
<1>1. PICK N \in Nat : N = Len(file)
  BY DEF CountInv
<1>2. /\ file' = Append(file, x) /\ pc = "pass1" /\ x.label \notin DOMAIN syms_to_PC
  BY DEF Line, Read
<1>3. /\ Len(file') = N + 1 /\ file'[N + 1] = x /\ \A n \in 1 .. N : file'[n] = file[n]
      /\ \A n \in 1 .. N + 1 : InstructionsBefore(n)' = InstructionsBefore(n)
  BY <1>1, <1>2, CountAppend DEF CountInv
<1>4. CASE x.label = NoLabel
  <2>1. UNCHANGED syms_to_PC
    BY <1>4 DEF Line
  <2>2. \A k \in 1 .. Len(file') : file'[k].label \in DOMAIN syms_to_PC \cup {NoLabel}
    BY <1>1, <1>2, <1>3, <1>4 DEF LabelInv
  <2>3. \A l \in DOMAIN syms_to_PC : Declared(l)'
    BY <1>2, <2>1, DeclaredKept DEF LabelInv
  <2> QED BY <2>1, <2>2, <2>3 DEF LabelInv
<1>5. CASE x.label # NoLabel
  <2>1. syms_to_PC' = Put(syms_to_PC, x.label, equiv_pc)
    BY <1>5 DEF Line, insert
  <2>2. /\ DOMAIN syms_to_PC' = DOMAIN syms_to_PC \cup {x.label}
        /\ syms_to_PC'[x.label] = equiv_pc
        /\ \A l \in DOMAIN syms_to_PC : syms_to_PC'[l] = syms_to_PC[l]
    BY <1>2, <2>1 DEF Put
  <2>3. \A k \in 1 .. Len(file') : file'[k].label \in DOMAIN syms_to_PC' \cup {NoLabel}
    BY <1>1, <1>2, <1>3, <2>2 DEF LabelInv
  <2>4. ASSUME NEW l \in DOMAIN syms_to_PC
        PROVE  Declared(l)'
    BY <1>2, <2>2, <2>4, DeclaredKept DEF LabelInv
  <2>5. Declared(x.label)'
    <3>1. \A k \in 1 .. N : file'[k].label # x.label
      BY <1>1, <1>2, <1>3, <1>5 DEF LabelInv
    <3>2. InstructionsBefore(N + 1)' = Len(lines) /\ equiv_pc = 4 * Len(lines)
      BY <1>1, <1>2, <1>3 DEF CountInv
    <3>3. syms_to_PC'[x.label] = 4 * (InstructionsBefore(N + 1)')
      BY <2>2, <3>2
    <3>4. PICK n \in 1 .. N + 1 : n = N + 1
      OBVIOUS
    <3>5. n \in 1 .. Len(file') /\ file'[n].label = x.label
          /\ \A k \in 1 .. n - 1 : file'[k].label # x.label
      BY <1>3, <3>1, <3>4
    <3> QED BY <3>3, <3>4, <3>5 DEF Declared
  <2> QED BY <2>2, <2>3, <2>4, <2>5 DEF LabelInv
<1> QED BY <1>4, <1>5

LEMMA LabelStep ==
  ASSUME CountInv, LabelInv, [Next]_vars
  PROVE  LabelInv'
<1>1. CASE \E x \in Lines : Line(x)
  BY <1>1, LabelLine
<1>2. CASE \E x \in Lines : Unbalanced(x) \/ Duplicate(x)
  <2>1. PICK x \in Lines : Unbalanced(x) \/ Duplicate(x)
    BY <1>2
  <2>2. file' = Append(file, x) /\ UNCHANGED syms_to_PC /\ pc' = "error"
    BY <2>1 DEF Unbalanced, Duplicate, Read, End, passvars
  <2>3. \A l \in DOMAIN syms_to_PC : Declared(l)'
    BY <2>2, DeclaredKept DEF LabelInv
  <2> QED BY <2>2, <2>3 DEF LabelInv
<1>3. CASE ~ \E x \in Lines : Unbalanced(x) \/ Duplicate(x) \/ Line(x)
  <2>1. UNCHANGED <<file, syms_to_PC>> /\ (pc' \in {"start", "pass1"} => pc \in {"start", "pass1"})
    <3>1. CASE Start \/ Refuse \/ EndOfFile
      BY <3>1 DEF Start, Refuse, EndOfFile, passvars, Goto, End
    <3>2. CASE AsmFlash \/ AsmFlashThrows \/ Assembled
      BY <3>2 DEF AsmFlash, AsmFlashThrows, Assembled, passvars, More, Goto, End
    <3>3. CASE Open \/ OpenFails \/ append \/ finalize
      BY <3>3 DEF Open, OpenFails, append, finalize, passvars, Goto, End
    <3>4. CASE UNCHANGED vars
      BY <3>4 DEF vars
    <3> QED BY <1>3, <3>1, <3>2, <3>3, <3>4 DEF Next
  <2>2. \A l \in DOMAIN syms_to_PC : Declared(l) => Declared(l)'
    BY <2>1, Zenon DEF Declared, InstructionsBefore
  <2> QED BY <2>1, <2>2 DEF LabelInv
<1> QED BY <1>1, <1>2, <1>3

\* Shell::Run and syms_table: a label stands for the instruction that follows
\* the first place it is declared at.
THEOREM SymbolsAreRight ==
  Spec => []SymbolsRight
<1>1. Init => CountInv /\ LabelInv
  <2>1. ASSUME Init PROVE LabelInv
    BY <2>1 DEF Init, LabelInv
  <2> QED BY <2>1, PassInit
<1>2. CountInv /\ LabelInv /\ [Next]_vars => CountInv' /\ LabelInv'
  BY CountStep, LabelStep
<1>3. CountInv /\ LabelInv => SymbolsRight
  <2>1. SUFFICES ASSUME CountInv, LabelInv, NEW l \in DOMAIN syms_to_PC
                 PROVE  \E n \in DOMAIN file :
                          /\ file[n].label = l
                          /\ \A k \in 1 .. n - 1 : file[k].label # l
                          /\ syms_to_PC[l] = 4 * InstructionsBefore(n)
    BY DEF SymbolsRight
  <2>2. DOMAIN file = 1 .. Len(file)
    BY <2>1 DEF CountInv
  <2> QED BY <2>1, <2>2 DEF LabelInv, Declared
<1> QED BY <1>1, <1>2, <1>3, PTL DEF Spec

-----------------------------------------------------------------------------
(* What the words are.                                                     *)

\* The immediate of the i-th word, when the i-th line ends in a label.
Encoded(i) ==
  LET args == lines[i].toks
      label == args[Len(args)]
      word == prog[4 * i][1]
  IN  args # <<>> /\ label \in DOMAIN syms_to_PC =>
        /\ args[1] \in BranchInsts =>
             word.imm = offset_to_address_br(4 * (i - 1), syms_to_PC[label]) % ImmSize
        /\ args[1] \in JInsts => word.imm = (syms_to_PC[label] \div 4) % TargetSize

EncodeInv ==
  /\ pc \in {"start", "pass1"} => inst_lengths = <<>>
  /\ Len(inst_lengths) <= Len(lines)
  /\ \A i \in 1 .. Len(inst_lengths) : Encoded(i)

\* What assemble makes of a branch or a jump to a label.
LEMMA AssembleLabel ==
  ASSUME NEW args, args # <<>>, args[Len(args)] \in DOMAIN syms_to_PC, NEW base,
         NEW r \in assemble(args, base), r.err = "none"
  PROVE  /\ args[1] \in BranchInsts =>
              r.val.imm = offset_to_address_br(base, syms_to_PC[args[Len(args)]]) % ImmSize
         /\ args[1] \in JInsts => r.val.imm = (syms_to_PC[args[Len(args)]] \div 4) % TargetSize
<1>1. PICK m, t : m = args[1] /\ t = args[Len(args)] /\ t \in DOMAIN syms_to_PC
  OBVIOUS
<1>2. ASSUME m \in BranchInsts \cup JInsts
      PROVE  \E a \in First(m, args[2]),
                c \in IF Len(args) > 3 THEN Third(m, args[4], base) ELSE {Value(0)} : \E b :
               r.val = generic_mips32_encode(m, a.val, b, c.val)
  <2>1. m \in RInsts \cup IInsts \cup JInsts /\ m \notin MemInsts
    BY <1>2 DEF IInsts, BranchInsts, JInsts, MemInsts
  <2>2. Len(args) = ArgCount(m)
    BY <1>1, <2>1 DEF assemble, Throw
  <2> DEFINE third == IF Len(args) > 3 THEN Third(m, args[4], base) ELSE {Value(0)}
             second == IF Len(args) > 2 THEN Second(m, args[3]) ELSE {Value(0)}
             first(a, b, c) == IF a.err # "none" THEN a ELSE IF b.err # "none" THEN b ELSE c
  <2>3. assemble(args, base) =
          {IF first(a, b, c).err # "none" THEN first(a, b, c)
           ELSE Value(generic_mips32_encode(m, a.val, b.val, c.val)) :
             a \in First(m, args[2]), b \in second, c \in third}
    BY <1>1, <2>1, <2>2 DEF assemble
  <2> HIDE DEF second, third
  <2>4. PICK a \in First(m, args[2]), b \in second, c \in third :
          r = IF first(a, b, c).err # "none" THEN first(a, b, c)
              ELSE Value(generic_mips32_encode(m, a.val, b.val, c.val))
    BY <2>3
  <2>5. r = Value(generic_mips32_encode(m, a.val, b.val, c.val))
    BY <2>4
  <2>6. r.val = generic_mips32_encode(m, a.val, b.val, c.val)
    BY <2>5 DEF Value
  <2> QED BY <2>6 DEF third
<1>3. ASSUME m \in BranchInsts
      PROVE  r.val.imm = offset_to_address_br(base, syms_to_PC[t]) % ImmSize
  <2>1. /\ m # "jr" /\ m \notin RInsts /\ m \notin ShiftInsts /\ m \notin JInsts
        /\ m \notin MemInsts /\ m \in IInsts
    BY <1>3 DEF BranchInsts, RInsts, ShiftInsts, JInsts, MemInsts, IInsts
  <2>2. Len(args) = 4
    BY <1>1, <2>1 DEF assemble, Throw, ArgCount
  <2>3. Third(m, args[4], base) = {Value(offset_to_address_br(base, syms_to_PC[t]))}
    BY <1>1, <2>1, <2>2 DEF Third
  <2>4. PICK a, b, c : /\ c = Value(offset_to_address_br(base, syms_to_PC[t]))
                       /\ r.val = generic_mips32_encode(m, a, b, c.val)
    BY <1>2, <1>3, <2>2, <2>3
  <2>5. generic_mips32_encode(m, a, b, c.val) = Word(m, b % 32, a % 32, 0, c.val % ImmSize)
    BY <2>1 DEF generic_mips32_encode
  <2> QED BY <2>4, <2>5 DEF Word, Value
<1>4. ASSUME m \in JInsts
      PROVE  r.val.imm = (syms_to_PC[t] \div 4) % TargetSize
  <2>1. /\ m # "jr" /\ m \notin RInsts /\ m \notin ShiftInsts /\ m \notin IInsts
        /\ m \notin MemInsts
    BY <1>4 DEF BranchInsts, RInsts, ShiftInsts, JInsts, MemInsts, IInsts
  <2>2. Len(args) = 2
    BY <1>1, <1>4, <2>1 DEF assemble, Throw, ArgCount
  <2>3. First(m, args[2]) = {Value(syms_to_PC[t] \div 4)}
    BY <1>1, <1>4, <2>2 DEF First
  <2>4. PICK a, b, c : /\ a = Value(syms_to_PC[t] \div 4)
                       /\ r.val = generic_mips32_encode(m, a.val, b, c)
    BY <1>2, <1>4, <2>2, <2>3
  <2>5. generic_mips32_encode(m, a.val, b, c) = Word(m, 0, 0, 0, a.val % TargetSize)
    BY <1>4, <2>1 DEF generic_mips32_encode
  <2> QED BY <2>4, <2>5 DEF Word, Value
<1> QED BY <1>1, <1>3, <1>4

LEMMA EncodedKept ==
  ASSUME NEW i \in Nat \ {0}, Encoded(i), UNCHANGED <<lines, syms_to_PC>>,
         prog'[4 * i] = prog[4 * i]
  PROVE  Encoded(i)'
BY DEF Encoded

LEMMA EncodeStep ==
  ASSUME CountInv, FlashInv, EncodeInv, [Next]_vars
  PROVE  EncodeInv'
<1>1. PICK n \in Nat : n = Len(inst_lengths) /\ 4 * n = Len(prog) /\ asm_pc = 4 * n
  BY DEF FlashInv
<1>2. CASE \E l \in Lines : Line(l)
  <2>1. PICK l \in Lines : Line(l)
    BY <1>2
  <2>2. pc = "pass1" /\ UNCHANGED flashvars
    BY <2>1 DEF Line, Read
  <2>3. inst_lengths' = <<>>
    BY <2>2 DEF EncodeInv, flashvars
  <2>4. Len(lines') \in Nat
    BY CountStep DEF CountInv
  <2> QED BY <2>3, <2>4 DEF EncodeInv
<1>3. CASE AsmFlash /\ pc' = "pass2"
  <2>1. UNCHANGED <<lines, syms_to_PC>> /\ n < Len(lines)
    BY <1>1, <1>3 DEF AsmFlash, passvars, More
  <2>2. PICK r \in assemble(Current.toks, asm_pc) :
          /\ r.err = "none" /\ prog' = prog \o Bytes(r.val)
          /\ inst_lengths' = Append(inst_lengths, 4)
    BY <1>3 DEF AsmFlash, End
  <2>3. PICK S : prog \in Seq(S)
    BY DEF FlashInv
  <2>4. PICK R, b : b = Bytes(r.val) /\ b \in Seq(R) /\ Len(b) = 4
    BY FourBytes
  <2>5. /\ \A k \in 1 .. 4 * n : prog'[k] = prog[k]
        /\ \A j \in 1 .. 4 : prog'[4 * n + j] = b[j]
    <3>1. PICK v \in Nat : v = 4 * n
      OBVIOUS
    <3>2. \A k \in 1 .. v + 4 : (prog \o b)[k] = IF k <= v THEN prog[k] ELSE b[k - v]
      <4>1. PICK T : T = S \cup R
        OBVIOUS
      <4>2. prog \in Seq(T) /\ b \in Seq(T)
        BY <2>3, <2>4, <4>1, SeqMonotonic
      <4>3. Len(prog) = v
        BY <1>1, <3>1
      <4> QED BY <2>4, <4>2, <4>3, ConcatProperties, SMTT(20)
    <3>3. prog' = prog \o b
      BY <2>2, <2>4
    <3>4. ASSUME NEW k \in 1 .. v PROVE prog'[k] = prog[k]
      <4>1. k \in 1 .. v + 4 /\ k <= v
        OBVIOUS
      <4>2. (prog \o b)[k] = prog[k]
        BY <3>2, <4>1
      <4> QED BY <3>3, <4>2, Zenon
    <3>5. ASSUME NEW j \in 1 .. 4 PROVE prog'[v + j] = b[j]
      <4>1. PICK k \in 1 .. v + 4 : k = v + j /\ ~ k <= v /\ k - v = j
        OBVIOUS
      <4>2. (prog \o b)[k] = b[j]
        BY <3>2, <4>1
      <4> QED BY <3>3, <4>1, <4>2, Zenon
    <3> QED BY <3>1, <3>4, <3>5
  <2>6. Len(inst_lengths') = n + 1
    BY <1>1, <2>2 DEF FlashInv
  <2>7. ASSUME NEW i \in 1 .. n + 1
        PROVE  Encoded(i)'
    <3>1. CASE i = n + 1
      <4>1. 4 * (i - 1) = 4 * n
        BY <3>1
      <4>2. PICK args : args = lines[i].toks /\ args = Current.toks
        BY <1>1, <3>1 DEF Current
      <4>3. r \in assemble(args, 4 * (i - 1)) /\ r.err = "none"
        BY <1>1, <2>2, <4>1, <4>2
      <4>4. prog'[4 * i][1] = r.val
        <5>1. 4 * i = 4 * n + 4
          BY <3>1
        <5>2. prog'[4 * i] = b[4]
          BY <2>5, <5>1
        <5> QED BY <2>4, <5>2 DEF Bytes
      <4>5. UNCHANGED <<syms_to_PC, lines>>
        BY <2>1
      <4>6. ASSUME args # <<>>, args[Len(args)] \in DOMAIN syms_to_PC
            PROVE  /\ args[1] \in BranchInsts =>
                        r.val.imm = offset_to_address_br(4 * (i - 1), syms_to_PC[args[Len(args)]])
                                      % ImmSize
                   /\ args[1] \in JInsts =>
                        r.val.imm = (syms_to_PC[args[Len(args)]] \div 4) % TargetSize
        BY <4>3, <4>6, AssembleLabel
      <4> QED BY <4>2, <4>4, <4>5, <4>6 DEF Encoded
    <3>2. CASE i # n + 1
      <4>1. i \in 1 .. n /\ i \in Nat \ {0} /\ 4 * i \in 1 .. 4 * n
        BY <3>2
      <4>2. Encoded(i)
        BY <1>1, <4>1 DEF EncodeInv
      <4> QED BY <2>1, <2>5, <4>1, <4>2, EncodedKept
    <3> QED BY <3>1, <3>2
  <2> QED BY <1>3, <2>1, <2>6, <2>7 DEF EncodeInv, CountInv
<1>4. CASE ~ (\E l \in Lines : Line(l)) /\ ~ (AsmFlash /\ pc' = "pass2")
  <2>1. UNCHANGED <<lines, syms_to_PC>>
    BY <1>4, TableKept
  <2>2. /\ UNCHANGED <<prog, inst_lengths>>
        /\ pc' \in {"start", "pass1"} => pc \in {"start", "pass1"}
    <3>1. CASE Start \/ Refuse \/ EndOfFile \/ AsmFlashThrows \/ Assembled
      BY <3>1 DEF Start, Refuse, EndOfFile, AsmFlashThrows, Assembled, flashvars, Goto, End, More
    <3>2. CASE AsmFlash
      BY <1>4, <3>2 DEF AsmFlash, flashvars, Goto, End, More
    <3>3. CASE Open \/ OpenFails \/ append \/ finalize
      BY <3>3 DEF Open, OpenFails, append, finalize, flashvars, Goto, End
    <3>4. CASE \E l \in Lines : Unbalanced(l) \/ Duplicate(l)
      BY <3>4 DEF Unbalanced, Duplicate, Read, flashvars, End
    <3>5. CASE UNCHANGED vars
      BY <3>5 DEF vars
    <3> QED BY <1>4, <3>1, <3>2, <3>3, <3>4, <3>5 DEF Next
  <2>3. ASSUME NEW i \in 1 .. Len(inst_lengths)
        PROVE  Encoded(i)'
    <3>1. i \in Nat \ {0} /\ Encoded(i)
      BY <1>1 DEF EncodeInv
    <3> QED BY <2>1, <2>2, <3>1, EncodedKept
  <2> QED BY <2>1, <2>2, <2>3 DEF EncodeInv
<1> QED BY <1>2, <1>3, <1>4

\* The immediate of a branch is the offset modulo the size of its field.
LEMMA OffsetKept ==
  ASSUME NEW x \in Int
  PROVE  (((4 * x) % AddressSpace) \div 4) % ImmSize = x % ImmSize
<1>1. PICK A \in Nat \ {0}, I \in Nat \ {0} : A = AddressSpace /\ I = ImmSize /\ A % (4 * I) = 0
  BY AssemblerAssumption
<1>2. PICK k \in Int : A = 4 * (I * k)
  <2>1. PICK w \in Nat \ {0} : w = 4 * I
    OBVIOUS
  <2>2. A = w * (A \div w) + (A % w) /\ A \div w \in Int
    BY Division
  <2>3. PICK k \in Int : k = A \div w /\ A = w * k
    BY <1>1, <2>1, <2>2
  <2>4. (4 * I) * k = 4 * (I * k)
    OBVIOUS
  <2> QED BY <2>1, <2>3, <2>4
<1>3. PICK q \in Int, m \in 0 .. A - 1 : m = (4 * x) % A /\ 4 * x = A * q + m
  <2>1. PICK y \in Int : y = 4 * x
    OBVIOUS
  <2>2. y \div A \in Int /\ y % A \in 0 .. A - 1 /\ y = A * (y \div A) + (y % A)
    BY Division
  <2> QED BY <2>1, <2>2
<1>4. PICK h \in Int : h = k * q
  OBVIOUS
<1>5. A * q = 4 * (I * h)
  <2>1. PICK g \in Int : g = I * k
    OBVIOUS
  <2>2. A * q = (4 * g) * q
    BY <1>2, <2>1
  <2>3. (4 * g) * q = 4 * (g * q)
    OBVIOUS
  <2>4. (I * k) * q = I * (k * q)
    OBVIOUS
  <2> QED BY <1>4, <2>1, <2>2, <2>3, <2>4
<1>6. PICK v \in Int : v = I * h /\ m = 4 * (x - v)
  <2>1. PICK v \in Int : v = I * h
    OBVIOUS
  <2>2. 4 * x = 4 * v + m
    BY <1>3, <1>5, <2>1
  <2> QED BY <2>1, <2>2
<1>7. m \div 4 = x - v
  BY <1>6
<1>8. (x - v) % I = x % I
  <2>1. PICK e \in Int, z \in Int : e = - h /\ z = x - v
    OBVIOUS
  <2>2. z = x + I * e
    <3>1. I * e = - (I * h)
      BY <2>1
    <3> QED BY <1>6, <2>1, <3>1
  <2>3. z % I = x % I
    BY <2>2, Congruence
  <2> QED BY <2>1, <2>3
<1> QED BY <1>1, <1>3, <1>7, <1>8

\* A field that is read as a signed number gives the offset back.
LEMMA SignedKept ==
  ASSUME NEW x \in Int, 2 * x \in - ImmSize .. ImmSize - 1
  PROVE  Signed(x % ImmSize) = x
<1>1. PICK I \in Nat \ {0} : I = ImmSize
  BY AssemblerAssumption
<1>2. 2 * x >= - I /\ 2 * x <= I - 1
  BY <1>1
<1>3. CASE x >= 0
  <2>1. x \in 0 .. I - 1
    BY <1>2, <1>3
  <2>2. PICK q \in Int : q = 0 /\ I * q = 0 /\ I * q + x = x
    OBVIOUS
  <2>3. (I * q + x) % I = x
    BY <2>1, DivisionUnique
  <2> QED BY <1>1, <1>2, <2>2, <2>3 DEF Signed
<1>4. CASE x < 0
  <2>1. PICK y \in 0 .. I - 1 : y = x + I
    BY <1>2, <1>4
  <2>2. PICK q \in Int : q = - 1 /\ I * q = - I
    OBVIOUS
  <2>3. I * q + y = x
    BY <2>1, <2>2
  <2>4. (I * q + y) % I = y
    BY DivisionUnique
  <2>5. x % I = y
    BY <2>3, <2>4
  <2> QED BY <1>1, <1>2, <2>1, <2>5 DEF Signed
<1> QED BY <1>3, <1>4

\* MIPS_32 and offset_to_address_br: a branch or a jump to a label that is near
\* enough for its field goes there.
THEOREM BranchesReach ==
  Spec => []BranchReaches
<1>1. Init => CountInv /\ FlashInv /\ LabelInv /\ EncodeInv
  <2>1. Init => EncodeInv
    BY DEF Init, EncodeInv
  <2>2. Init => LabelInv
    BY DEF Init, LabelInv
  <2> QED BY <2>1, <2>2, PassInit
<1>2. CountInv /\ FlashInv /\ LabelInv /\ EncodeInv /\ [Next]_vars
        => CountInv' /\ FlashInv' /\ LabelInv' /\ EncodeInv'
  BY CountStep, FlashStep, LabelStep, EncodeStep
<1>3. CountInv /\ FlashInv /\ LabelInv /\ EncodeInv => BranchReaches
  <2>1. SUFFICES ASSUME CountInv, FlashInv, LabelInv, EncodeInv,
                        NEW i \in DOMAIN inst_lengths,
                        NEW args, args = lines[i].toks, NEW label, label = args[Len(args)],
                        args # <<>>, label \in DOMAIN syms_to_PC
                 PROVE  LET word == prog[4 * i][1]
                            here == 4 * (i - 1)
                            target == syms_to_PC[label]
                            offset == (target - here - 4) \div 4
                        IN  /\ args[1] \in BranchInsts /\ 2 * offset \in - ImmSize .. ImmSize - 1 =>
                                 here + 4 + 4 * Signed(word.imm) = target
                            /\ args[1] \in JInsts /\ target < 4 * TargetSize => 4 * word.imm = target
    BY DEF BranchReaches
  <2>2. i \in 1 .. Len(inst_lengths) /\ i \in Nat
    BY <2>1 DEF FlashInv
  <2>3. PICK word : word = prog[4 * i][1]
    OBVIOUS
  <2>4. /\ args[1] \in BranchInsts =>
             word.imm = offset_to_address_br(4 * (i - 1), syms_to_PC[label]) % ImmSize
        /\ args[1] \in JInsts => word.imm = (syms_to_PC[label] \div 4) % TargetSize
    BY <2>1, <2>2, <2>3 DEF EncodeInv, Encoded
  <2>5. PICK k \in Nat : syms_to_PC[label] = 4 * k
    <3>1. PICK n \in 1 .. Len(file) : syms_to_PC[label] = 4 * InstructionsBefore(n)
      BY <2>1 DEF LabelInv, Declared
    <3>2. n \in Nat
      OBVIOUS
    <3>3. InstructionsBefore(n) \in Nat
      BY <3>2, FilledFinite, FS_CardinalityType
    <3> QED BY <3>1, <3>3
  <2>6. PICK x \in Int : x = k - i
    BY <2>2
  <2>7. /\ syms_to_PC[label] - 4 * (i - 1) - 4 = 4 * x
        /\ (syms_to_PC[label] - 4 * (i - 1) - 4) \div 4 = x
    <3>1. 4 * k - 4 * (i - 1) - 4 = 4 * x /\ (4 * x) \div 4 = x
      BY <2>2, <2>6
    <3> QED BY <2>5, <3>1
  <2>8. ASSUME args[1] \in BranchInsts, 2 * x \in - ImmSize .. ImmSize - 1
        PROVE  4 * (i - 1) + 4 + 4 * Signed(word.imm) = syms_to_PC[label]
    <3>1. word.imm = (((4 * x) % AddressSpace) \div 4) % ImmSize
      BY <2>4, <2>7, <2>8 DEF offset_to_address_br
    <3>2. word.imm = x % ImmSize
      BY <3>1, OffsetKept
    <3>3. Signed(word.imm) = x
      BY <2>8, <3>2, SignedKept
    <3> QED BY <2>2, <2>5, <2>6, <3>3
  <2>9. ASSUME args[1] \in JInsts, syms_to_PC[label] < 4 * TargetSize
        PROVE  4 * word.imm = syms_to_PC[label]
    <3>1. PICK T \in Nat \ {0} : T = TargetSize
      BY AssemblerAssumption
    <3>2. k \in 0 .. T - 1 /\ (4 * k) \div 4 = k
      BY <2>5, <2>9, <3>1
    <3>3. k % T = k
      <4>1. PICK q \in Int : q = 0 /\ T * q = 0 /\ T * q + k = k
        OBVIOUS
      <4>2. (T * q + k) % T = k
        BY <3>2, DivisionUnique
      <4> QED BY <4>1, <4>2
    <3>4. word.imm = k
      BY <2>4, <2>5, <2>9, <3>1, <3>2, <3>3
    <3> QED BY <2>5, <3>4
  <2> QED BY <2>3, <2>7, <2>8, <2>9
<1> QED BY <1>1, <1>2, <1>3, PTL DEF Spec

-----------------------------------------------------------------------------
(* Types.                                                                  *)

LEMMA RegisterResults ==
  ASSUME NEW t, NEW a \in Register(t)
  PROVE  a.err \in Exceptions
<1>1. \A v : Value(v).err = "none"
  BY DEF Value
<1>2. \A e : Throw(e).err = e
  BY DEF Throw
<1>3. {"none", "mt_bad_imm", "mt_bad_reg_format", "mt_parse_unexpected"} \subseteq Exceptions
  BY DEF Exceptions
<1>4. CASE friendly_to_numerical(t) # {}
  BY <1>1, <1>3, <1>4 DEF Register
<1>5. CASE friendly_to_numerical(t) = {}
  <2>1. a \in get_reg_num(t)
    BY <1>5 DEF Register
  <2> QED BY <1>1, <1>2, <1>3, <2>1 DEF get_reg_num
<1> QED BY <1>4, <1>5

LEMMA ArgumentResults ==
  ASSUME NEW m, NEW t, NEW base
  PROVE  /\ \A a \in get_imm(t) : a.err \in Exceptions
         /\ \A a \in First(m, t) : a.err \in Exceptions
         /\ \A a \in Second(m, t) : a.err \in Exceptions
         /\ \A a \in Third(m, t, base) : a.err \in Exceptions
<1>1. \A v : Value(v).err \in Exceptions
  BY DEF Value, Exceptions
<1>2. Throw("mt_bad_imm").err \in Exceptions /\ Throw("mt_unmatched_parenthesis").err \in Exceptions
  BY DEF Throw, Exceptions
<1>3. \A a \in get_imm(t) : a.err \in Exceptions
  BY <1>1, <1>2 DEF get_imm
<1>4. \A a \in First(m, t) : a.err \in Exceptions
  BY <1>1, <1>3, RegisterResults DEF First
<1>5. \A a \in Second(m, t) : a.err \in Exceptions
  BY <1>2, RegisterResults DEF Second
<1>6. \A a \in Third(m, t, base) : a.err \in Exceptions
  BY <1>1, <1>3, RegisterResults DEF Third
<1> QED BY <1>3, <1>4, <1>5, <1>6

LEMMA AssembleResults ==
  ASSUME NEW args, NEW base, NEW r \in assemble(args, base)
  PROVE  r.err \in Exceptions
<1>1. \A v : Value(v).err \in Exceptions
  BY DEF Value, Exceptions
<1>2. Throw("mt_bad_mnemonic").err \in Exceptions /\ Throw("mt_asm_bad_arg_count").err \in Exceptions
  BY DEF Throw, Exceptions
<1>3. CASE args = <<>> \/ args[1] \notin RInsts \cup IInsts \cup JInsts \/ Len(args) # ArgCount(args[1])
  BY <1>1, <1>2, <1>3 DEF assemble
<1>4. CASE ~ (args = <<>> \/ args[1] \notin RInsts \cup IInsts \cup JInsts \/ Len(args) # ArgCount(args[1]))
  <2> DEFINE m == args[1]
             second == IF Len(args) > 2 THEN Second(m, args[3]) ELSE {Value(0)}
             third == IF m \in MemInsts
                        THEN IF args[3] \in DOMAIN Parenthesised
                               THEN get_imm(Parenthesised[args[3]][1]) ELSE {Value(0)}
                        ELSE IF Len(args) > 3 THEN Third(m, args[4], base) ELSE {Value(0)}
             first(a, b, c) == IF a.err # "none" THEN a ELSE IF b.err # "none" THEN b ELSE c
  <2>1. assemble(args, base) =
          {IF first(a, b, c).err # "none" THEN first(a, b, c)
           ELSE Value(generic_mips32_encode(m, a.val, b.val, c.val)) :
             a \in First(m, args[2]), b \in second, c \in third}
    BY <1>4 DEF assemble
  <2>2. \A b \in second : b.err \in Exceptions
    BY <1>1, ArgumentResults
  <2>3. \A c \in third : c.err \in Exceptions
    BY <1>1, ArgumentResults
  <2>4. \A a \in First(m, args[2]) : a.err \in Exceptions
    BY ArgumentResults
  <2> HIDE DEF second, third, m
  <2>5. PICK a \in First(m, args[2]), b \in second, c \in third :
          r = IF first(a, b, c).err # "none" THEN first(a, b, c)
              ELSE Value(generic_mips32_encode(m, a.val, b.val, c.val))
    BY <2>1
  <2> QED BY <1>1, <2>2, <2>3, <2>4, <2>5
<1> QED BY <1>3, <1>4

LEMMA ShortSequences ==
  ASSUME NEW S, NEW c \in S
  PROVE  <<>> \in Seq(S) /\ <<c>> \in Seq(S)
OBVIOUS

LEMMA StrippedType ==
  ASSUME NEW l \in Lines
  PROVE  Stripped(l) \in [toks : Seq(STRING), bad : BOOLEAN]
<1>1. l.toks \in Seq(STRING)
  BY AssemblerAssumption
<1>2. CASE l.end = "token"
  <2>1. l.toks # <<>> /\ Clip[Last(l.toks)] \in STRING
    BY <1>2, AssemblerAssumption
  <2>2. PICK n \in Nat \ {0} : n = Len(l.toks)
    BY <1>1, <2>1
  <2>3. Front(l.toks) \in Seq(STRING)
    <3>1. 1 \in 1 .. n + 1 /\ n - 1 \in 1 - 1 .. n
      OBVIOUS
    <3>2. SubSeq(l.toks, 1, n - 1) \in Seq(STRING)
      BY <1>1, <2>2, <3>1, Part
    <3> QED BY <2>2, <3>2 DEF Front
  <2>4. PICK c \in STRING : c = Clip[Last(l.toks)]
    BY <2>1
  <2>5. PICK v : v = IF c = "" THEN <<>> ELSE <<c>>
    OBVIOUS
  <2>6. v \in Seq(STRING)
    <3>1. <<>> \in Seq(STRING) /\ <<c>> \in Seq(STRING)
      BY ShortSequences, Zenon
    <3> QED BY <2>5, <3>1, Zenon
  <2>7. Front(l.toks) \o v \in Seq(STRING)
    BY <2>3, <2>6
  <2> QED BY <1>2, <2>4, <2>5, <2>7 DEF Stripped
<1>3. CASE l.end # "token"
  BY <1>1, <1>3 DEF Stripped
<1> QED BY <1>2, <1>3

TypeInv ==
  /\ pc \in {"start", "pass1", "pass2", "open", "append"} \cup Ended
  /\ error \in Exceptions
  /\ Len(file) <= MaxLines
  /\ DOMAIN syms_to_PC \subseteq Labels
  /\ \A l \in DOMAIN syms_to_PC : syms_to_PC[l] \in 0 .. equiv_pc
  /\ Len(prog) <= MaxProgram
  /\ ind \in Nat /\ ind <= Len(inst_lengths)

LEMMA TypeInit ==
  ASSUME Init
  PROVE  TypeInv
<1>1. Len(<<>>) = 0 /\ DOMAIN <<>> = {}
  OBVIOUS
<1> QED BY <1>1, AssemblerAssumption DEF Init, TypeInv, Exceptions

LEMMA TypeLine ==
  ASSUME CountInv, FlashInv, TypeInv, NEW l \in Lines, Line(l)
  PROVE  TypeInv'
<1>1. /\ pc' = "pass1" /\ UNCHANGED <<error, prog, inst_lengths, ind>>
      /\ Len(file) < MaxLines /\ file' = Append(file, l) /\ l.label \notin DOMAIN syms_to_PC
  BY DEF Line, Read, Goto, flashvars, outvars
<1>2. Len(file') <= MaxLines
  BY <1>1, AssemblerAssumption DEF CountInv
<1>3. equiv_pc \in Nat /\ equiv_pc' \in Nat /\ equiv_pc' >= equiv_pc
  BY DEF CountInv, Line
<1>4. DOMAIN syms_to_PC' \subseteq Labels /\ \A x \in DOMAIN syms_to_PC' : syms_to_PC'[x] \in 0 .. equiv_pc'
  <2>1. CASE l.label = NoLabel
    BY <1>3, <2>1 DEF Line, TypeInv
  <2>2. CASE l.label # NoLabel
    <3>1. syms_to_PC' = Put(syms_to_PC, l.label, equiv_pc) /\ l.label \in Labels
      BY <2>2 DEF Line, insert, Labels
    <3>2. /\ DOMAIN syms_to_PC' = DOMAIN syms_to_PC \cup {l.label}
          /\ \A x \in DOMAIN syms_to_PC' :
               syms_to_PC'[x] = IF x = l.label THEN equiv_pc ELSE syms_to_PC[x]
      BY <3>1 DEF Put
    <3> QED BY <1>3, <3>1, <3>2 DEF TypeInv
  <2> QED BY <2>1, <2>2
<1> QED BY <1>1, <1>2, <1>4 DEF TypeInv

LEMMA TypeStep ==
  ASSUME CountInv, FlashInv, EncodeInv, TypeInv, [Next]_vars
  PROVE  TypeInv'
<1>1. CASE \E l \in Lines : Line(l)
  BY <1>1, TypeLine
<1>2. ASSUME ~ \E l \in Lines : Line(l)
      PROVE  UNCHANGED <<equiv_pc, syms_to_PC>>
  BY <1>2, TableKept
<1>3. CASE \E l \in Lines : Unbalanced(l) \/ Duplicate(l)
  <2>1. PICK l \in Lines : Unbalanced(l) \/ Duplicate(l)
    BY <1>3
  <2>2. /\ pc' = "error" /\ error' \in {"mt_bad_escape", "mt_multidef_symbol"}
        /\ UNCHANGED <<prog, inst_lengths, ind, equiv_pc, syms_to_PC>>
        /\ Len(file) < MaxLines /\ file' = Append(file, l)
    BY <2>1 DEF Unbalanced, Duplicate, Read, End, flashvars, outvars, passvars
  <2>3. Len(file') <= MaxLines
    BY <2>2, AssemblerAssumption DEF CountInv
  <2> QED BY <2>2, <2>3 DEF TypeInv, Ended, Exceptions
<1>4. CASE Start \/ Refuse \/ EndOfFile \/ Assembled \/ Open \/ OpenFails \/ finalize
  <2>1. UNCHANGED <<file, prog, inst_lengths, ind, equiv_pc, syms_to_PC>>
    BY <1>4 DEF Start, Refuse, EndOfFile, Assembled, Open, OpenFails, finalize, flashvars, outvars,
                passvars
  <2>2. /\ pc' \in {"pass1", "error", "pass2", "open", "append", "done"}
        /\ error' = error \/ error' \in {"options", "mt_illegal_file_error", "none"}
    BY <1>4 DEF Start, Refuse, EndOfFile, Assembled, Open, OpenFails, finalize, Goto, End
  <2> QED BY <2>1, <2>2 DEF TypeInv, Ended, Exceptions
<1>5. CASE AsmFlash
  <2>1. UNCHANGED <<file, ind, equiv_pc, syms_to_PC>> /\ Len(prog) + 4 <= MaxProgram
    BY <1>5 DEF AsmFlash, passvars, outvars
  <2>2. PICK r \in assemble(Current.toks, asm_pc) :
          IF r.err = "none"
            THEN /\ prog' = prog \o Bytes(r.val)
                 /\ inst_lengths' = Append(inst_lengths, 4)
                 /\ asm_pc' = asm_pc + 4
                 /\ Goto("pass2")
            ELSE End("error", r.err) /\ UNCHANGED flashvars
    BY <1>5 DEF AsmFlash
  <2>3. CASE r.err = "none"
    <3>1. /\ inst_lengths' = Append(inst_lengths, 4) /\ pc' = "pass2" /\ error' = error
          /\ asm_pc' = asm_pc + 4
      BY <2>2, <2>3 DEF Goto
    <3>2. Len(inst_lengths') = Len(inst_lengths) + 1 /\ Len(inst_lengths) \in Nat
      BY <3>1 DEF FlashInv
    <3>3. Len(prog') = Len(prog) + 4
      BY <3>1, FlashStep DEF FlashInv
    <3> QED BY <2>1, <3>1, <3>2, <3>3 DEF TypeInv
  <2>4. CASE r.err # "none"
    <3>1. r.err \in Exceptions
      BY AssembleResults
    <3> QED BY <2>1, <2>2, <2>4, <3>1 DEF TypeInv, End, Ended, flashvars
  <2> QED BY <2>3, <2>4
<1>6. CASE AsmFlashThrows
  <2>1. UNCHANGED <<file, prog, inst_lengths, ind, equiv_pc, syms_to_PC>>
    BY <1>6 DEF AsmFlashThrows, flashvars, passvars, outvars
  <2>2. pc' \in Ended /\ error' \in Exceptions
    <3>1. CASE End("terminated", "mt_bad_escape")
      BY <3>1 DEF End, Ended, Exceptions
    <3>2. CASE \E r \in assemble(Current.toks, asm_pc) :
                 IF r.err = "none" THEN End("terminated", "mt_program_size_violation")
                                   ELSE End("error", r.err)
      BY <3>2, AssembleResults DEF End, Ended, Exceptions
    <3> QED BY <1>6, <3>1, <3>2 DEF AsmFlashThrows
  <2> QED BY <2>1, <2>2 DEF TypeInv
<1>7. CASE append
  <2>1. /\ UNCHANGED <<pc, error, file, prog, inst_lengths, equiv_pc, syms_to_PC>>
        /\ ind' = ind + 1 /\ 4 * ind < Len(prog)
    BY <1>7 DEF append, addr, flashvars, passvars
  <2>2. Len(prog) = 4 * Len(inst_lengths) /\ Len(inst_lengths) \in Nat /\ ind \in Nat
    BY DEF FlashInv, TypeInv
  <2>3. ind' \in Nat /\ ind' <= Len(inst_lengths)
    BY <2>1, <2>2
  <2> QED BY <2>1, <2>3 DEF TypeInv
<1>8. CASE UNCHANGED vars
  BY <1>8 DEF vars, TypeInv
<1> QED BY <1>1, <1>3, <1>4, <1>5, <1>6, <1>7, <1>8 DEF Next

\* Shell::Run: every table and buffer has its type, the program is never longer
\* than MAX_PROGRAM, and nothing is appended that was not assembled.
THEOREM AsmTypes ==
  Spec => []AsmTypeOK
<1>1. Init => CountInv /\ FlashInv /\ EncodeInv /\ TypeInv
  <2>1. Init => EncodeInv
    BY DEF Init, EncodeInv
  <2> QED BY <2>1, PassInit, TypeInit
<1>2. CountInv /\ FlashInv /\ EncodeInv /\ TypeInv /\ [Next]_vars
        => CountInv' /\ FlashInv' /\ EncodeInv' /\ TypeInv'
  BY CountStep, FlashStep, EncodeStep, TypeStep
<1>3. CountInv /\ FlashInv /\ EncodeInv /\ TypeInv => AsmTypeOK
  <2>1. SUFFICES ASSUME CountInv, FlashInv, EncodeInv, TypeInv
                 PROVE  AsmTypeOK
    OBVIOUS
  <2>2. Kept \subseteq [toks : Seq(STRING), bad : BOOLEAN]
    BY StrippedType DEF Kept
  <2>3. lines \in Seq([toks : Seq(STRING), bad : BOOLEAN])
    <3>1. PICK K : K = [toks : Seq(STRING), bad : BOOLEAN]
      OBVIOUS
    <3>2. Kept \subseteq K /\ lines \in Seq(Kept)
      BY <2>1, <2>2, <3>1 DEF CountInv
    <3>3. lines \in Seq(K)
      BY <3>2, SeqMonotonic
    <3> QED BY <3>1, <3>3
  <2>4. equiv_pc \in Nat /\ asm_pc \in Nat
    BY <2>1 DEF CountInv, FlashInv
  <2> QED BY <2>1, <2>3, <2>4 DEF AsmTypeOK, TypeInv, EncodeInv, CountInv
<1> QED BY <1>1, <1>2, <1>3, PTL DEF Spec

\* A text in rows of w, each back to front, the last one filled up.
RowCount(p, w) == Len(p) \div w + IF Len(p) % w # 0 THEN 1 ELSE 0
PaddedRows(p, w, zero) ==
  [r \in 1 .. RowCount(p, w) |->
     [k \in 1 .. w |-> IF w * r + 1 - k <= Len(p) THEN p[w * r + 1 - k] ELSE zero]]

LEMMA RowsBack ==
  ASSUME NEW S, NEW p \in Seq(S), NEW w \in Nat \ {0}, NEW zero,
         NEW rows, rows = PaddedRows(p, w, zero), NEW D, D = RowCount(p, w),
         NEW back, back = FlattenSeq([i \in DOMAIN rows |-> Reverse(rows[i])])
  PROVE  /\ D \in Nat /\ Len(rows) = D /\ Len(back) = w * D
         /\ Len(back) - Len(p) \in 0 .. w - 1 /\ SubSeq(back, 1, Len(p)) = p
<1>0. /\ D = Len(p) \div w + IF Len(p) % w # 0 THEN 1 ELSE 0
      /\ rows = [r \in 1 .. D |-> [k \in 1 .. w |->
                   IF w * r + 1 - k <= Len(p) THEN p[w * r + 1 - k] ELSE zero]]
  BY Zenon DEF RowCount, PaddedRows
<1>1. PICK L \in Nat : L = Len(p)
  BY LenProperties
<1>2. PICK q \in Nat, m \in 0 .. w - 1 : q = L \div w /\ m = L % w /\ L = w * q + m
  <2>1. L \div w \in Nat /\ L % w \in 0 .. w - 1 /\ L = w * (L \div w) + (L % w)
    BY Divided
  <2> QED BY <2>1
<1>3. D = q + IF m # 0 THEN 1 ELSE 0
  BY <1>0, <1>1, <1>2
<1>4. PICK a \in Int : a = w * q /\ L = a + m
  <2>1. PICK a \in Int : a = w * q
    OBVIOUS
  <2> QED BY <1>2, <2>1
<1>5. D \in Nat /\ w * D - L \in 0 .. w - 1 /\ L <= w * D
  <2>1. CASE m = 0
    <3>0. D = q
      BY <1>3, <2>1
    <3>1. D = q /\ w * D = a
      BY <1>4, <3>0
    <3> QED BY <1>4, <2>1, <3>1
  <2>2. CASE m # 0
    <3>1. D = q + 1 /\ w * (q + 1) = w * q + w
      BY <1>3, <2>2
    <3>2. w * D = a + w
      BY <1>4, <3>1
    <3> QED BY <1>4, <2>2, <3>1, <3>2
  <2> QED BY <2>1, <2>2
<1>6. PICK T : T = S \cup {zero}
  OBVIOUS
<1>7. ASSUME NEW r \in 1 .. D
      PROVE  /\ rows[r] \in Seq(T) /\ Len(rows[r]) = w
             /\ \A k \in 1 .. w :
                  rows[r][k] = IF w * r + 1 - k <= L THEN p[w * r + 1 - k] ELSE zero
  <2>1. \A k \in 1 .. w : rows[r][k] = IF w * r + 1 - k <= L THEN p[w * r + 1 - k] ELSE zero
    BY <1>0, <1>1, <1>5
  <2>2. ASSUME NEW k \in 1 .. w
        PROVE  rows[r][k] \in T
    <3>1. PICK x \in Int : x = w * r + 1 - k
      BY <1>5
    <3>2. x >= 1
      <4>1. w * r >= w * 1
        BY <1>5, Multiplied
      <4>2. PICK b \in Int : b = w * r
        BY <1>5
      <4>3. b >= w /\ x = b + 1 - k
        BY <3>1, <4>1, <4>2
      <4> QED BY <4>3
    <3>3. x <= L => p[x] \in S
      BY <1>1, <3>2
    <3> QED BY <1>6, <2>1, <3>1, <3>3
  <2>3. rows[r] = [k \in 1 .. w |-> rows[r][k]]
    BY <1>0, <1>5
  <2>4. rows[r] \in [1 .. w -> T]
    BY <2>2, <2>3
  <2>5. rows[r] \in Seq(T) /\ Len(rows[r]) = w
    BY <2>4, SeqDef, LenProperties
  <2> QED BY <2>1, <2>5
<1>8. rows \in Seq(Seq(T)) /\ Len(rows) = D /\ DOMAIN rows = 1 .. D
  <2>1. DOMAIN rows = 1 .. D
    BY <1>0
  <2>2. PICK Q : Q = Seq(T)
    OBVIOUS
  <2>3. rows \in [1 .. D -> Q]
    <3>1. rows = [r \in 1 .. D |-> rows[r]]
      BY <1>0
    <3>2. \A r \in 1 .. D : rows[r] \in Q
      BY <1>7, <2>2
    <3> QED BY <3>1, <3>2
  <2>4. rows \in Seq(Q)
    <3>1. D \in Nat
      BY <1>5
    <3> QED BY <2>3, <3>1, FunctionIsSequence, Zenon
  <2> QED BY <1>5, <2>1, <2>2, <2>4, LenProperties
<1>9. PICK ss : ss = [i \in DOMAIN rows |-> Reverse(rows[i])]
  OBVIOUS
<1>10. ASSUME NEW i \in 1 .. D
       PROVE  /\ ss[i] \in Seq(T) /\ Len(ss[i]) = w
              /\ \A j \in 1 .. w : ss[i][j] = rows[i][w - j + 1]
  <2>1. ss[i] = Reverse(rows[i])
    BY <1>8, <1>9
  <2>2. PICK row : row = rows[i]
    OBVIOUS
  <2>3. row \in Seq(T) /\ Len(row) = w
    BY <1>7, <2>2
  <2>4. /\ Reverse(row) \in Seq(T) /\ Len(Reverse(row)) = w
        /\ \A j \in 1 .. w : Reverse(row)[j] = row[w - j + 1]
    BY <2>3, ReverseIs
  <2> QED BY <2>1, <2>2, <2>4
<1>11. ss \in Seq(Seq(T)) /\ Len(ss) = D
  <2>1. ss = [i \in 1 .. D |-> ss[i]]
    BY <1>8, <1>9
  <2>2. PICK Q : Q = Seq(T)
    OBVIOUS
  <2>3. ss \in [1 .. D -> Q]
    BY <1>10, <2>1, <2>2
  <2>4. ss \in Seq(Q)
    BY <1>5, <2>3, SeqDef
  <2>5. DOMAIN ss = 1 .. D
    BY <2>1
  <2> QED BY <1>5, <2>2, <2>4, <2>5, LenProperties
<1>12. ASSUME NEW i \in 1 .. D, NEW j \in 1 .. w, w * (i - 1) + j <= L
       PROVE  ss[i][j] = p[w * (i - 1) + j]
  <2>1. PICK k \in 1 .. w : k = w - j + 1
    OBVIOUS
  <2>2. w * i + 1 - k = w * (i - 1) + j
    <3>1. w * (i - 1) = w * i - w
      BY <1>5
    <3> QED BY <1>5, <2>1, <3>1
  <2>3. ss[i][j] = rows[i][k]
    BY <1>10, <2>1
  <2>4. rows[i][k] = p[w * i + 1 - k]
    BY <1>7, <1>12, <2>2
  <2> QED BY <2>2, <2>3, <2>4
<1>13. back = FlattenSeq(ss)
  BY <1>9
<1>14. Len(back) = w * D
  BY <1>10, <1>11, <1>13, FlattenChunks
<1>15. SubSeq(back, 1, L) = p
  <2>1. \A i \in 1 .. Len(ss) : Len(ss[i]) = w
    BY <1>10, <1>11
  <2>2. Len(p) <= w * Len(ss)
    BY <1>1, <1>5, <1>11
  <2>3. InOrder(ss, w, p)
    BY <1>1, <1>11, <1>12 DEF InOrder
  <2>4. SubSeq(FlattenSeq(ss), 1, Len(p)) = p
    BY <1>11, <2>1, <2>2, <2>3, ReadBack
  <2> QED BY <1>1, <1>13, <2>4
<1> QED BY <1>1, <1>5, <1>8, <1>14, <1>15

-----------------------------------------------------------------------------
(* The output of a run that succeeds.                                      *)

\* The bytes of the i-th word, and all words as a row of memory shows them.
Chunk(i) == SubSeq(prog, 4 * (i - 1) + 1, 4 * i)
Reversed == [i \in 1 .. Len(inst_lengths) |-> Reverse(Chunk(i))]

\* Nothing of the file is left out.
WholeInv ==
  /\ pc \in {"pass2", "open", "append", "done"} =>
       InstructionsBefore(Len(file) + 1) = Len(lines)
  /\ pc \in {"open", "append", "done"} => Len(inst_lengths) = Len(lines)

\* The options were checked at the start.
EnvInv ==
  /\ \E args \in ArgLists : env = characterize_Env(args)
  /\ pc # "start" /\ pc # "error" => env.width \in Nat \ {0}

\* What is written so far.
OutInv ==
  /\ pc # "append" /\ pc # "done" => ind = 0 /\ insts = <<>>
  /\ pc = "append" =>
       /\ out = [name |-> out.name, depth |-> 0, text |-> out.text]
       /\ env.st = "BIN" => out.text = SubSeq(prog, 1, 4 * ind) /\ insts = <<>>
       /\ env.st = "HEX" => out.text = SubSeq(Reversed, 1, ind) /\ insts = <<>>
       /\ env.st = "MIF" => out.text = <<>> /\ insts = SubSeq(Reversed, 1, ind)
  /\ OutputFaithful

LEMMA WholeStep ==
  ASSUME CountInv, FlashInv, EncodeInv, WholeInv, [Next]_vars
  PROVE  WholeInv'
<1>1. CASE \E l \in Lines : Unbalanced(l) \/ Duplicate(l) \/ Line(l)
  <2>1. pc' \in {"error", "pass1"}
    BY <1>1 DEF Unbalanced, Duplicate, Line, Goto, End
  <2> QED BY <2>1 DEF WholeInv
<1>2. CASE Start \/ Refuse \/ AsmFlashThrows \/ OpenFails
  <2>1. pc' \in {"error", "pass1", "terminated"}
    <3>1. CASE Start \/ Refuse \/ OpenFails
      BY <3>1 DEF Start, Refuse, OpenFails, Goto, End
    <3>2. CASE AsmFlashThrows
      BY <3>2 DEF AsmFlashThrows, End
    <3> QED BY <1>2, <3>1, <3>2
  <2> QED BY <2>1 DEF WholeInv
<1>3. CASE EndOfFile
  <2>1. pc = "pass1" /\ pc' = "pass2" /\ UNCHANGED <<file, lines>>
    BY <1>3 DEF EndOfFile, Goto, passvars
  <2>2. InstructionsBefore(Len(file) + 1) = Len(lines)
    BY <2>1 DEF CountInv
  <2> QED BY <2>1, <2>2 DEF WholeInv, InstructionsBefore
<1>4. CASE AsmFlash
  <2>1. pc = "pass2" /\ pc' \in {"pass2", "error"} /\ UNCHANGED <<file, lines>>
    BY <1>4 DEF AsmFlash, More, Goto, End, passvars
  <2> QED BY <2>1 DEF WholeInv, InstructionsBefore
<1>5. CASE Assembled \/ Open \/ append \/ finalize
  <2>1. /\ pc \in {"pass2", "open", "append"} /\ UNCHANGED <<file, lines, inst_lengths>>
        /\ Len(inst_lengths) = Len(lines)
    BY <1>5 DEF Assembled, Open, append, finalize, passvars, flashvars, WholeInv
  <2> QED BY <2>1 DEF WholeInv, InstructionsBefore
<1>6. CASE UNCHANGED vars
  BY <1>6 DEF vars, WholeInv, InstructionsBefore
<1> QED BY <1>1, <1>2, <1>3, <1>4, <1>5, <1>6 DEF Next

\* The width is the default, or a value that was checked.
LEMMA WidthGood ==
  ASSUME NEW args \in ArgLists, env = characterize_Env(args), OptionsGood
  PROVE  env.width \in Nat \ {0}
<1>0. PICK w : w = Atoi[LastValue(args, Valued(args, "-b"), "")] % UnsignedValues
  OBVIOUS
<1>1. /\ env.width = IF Valued(args, "-b") = {} THEN 4 ELSE w
      /\ env.hasWordSize = (Places(args, "-b") # {})
      /\ env.hasWordSizeValue = (Valued(args, "-b") # {} /\ w > 0)
  BY <1>0 DEF characterize_Env
<1>2. CASE Valued(args, "-b") = {}
  BY <1>1, <1>2
<1>3. CASE Valued(args, "-b") # {}
  <2>1. args \in Seq(STRING)
    BY EnvAssumption
  <2>2. PICK n \in Nat : n = Len(args) /\ DOMAIN args = 1 .. n
    BY <2>1, LenProperties
  <2>3. PICK places : places = Valued(args, "-b")
    OBVIOUS
  <2>4. places \in SUBSET (1 .. n) /\ places # {} /\ Places(args, "-b") # {}
        /\ \A i \in places : args[i] = "-b" /\ i \in 1 .. n - 1
    BY <1>3, <2>2, <2>3 DEF Valued, Places
  <2>5. PICK x : x = Max(places) /\ x \in places
    BY <2>2, <2>4, GreatestOne
  <2>6. LastValue(args, places, "") = args[x + 1] /\ Atoi[args[x + 1]] \in Int
    BY <2>2, <2>4, <2>5, EnvAssumption DEF LastValue
  <2>7. PICK v \in Int : v = Atoi[args[x + 1]]
    BY <2>6
  <2>8. w = v % UnsignedValues
    BY <1>0, <2>3, <2>6, <2>7
  <2>9. w \in Int
    BY <2>8, EnvAssumption, Division
  <2>10. env.hasWordSize
    BY <1>1, <2>4
  <2>11. env.hasWordSizeValue
    BY <2>10 DEF OptionsGood
  <2>12. w > 0
    BY <1>1, <2>11
  <2> QED BY <1>1, <1>3, <2>9, <2>12
<1> QED BY <1>2, <1>3

LEMMA EnvStep ==
  ASSUME EnvInv, [Next]_vars
  PROVE  EnvInv'
<1>1. UNCHANGED env
  <2>1. CASE Start \/ Refuse \/ EndOfFile \/ AsmFlash \/ AsmFlashThrows \/ Assembled
    BY <2>1 DEF Start, Refuse, EndOfFile, AsmFlash, AsmFlashThrows, Assembled
  <2>2. CASE Open \/ OpenFails \/ append \/ finalize
    BY <2>2 DEF Open, OpenFails, append, finalize
  <2>3. CASE \E l \in Lines : Unbalanced(l) \/ Duplicate(l) \/ Line(l)
    BY <2>3 DEF Unbalanced, Duplicate, Line, Read
  <2>4. CASE UNCHANGED vars
    BY <2>4 DEF vars
  <2> QED BY <2>1, <2>2, <2>3, <2>4 DEF Next
<1>2. PICK args \in ArgLists : env = characterize_Env(args)
  BY DEF EnvInv
<1>3. pc' # "start" /\ pc' # "error" => env.width \in Nat \ {0}
  <2>1. CASE Start
    <3>1. OptionsGood
      BY <2>1 DEF Start
    <3> QED BY <1>2, <3>1, WidthGood
  <2>2. CASE Refuse \/ OpenFails
    BY <2>2 DEF Refuse, OpenFails, End
  <2>3. CASE EndOfFile \/ Assembled \/ Open \/ append \/ finalize
    BY <2>3 DEF EndOfFile, Assembled, Open, append, finalize, EnvInv
  <2>4. CASE AsmFlash \/ AsmFlashThrows
    BY <2>4 DEF AsmFlash, AsmFlashThrows, More, EnvInv
  <2>5. CASE \E l \in Lines : Unbalanced(l) \/ Duplicate(l) \/ Line(l)
    BY <2>5 DEF Unbalanced, Duplicate, Line, Read, EnvInv
  <2>6. CASE UNCHANGED vars
    BY <2>6 DEF vars, EnvInv
  <2> QED BY <2>1, <2>2, <2>3, <2>4, <2>5, <2>6 DEF Next
<1> QED BY <1>1, <1>2, <1>3 DEF EnvInv

LEMMA ChunkIs ==
  ASSUME FlashInv, NEW S, prog \in Seq(S), NEW i \in 1 .. Len(inst_lengths)
  PROVE  /\ Chunk(i) \in Seq(S) /\ Len(Chunk(i)) = 4
         /\ \A j \in 1 .. 4 : Chunk(i)[j] = prog[4 * (i - 1) + j]
         /\ Reverse(Chunk(i)) \in Seq(S) /\ Len(Reverse(Chunk(i))) = 4
         /\ Reverse(Reverse(Chunk(i))) = Chunk(i)
<1>1. PICK n \in Nat : n = Len(inst_lengths) /\ Len(prog) = 4 * n
  BY DEF FlashInv
<1>2. PICK a \in 1 .. Len(prog) + 1, b \in Int : a = 4 * (i - 1) + 1 /\ b = 4 * i /\ b \in a - 1 .. Len(prog)
  <2>1. 4 * (i - 1) + 1 \in 1 .. Len(prog) + 1 /\ 4 * i \in (4 * (i - 1) + 1) - 1 .. Len(prog)
    BY <1>1
  <2> QED BY <2>1
<1>3. PICK c : c = Chunk(i)
  OBVIOUS
<1>4. c \in Seq(S) /\ Len(c) = b - a + 1 /\ \A k \in 1 .. b - a + 1 : c[k] = prog[a + k - 1]
  BY <1>2, <1>3, Part DEF Chunk
<1>5. b - a + 1 = 4 /\ \A k \in 1 .. 4 : a + k - 1 = 4 * (i - 1) + k
  BY <1>2
<1>6. Len(c) = 4 /\ \A k \in 1 .. 4 : c[k] = prog[4 * (i - 1) + k]
  BY <1>4, <1>5
<1>7. PICK d : d = Reverse(c)
  OBVIOUS
<1>8. d \in Seq(S) /\ Len(d) = 4 /\ \A k \in 1 .. 4 : d[k] = c[4 - k + 1]
  <2>1. d \in Seq(S) /\ Len(d) = Len(c) /\ \A k \in 1 .. Len(c) : d[k] = c[Len(c) - k + 1]
    BY <1>4, <1>7, ReverseIs
  <2> QED BY <1>6, <2>1
<1>9. PICK e : e = Reverse(d)
  OBVIOUS
<1>10. e \in Seq(S) /\ Len(e) = 4 /\ \A k \in 1 .. 4 : e[k] = d[4 - k + 1]
  <2>1. e \in Seq(S) /\ Len(e) = Len(d) /\ \A k \in 1 .. Len(d) : e[k] = d[Len(d) - k + 1]
    BY <1>8, <1>9, ReverseIs
  <2> QED BY <1>8, <2>1
<1>11. \A k \in 1 .. 4 : 4 - k + 1 \in 1 .. 4 /\ 4 - (4 - k + 1) + 1 = k
  OBVIOUS
<1>12. \A k \in 1 .. 4 : e[k] = c[k]
  BY <1>8, <1>10, <1>11
<1>13. e = c
  BY <1>4, <1>6, <1>10, <1>12, SeqEqual
<1> QED BY <1>3, <1>4, <1>6, <1>7, <1>8, <1>9, <1>13

LEMMA ReversedIs ==
  ASSUME FlashInv, NEW S, prog \in Seq(S)
  PROVE  /\ Reversed \in Seq(Seq(S)) /\ Len(Reversed) = Len(inst_lengths)
         /\ \A i \in 1 .. Len(inst_lengths) : Reversed[i] = Reverse(Chunk(i))
<1>1. PICK n \in Nat : n = Len(inst_lengths)
  BY DEF FlashInv
<1>2. PICK Q : Q = Seq(S)
  OBVIOUS
<1>3. \A i \in 1 .. n : Reverse(Chunk(i)) \in Q
  BY <1>1, <1>2, ChunkIs
<1>4. Reversed \in [1 .. n -> Q]
  BY <1>1, <1>3 DEF Reversed
<1>5. Reversed \in Seq(Q) /\ Len(Reversed) = n
  BY <1>4, FunctionIsSequence
<1> QED BY <1>1, <1>2, <1>5 DEF Reversed

\* Reversed again, the words are the program.
LEMMA ReversedBack ==
  ASSUME FlashInv, NEW S, prog \in Seq(S)
  PROVE  FlattenSeq([i \in DOMAIN Reversed |-> Reverse(Reversed[i])]) = prog
<1>1. PICK n \in Nat : n = Len(inst_lengths) /\ Len(prog) = 4 * n
  BY DEF FlashInv
<1>2. PICK ss : ss = [i \in DOMAIN Reversed |-> Reverse(Reversed[i])]
  OBVIOUS
<1>3. DOMAIN Reversed = 1 .. n
  BY <1>1 DEF Reversed
<1>4. ASSUME NEW i \in 1 .. n
      PROVE  ss[i] = Chunk(i)
  <2>1. Reversed[i] = Reverse(Chunk(i))
    BY <1>1, ReversedIs
  <2>2. Reverse(Reverse(Chunk(i))) = Chunk(i)
    BY <1>1, ChunkIs
  <2> QED BY <1>2, <1>3, <2>1, <2>2
<1>5. \A i \in 1 .. n : ss[i] \in Seq(S) /\ Len(ss[i]) = 4 /\ \A j \in 1 .. 4 : ss[i][j] = prog[4 * (i - 1) + j]
  BY <1>1, <1>4, ChunkIs
<1>6. ss \in Seq(Seq(S)) /\ Len(ss) = n
  <2>1. PICK Q : Q = Seq(S)
    OBVIOUS
  <2>2. ss \in [1 .. n -> Q]
    BY <1>2, <1>3, <1>5, <2>1
  <2>3. ss \in Seq(Q) /\ Len(ss) = n
    BY <2>2, FunctionIsSequence
  <2> QED BY <2>1, <2>3
<1>7. PICK w \in Nat \ {0} : w = 4
  OBVIOUS
<1>8. FlattenSeq(ss) = prog
  <2>1. \A i \in 1 .. Len(ss) : Len(ss[i]) = w
    BY <1>5, <1>6, <1>7
  <2>2. Len(prog) = w * Len(ss)
    BY <1>1, <1>6, <1>7
  <2>3. \A i \in 1 .. Len(ss), j \in 1 .. w : ss[i][j] = prog[w * (i - 1) + j]
    BY <1>5, <1>6, <1>7
  <2> QED BY <1>6, <2>1, <2>2, <2>3, ReadBackAll
<1> QED BY <1>2, <1>8

\* What append takes from the program is the next word of it.
LEMMA NextWord ==
  ASSUME FlashInv, TypeInv, addr < Len(prog)
  PROVE  ind + 1 \in 1 .. Len(inst_lengths) /\ buf = Chunk(ind + 1)
<1>1. PICK n \in Nat : n = Len(inst_lengths) /\ Len(prog) = 4 * n
  BY DEF FlashInv
<1>2. ind \in Nat /\ ind + 1 \in 1 .. n
  BY <1>1 DEF TypeInv, addr
<1>3. inst_lengths[ind + 1] = 4
  BY <1>1, <1>2 DEF FlashInv
<1>4. addr + 1 = 4 * (ind + 1 - 1) + 1 /\ addr + inst_lengths[ind + 1] = 4 * (ind + 1)
  BY <1>2, <1>3 DEF addr
<1> QED BY <1>1, <1>2, <1>4 DEF buf, Chunk

\* Opening empties the file.
LEMMA OutOpen ==
  ASSUME TypeInv, OutInv, Open
  PROVE  OutInv'
<1>1. /\ pc = "open" /\ pc' = "append" /\ ind = 0 /\ insts = <<>> /\ UNCHANGED <<ind, insts, prog>>
      /\ \E name : out' = [name |-> name, depth |-> 0, text |-> <<>>]
  BY DEF Open, OutInv, Goto, NoFile, flashvars
<1>2. out' = [name |-> out'.name, depth |-> 0, text |-> out'.text] /\ out'.text = <<>>
  BY <1>1
<1>3. SubSeq(prog', 1, 4 * ind') = <<>> /\ SubSeq(Reversed', 1, ind') = <<>>
  BY <1>1 DEF SubSeq
<1>4. OutputFaithful'
  BY <1>1 DEF OutputFaithful
<1> QED BY <1>1, <1>2, <1>3, <1>4 DEF OutInv

LEMMA OutAppend ==
  ASSUME FlashInv, TypeInv, OutInv, append
  PROVE  OutInv'
<1>1. PICK S : prog \in Seq(S)
  BY DEF FlashInv
<1>2. PICK n \in Nat : n = Len(inst_lengths) /\ Len(prog) = 4 * n
  BY DEF FlashInv
<1>3. /\ pc = "append" /\ addr < Len(prog) /\ ind' = ind + 1
      /\ UNCHANGED <<pc, env, prog, inst_lengths>>
  BY DEF append, flashvars
<1>4. ind + 1 \in 1 .. n /\ buf = Chunk(ind + 1) /\ ind \in Nat
  BY <1>2, <1>3, NextWord DEF TypeInv
<1>5. Reversed' = Reversed
  BY <1>3 DEF Reversed, Chunk
<1>6. Reversed \in Seq(Seq(S)) /\ Len(Reversed) = n /\ Reversed[ind + 1] = Reverse(buf)
  <2>1. /\ Reversed \in Seq(Seq(S)) /\ Len(Reversed) = Len(inst_lengths)
        /\ \A i \in 1 .. Len(inst_lengths) : Reversed[i] = Reverse(Chunk(i))
    BY <1>1, ReversedIs
  <2> QED BY <1>2, <1>4, <2>1
<1>7. Append(SubSeq(Reversed, 1, ind), Reverse(buf)) = SubSeq(Reversed, 1, ind + 1)
  <2>1. PICK Q : Q = Seq(S)
    OBVIOUS
  <2>2. PICK i \in 1 .. Len(Reversed) : i = ind + 1 /\ i - 1 = ind
    BY <1>4, <1>6
  <2>3. PICK j \in 1 .. i : j = 1
    BY <2>2
  <2>4. Append(SubSeq(Reversed, j, i - 1), Reversed[i]) = SubSeq(Reversed, j, i)
    BY <1>6, <2>1, PrefixGrows
  <2> QED BY <1>6, <2>2, <2>3, <2>4
<1>8. SubSeq(prog, 1, 4 * ind) \o buf = SubSeq(prog, 1, 4 * (ind + 1))
  <2>1. 1 \in 1 .. Len(prog) + 1 /\ 4 * ind \in 1 - 1 .. Len(prog) /\ 4 * (ind + 1) \in 4 * ind .. Len(prog)
    BY <1>2, <1>4
  <2>2. SubSeq(prog, 1, 4 * ind) \o SubSeq(prog, 4 * ind + 1, 4 * (ind + 1)) = SubSeq(prog, 1, 4 * (ind + 1))
    BY <1>1, <2>1, ConcatAdjacentSubSeq
  <2>3. 4 * (ind + 1 - 1) + 1 = 4 * ind + 1
    BY <1>4
  <2> QED BY <1>4, <2>2, <2>3 DEF Chunk
<1>9. /\ out' = [name |-> out.name, depth |-> 0, text |-> out'.text] /\ out'.name = out.name
      /\ env.st = "BIN" => out'.text = out.text \o buf /\ insts' = insts
      /\ env.st = "HEX" => out'.text = Append(out.text, Reverse(buf)) /\ insts' = insts
      /\ env.st = "MIF" => out'.text = out.text /\ insts' = Append(insts, Reverse(buf))
  <2>1. out = [name |-> out.name, depth |-> 0, text |-> out.text]
    BY <1>3 DEF OutInv
  <2>2. PICK text : text = CASE env.st = "BIN" -> out.text \o buf
                             [] env.st = "HEX" -> Append(out.text, Reverse(buf))
                             [] env.st = "MIF" -> out.text
    OBVIOUS
  <2>3. out' = [out EXCEPT !.text = text]
    BY <2>2 DEF append
  <2>4. out' = [name |-> out.name, depth |-> 0, text |-> text]
    BY <2>1, <2>3
  <2>5. out'.text = text /\ out'.name = out.name
    BY <2>4
  <2>6. insts' = IF env.st = "MIF" THEN Append(insts, Reverse(buf)) ELSE insts
    BY DEF append
  <2> QED BY <2>2, <2>4, <2>5, <2>6
<1>10. OutputFaithful'
  BY <1>3 DEF OutputFaithful
<1>11. /\ env.st = "BIN" => out'.text = SubSeq(prog, 1, 4 * (ind + 1)) /\ insts' = <<>>
       /\ env.st = "HEX" => out'.text = SubSeq(Reversed, 1, ind + 1) /\ insts' = <<>>
       /\ env.st = "MIF" => out'.text = <<>> /\ insts' = SubSeq(Reversed, 1, ind + 1)
  BY <1>3, <1>7, <1>8, <1>9 DEF OutInv
<1> QED BY <1>3, <1>5, <1>9, <1>10, <1>11 DEF OutInv

LEMMA OutFinalize ==
  ASSUME CountInv, FlashInv, TypeInv, WholeInv, EnvInv, OutInv, finalize
  PROVE  OutInv'
<1>1. PICK S : prog \in Seq(S)
  BY DEF FlashInv
<1>2. PICK n \in Nat : n = Len(inst_lengths) /\ Len(prog) = 4 * n
  BY DEF FlashInv
<1>3. /\ pc = "append" /\ addr >= Len(prog) /\ pc' = "done"
      /\ UNCHANGED <<env, file, prog, inst_lengths>>
      /\ out' = IF insts # <<>>
                  THEN [out EXCEPT !.depth = Depth(env.width), !.text = Rows(env.width)] ELSE out
  BY DEF finalize, End, flashvars
<1>4. ind = n
  BY <1>2, <1>3 DEF addr, TypeInv
<1>5. Reversed \in Seq(Seq(S)) /\ Len(Reversed) = n /\ SubSeq(Reversed, 1, ind) = Reversed
  <2>1. Reversed \in Seq(Seq(S)) /\ Len(Reversed) = Len(inst_lengths)
    BY <1>1, ReversedIs
  <2>2. SubSeq(Reversed, 1, Len(Reversed)) = Reversed
    BY <2>1, SubSeqFull
  <2> QED BY <1>2, <1>4, <2>1, <2>2
<1>6. FlattenSeq([i \in DOMAIN Reversed |-> Reverse(Reversed[i])]) = prog
  BY <1>1, ReversedBack
<1>7. SubSeq(prog, 1, 4 * ind) = prog
  BY <1>1, <1>2, <1>4, SubSeqFull
<1>8. Len(prog) = 4 * InstructionsBefore(Len(file) + 1)
  BY <1>2, <1>3 DEF WholeInv
<1>9. env.st = "BIN" => out'.text = prog
  BY <1>3, <1>7 DEF OutInv
<1>10. env.st = "HEX" => out'.text = Reversed
  BY <1>3, <1>5 DEF OutInv
<1>11. ASSUME env.st = "MIF", NEW w, w = env.width,
              NEW back, back = FlattenSeq([i \in DOMAIN out'.text |-> Reverse(out'.text[i])])
       PROVE  /\ out'.depth = Len(out'.text)
              /\ Len(back) = w * out'.depth /\ Len(back) - Len(prog) \in 0 .. w - 1
              /\ SubSeq(back, 1, Len(prog)) = prog
  <2>1. w \in Nat \ {0}
    BY <1>3, <1>11 DEF EnvInv
  <2>2. insts = Reversed /\ out = [name |-> out.name, depth |-> 0, text |-> <<>>]
    BY <1>3, <1>5, <1>11 DEF OutInv
  <2>3. PICK zero : zero = <<ZeroWord, 0>>
    OBVIOUS
  <2>4. PICK D : D = RowCount(prog, w)
    OBVIOUS
  <2>5. PICK rows : rows = PaddedRows(prog, w, zero)
    OBVIOUS
  <2>6. out'.depth = D /\ out'.text = rows
    <3>1. CASE insts # <<>>
      <4>1. Depth(w) = D
        BY <2>4, Zenon DEF Depth, RowCount
      <4>2. Rows(w) = rows
        BY <1>6, <2>2, <2>3, <2>5, Zenon DEF Rows, PaddedRows, RowCount
      <4>3. out' = [out EXCEPT !.depth = D, !.text = rows]
        BY <1>3, <1>11, <3>1, <4>1, <4>2
      <4> QED BY <2>2, <4>3
    <3>2. CASE insts = <<>>
      <4>1. n = 0 /\ Len(prog) = 0
        BY <1>2, <1>5, <2>2, <3>2
      <4>2. D = 0
        <5>1. PICK q \in Int, m \in Int : q = 0 /\ m = 0 /\ m \in 0 .. w - 1 /\ w * q + m = 0
          BY <2>1
        <5>2. (w * q + m) \div w = q /\ (w * q + m) % w = m
          BY <2>1, <5>1, DivisionUnique
        <5>3. 0 \div w = 0 /\ 0 % w = 0
          BY <5>1, <5>2
        <5> QED BY <2>4, <4>1, <5>3 DEF RowCount
      <4>3. rows = <<>>
        BY <2>4, <2>5, <4>2 DEF PaddedRows
      <4> QED BY <1>3, <2>2, <3>2, <4>2, <4>3
    <3> QED BY <3>1, <3>2
  <2>7. back = FlattenSeq([i \in DOMAIN rows |-> Reverse(rows[i])])
    BY <1>11, <2>6
  <2>8. /\ Len(rows) = D /\ Len(back) = w * D
        /\ Len(back) - Len(prog) \in 0 .. w - 1 /\ SubSeq(back, 1, Len(prog)) = prog
    <3>1. rows = PaddedRows(prog, w, zero) /\ D = RowCount(prog, w) /\ prog \in Seq(S)
      BY <1>1, <2>4, <2>5
    <3>2. Len(rows) = D /\ Len(back) = w * D
      BY <2>1, <2>7, <3>1, RowsBack
    <3>3. Len(back) - Len(prog) \in 0 .. w - 1
      BY <2>1, <2>7, <3>1, RowsBack
    <3>4. SubSeq(back, 1, Len(prog)) = prog
      BY <2>1, <2>7, <3>1, RowsBack
    <3> QED BY <3>2, <3>3, <3>4
  <2> QED BY <2>6, <2>8
<1>12. OutputFaithful'
  <2>1. InstructionsBefore(Len(file) + 1)' = InstructionsBefore(Len(file) + 1)
    BY <1>3 DEF InstructionsBefore
  <2> QED BY <1>3, <1>6, <1>8, <1>9, <1>10, <1>11, <2>1 DEF OutputFaithful
<1> QED BY <1>3, <1>12 DEF OutInv

LEMMA OutStep ==
  ASSUME CountInv, FlashInv, TypeInv, WholeInv, EnvInv, OutInv, [Next]_vars
  PROVE  OutInv'
<1>1. CASE Open
  BY <1>1, OutOpen
<1>2. CASE append
  BY <1>2, OutAppend
<1>3. CASE finalize
  BY <1>3, OutFinalize
<1>4. ASSUME pc' # "append", pc' # "done", pc # "append", pc # "done", UNCHANGED <<ind, insts>>
      PROVE  OutInv'
  BY <1>4 DEF OutInv, OutputFaithful
<1>5. CASE Start \/ Refuse \/ EndOfFile \/ AsmFlashThrows \/ Assembled \/ OpenFails
  BY <1>4, <1>5 DEF Start, Refuse, EndOfFile, AsmFlashThrows, Assembled, OpenFails, More, Goto, End, outvars
<1>6. CASE AsmFlash
  BY <1>4, <1>6 DEF AsmFlash, More, Goto, End, outvars
<1>7. CASE \E l \in Lines : Unbalanced(l) \/ Duplicate(l) \/ Line(l)
  BY <1>4, <1>7 DEF Unbalanced, Duplicate, Line, Read, Goto, End, outvars
<1>8. CASE UNCHANGED vars
  <2>1. Reversed' = Reversed
    BY <1>8 DEF vars, Reversed, Chunk
  <2>2. OutputFaithful'
    BY <1>8 DEF vars, OutInv, OutputFaithful, InstructionsBefore
  <2> QED BY <1>8, <2>1, <2>2 DEF vars, OutInv
<1> QED BY <1>1, <1>2, <1>3, <1>5, <1>6, <1>7, <1>8 DEF Next

\* asm_ostream::append and finalize: a run that succeeds has assembled every
\* instruction of the file, and its output, read back byte by byte, is the
\* program: of any stream type, of any program, and in a MIF of any word width.
THEOREM OutputsAreFaithful ==
  Spec => []OutputFaithful
<1> DEFINE All == CountInv /\ FlashInv /\ EncodeInv /\ TypeInv /\ WholeInv /\ EnvInv /\ OutInv
<1>1. Init => All
  <2>1. SUFFICES ASSUME Init PROVE All
    OBVIOUS
  <2>2. EncodeInv
    BY <2>1 DEF Init, EncodeInv
  <2>3. WholeInv /\ OutInv
    BY <2>1 DEF Init, WholeInv, OutInv, OutputFaithful
  <2>4. EnvInv
    BY <2>1 DEF Init, EnvInv
  <2> QED BY <2>1, <2>2, <2>3, <2>4, PassInit, TypeInit
<1>2. All /\ [Next]_vars => All'
  BY CountStep, FlashStep, EncodeStep, TypeStep, WholeStep, EnvStep, OutStep
<1>3. All => OutputFaithful
  BY DEF OutInv
<1> QED BY <1>1, <1>2, <1>3, PTL DEF Spec
=============================================================================
