------------------------------ MODULE Pipeline ------------------------------
(***************************************************************************)
(* The control of the five-stage pipeline around the thread controller:    *)
(* fetch and PC selection (insfetch.sv, pc_sel.sv, the PC registers of     *)
(* thread_csr.sv), the stage registers (insdec.sv, exe.sv, mem.sv), the    *)
(* flush and stall logic (flush_stall.sv), the thread commands and d-cache *)
(* misses of the write-back stage (wb.sv, threadkraken_top.sv).            *)
(*                                                                         *)
(* One step is one clock edge of all of them and of ThreadCtrl, which this *)
(* module extends.  Data is abstracted: a program maps each address to an  *)
(* instruction that says what the control sees of it.  The memory is that  *)
(* of the test benches: a fetch or an access that misses is reported in    *)
(* the next clock, with no instruction.  Exceptions (jmp_exp) are left out.*)
(***************************************************************************)
EXTENDS ThreadCtrl

CONSTANTS
  K,         \* addresses a program has; the PC wraps round after the last
  Programs   \* the programs to run

PCs == 0 .. K - 1

\* An instruction: its operation, the thread a command is about, the target of
\* a jump or the first address of a new thread, whether it reads the register
\* that the loads write, whether it carries the atomic bit, and whether its
\* fetches and its data accesses may miss (bounds the runs: all may).
MemOps == {"ld", "st"}
Instruction ==
  [op : Ops \cup MemOps \cup {"jmp"}, obj : Threads, tgt : PCs,
   use : BOOLEAN, atom : BOOLEAN, cold : BOOLEAN]

ASSUME PipelineAssumption ==
  /\ K \in Nat \ {0}
  /\ Programs \subseteq [PCs -> Instruction]
  /\ [op : Ops \ {"none"}, act : Threads, obj : Threads] \subseteq Commands
  /\ MaxMiss >= 2

START_PC == 0

VARIABLES
  prog,     \* the program in memory
  pc,       \* pc[t]: the PC register of thread t
  id,       \* decode stage: trd_dec, pc_dec, whether i_data is an instruction,
            \* and i_miss.  trd_dec and pc_dec also are last_trd and last_pc.
  ex,       \* execute stage
  mem,      \* memory stage
  wbs,      \* write-back stage; miss is d_miss
  arch,     \* history: arch[t] is the address of the next instruction of t
            \* that is to take effect
  tainted,  \* history: threads one of the hazards below has hit
  linked,   \* history: stages with an atomic instruction that nothing has
            \* parted from the one behind it
  owed      \* history: the thread whose atomic instruction was the last to
            \* take effect, if nothing has parted it from the one behind it

stages   == <<id, ex, mem, wbs>>
pipeVars == <<vars, prog, pc, stages, arch, tainted, linked, owed>>

Nobody == -1

Slot  == [t : Threads, pc : PCs, real : BOOLEAN, miss : BOOLEAN]

\* A stage register that has been cleared.
NoIns == [t |-> 0, pc |-> 0, real |-> FALSE, miss |-> FALSE]

Ins(s)     == prog[s.pc]
Is(s, ops) == s.real /\ ~ s.miss /\ Ins(s).op \in ops

\* Mutated form: the address does not wrap round.
Succ_NoWrap(p) == p + 1

Succ(p) == (p + 1) % K

-----------------------------------------------------------------------------
(* Combinational signals of the current clock. *)

i_miss == id.real /\ id.miss
d_miss == wbs.real /\ wbs.miss
jmp    == Is(ex, {"jmp"})

\* The instruction in execute needs the result of the load just ahead of it.
stall_req == Is(mem, {"ld"}) /\ ex.real /\ ex.t = mem.t /\ Ins(ex).use

\* A kill, a sleep or a d-cache miss clears the younger instructions of the
\* thread in the write-back stage; only then comes a jump, only then a stall.
squash == d_miss \/ Is(wbs, {"kill", "slp"})

FlushYoung(t) == IF squash THEN t = wbs.t ELSE jmp /\ t = ex.t   \* flushIF, flushID
FlushOld(t)   == squash /\ t = wbs.t                             \* flushEX, flushMEM

stall  == ~ squash /\ ~ jmp /\ stall_req

atomic == id.real /\ ~ id.miss /\ Ins(id).atom

\* Mutated form: the atomic bit does not hold the pointer.
hold_NotAtomic == stall

hold   == atomic \/ stall

trd_miss == {t \in Threads : (i_miss /\ t = id.t) \/ (d_miss /\ t = wbs.t)}

cur_trd == CurTrd(hold)
i_addr  == IF stall THEN id.pc ELSE pc[cur_trd]

\* Mutated form: a fetch is not suppressed by a flush.
i_rd_NoFlush == cur_trd \in RunTrd(trd_miss)

i_rd    == cur_trd \in RunTrd(trd_miss) /\ ~ FlushYoung(cur_trd)

\* The thread a create in this clock is for, and its first address: the one of
\* thread 0 is wired to START_PC.
Created(t) == init /\ IsNewTrd(t)
InitPC(t)  == IF t = 0 THEN START_PC ELSE Ins(wbs).tgt

-----------------------------------------------------------------------------
(* One clock edge. *)

\* Mutated form: the jump of a thread has priority over its d-cache miss.
NextPC_JumpFirst(t) ==
  IF Created(t) THEN InitPC(t)
  ELSE IF jmp /\ t = ex.t THEN Ins(ex).tgt
  ELSE IF d_miss /\ t = wbs.t THEN wbs.pc
  ELSE IF i_miss /\ t = id.t THEN id.pc
  ELSE IF i_rd /\ ~ stall /\ t = cur_trd THEN Succ(i_addr)
  ELSE pc[t]

\* pc_sel's priorities, and thread_csr's: a create overrides them all.
NextPC(t) ==
  IF Created(t) THEN InitPC(t)
  ELSE IF d_miss /\ t = wbs.t THEN wbs.pc
  ELSE IF i_miss /\ t = id.t THEN id.pc
  ELSE IF jmp /\ t = ex.t THEN Ins(ex).tgt
  ELSE IF i_rd /\ ~ stall /\ t = cur_trd THEN Succ(i_addr)
  ELSE pc[t]

\* The fetch, with the answer of the memory.
Fetch ==
  \E miss \in BOOLEAN :
    /\ miss => i_rd /\ prog[i_addr].cold
    /\ id' = [t    |-> IF stall THEN id.t ELSE cur_trd,
              pc   |-> i_addr,
              real |-> i_rd,
              miss |-> miss]

Decode ==
  ex' = IF FlushYoung(id.t) THEN NoIns
        ELSE IF stall THEN ex
        ELSE IF id.real /\ ~ id.miss THEN id ELSE NoIns

Execute == mem' = IF FlushOld(ex.t) \/ stall THEN NoIns ELSE ex

\* The data access: only a load or a store can miss.
Memory ==
  \E miss \in BOOLEAN :
    /\ miss => Is(mem, MemOps) /\ Ins(mem).cold /\ ~ FlushOld(mem.t)
    /\ wbs' = IF FlushOld(mem.t) THEN NoIns ELSE [mem EXCEPT !.miss = miss]

CommandOf(s) ==
  IF Is(s, Ops \ {"none"}) THEN [op |-> Ins(s).op, act |-> s.t, obj |-> Ins(s).obj]
  ELSE Bubble

-----------------------------------------------------------------------------
(* The hazards the pipeline does not handle: coincidences in one clock after *)
(* which the instructions of thread t may be executed out of program order.  *)

\* The instructions of t younger than write-back that this clock does not clear.
Surviving(t) ==
  \/ i_rd /\ cur_trd = t
  \/ id.real /\ ~ id.miss /\ id.t = t /\ ~ FlushYoung(t)
  \/ (\E s \in {ex, mem} : s.real /\ s.t = t) /\ ~ FlushOld(t)

\* The instruction behind a jump misses in the i-cache in the clock the jump is
\* taken: its PC overrides the target.
LostJump(t) == jmp /\ ex.t = t /\ i_miss /\ id.t = t /\ ~ (d_miss /\ wbs.t = t)

\* A kill, sleep or miss of another thread takes the flush of a taken jump.
LostFlush(t) ==
  /\ jmp /\ ex.t = t /\ squash /\ wbs.t # t
  /\ \/ i_rd /\ cur_trd = t
     \/ id.real /\ id.t = t

\* A sleep or kill clears its thread's younger instructions, and the PC does not
\* go back to them.
Skipped(t) ==
  /\ Is(wbs, {"kill", "slp"}) /\ wbs.t = t
  /\ \E s \in {id, ex, mem} : s.real /\ s.t = t

\* The instruction in decode cannot be fetched again in a stall, for its thread
\* has just been put to sleep or killed.
LostOnHold(t) == stall /\ id.real /\ ~ id.miss /\ id.t = t /\ ~ i_rd

\* A stall fetches the address of the last clock although nothing was fetched
\* there, and the PC is not moved on.
Replayed(t) == stall /\ ~ id.real /\ i_rd /\ cur_trd = t

\* A thread is created in a slot whose last thread has instructions in flight.
Inherited(t) == Created(t) /\ Surviving(t)

Hazard(t) ==
  \/ LostJump(t) \/ LostFlush(t) \/ Skipped(t)
  \/ LostOnHold(t) \/ Replayed(t) \/ Inherited(t)

\* The histories: the instruction in the write-back stage takes effect, unless
\* it missed; a thread that is created starts anew.
Commit ==
  LET done == wbs.real /\ ~ wbs.miss IN
    /\ arch' = [t \in Threads |->
         IF Created(t) THEN InitPC(t)
         ELSE IF done /\ t = wbs.t
              THEN IF Ins(wbs).op = "jmp" THEN Ins(wbs).tgt ELSE Succ(wbs.pc)
         ELSE arch[t]]
    /\ tainted' = {t \in Threads : Hazard(t) \/ (t \in tainted /\ ~ Created(t))}

\* How an atomic instruction moves on, linked to the one behind it: it is not
\* cleared itself, its thread is on when that one is fetched, the fetch does not
\* miss, and it is not a taken jump.
LinkEx ==
  /\ id.t \in on_trd
  /\ IF stall THEN "ex" \in linked /\ ~ i_miss ELSE atomic /\ ~ FlushYoung(id.t)
LinkMem ==
  "ex" \in linked /\ ~ stall /\ ~ FlushOld(ex.t) /\ ~ jmp /\ ~ i_miss
LinkWb == "mem" \in linked /\ ~ FlushOld(mem.t)

\* An atomic instruction that takes effect owes the next to its thread, unless it
\* is a kill or a sleep; that one is parted from it if its access misses.
Pair ==
  /\ linked' = {s \in {"ex", "mem", "wb"} :
                  (s = "ex" /\ LinkEx) \/ (s = "mem" /\ LinkMem) \/ (s = "wb" /\ LinkWb)}
  /\ owed' = IF wbs.real /\ ~ wbs.miss
             THEN IF "wb" \in linked /\ ~ squash THEN wbs.t ELSE Nobody
             ELSE IF d_miss THEN Nobody ELSE owed

PipeClock ==
  /\ Edge(hold, trd_miss)
  /\ pc' = [t \in Threads |-> NextPC(t)]
  /\ Fetch /\ Decode /\ Execute /\ Memory
  /\ Commit /\ Pair
  /\ wb' = CommandOf(wbs')
  /\ UNCHANGED prog

PipeInit ==
  /\ Init
  /\ prog \in Programs
  /\ pc = [t \in Threads |-> START_PC]
  /\ id = NoIns /\ ex = NoIns /\ mem = NoIns /\ wbs = NoIns
  /\ arch = [t \in Threads |-> START_PC]
  /\ tainted = {} /\ linked = {} /\ owed = Nobody

PipeReset ==
  /\ Reset
  /\ UNCHANGED prog
  /\ pc' = [t \in Threads |-> START_PC]
  /\ id' = NoIns /\ ex' = NoIns /\ mem' = NoIns /\ wbs' = NoIns
  /\ arch' = [t \in Threads |-> START_PC]
  /\ tainted' = {} /\ linked' = {} /\ owed' = Nobody

PipeNext == PipeClock \/ PipeReset

\* The clock does not stop.
PipeSpec == PipeInit /\ [][PipeNext]_pipeVars /\ WF_pipeVars(PipeClock)

-----------------------------------------------------------------------------
(* Properties. *)

PipeTypeOK ==
  /\ TypeOK
  /\ prog \in Programs
  /\ pc \in [Threads -> PCs]
  /\ id \in Slot /\ ex \in Slot /\ mem \in Slot /\ wbs \in Slot
  /\ wb = CommandOf(wbs)
  /\ arch \in [Threads -> PCs]
  /\ tainted \subseteq Threads
  /\ linked \subseteq {"ex", "mem", "wb"}
  /\ owed \in Threads \cup {Nobody}

\* The instruction that takes effect is the next one of its thread.
InOrder(t) == wbs.real /\ ~ wbs.miss /\ wbs.t = t => wbs.pc = arch[t]

\* Each thread's instructions take effect in program order, none skipped, none
\* twice, none from behind a taken jump, through misses of its own and of other
\* threads, stalls, held pointers, creates, sleeps and wakes: unless one of the
\* listed hazards has hit the thread (the list is complete).
ProgramOrder == \A t \in Threads \ tainted : InOrder(t)

\* A thread with nothing in flight resumes at its next instruction: whatever
\* misses, jumps and stalls came before, a thread that is asleep, waits for a
\* miss or was just created has that address in its PC register.
PreciseResume ==
  \A t \in Threads \ tainted :
    (\A s \in {id, ex, mem, wbs} : ~ (s.real /\ s.t = t)) => pc[t] = arch[t]

\* No instruction of another thread takes effect between an atomic one and the
\* one behind it, through stalls, misses, flushes and commands of other threads,
\* but for the pairs that LinkEx, LinkMem and Pair give up: the fetch or the access
\* behind it misses, it is itself a taken jump, a kill or a sleep, or its thread
\* had been stopped before that one was fetched.  The documents know no exception
\* (README.md:34, "the next instruction being fetched must be in the same thread";
\* simulator.py:561 executes the next instruction of the thread at once).
AtomicPair == owed # Nobody /\ wbs.real /\ ~ wbs.miss => wbs.t = owed

\* Every thread that is on is fetched again and again, until it is stopped or
\* misses: sequences of atomic instructions and stalls of other threads hold the
\* pointer only for a while, for a taken jump lets it go.
Attended(t) == t \notin on_trd \/ t \in trd_miss \/ (i_rd /\ cur_trd = t)
NoStarvation == \A t \in Threads : []<> Attended(t)

\* Program order without the exceptions, as the simulator has it.
StrictOrder == \A t \in Threads : InOrder(t)

=============================================================================
