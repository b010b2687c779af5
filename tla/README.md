# ThreadKraken in TLA+

ThreadKraken is a 32-bit processor whose five-stage pipeline is shared by up to
eight hardware threads, one instruction of another thread in every clock
(`README.md:4`).  A thread creates, puts to sleep, wakes and kills threads with
instructions of its own; a thread whose cache access misses is parked for a
while; an "atomic" instruction keeps the fetch stage on its thread
(`README.md:34`).  Around the core the repository has caches, a DMA unit for an
FPGA card, a host loader, a simulator and two assemblers.

This directory holds TLA+ modules of four parts of it, the TLC runs that check
them, and TLAPS proofs about them for every value of their constants:

* the control of the core: threads, scheduling, pipeline, for every number of
  threads, every program and every answer of the memory;
* the caches with the memory management unit and the DMA channel that fill them,
  for every size, every access and every delay of the host;
* the host loader with the memory it shares with the device, for every size of
  memory, whatever allocation or register write fails, and interrupts at any
  point;
* CLASS, the C++ assembler, for every file and command line, and the text
  handling it shares with the loader, for texts of any length.

## 1. Inventory

Paths are relative to the repository.

| Component | State | Operations | What makes it correct |
|---|---|---|---|
| Thread controller, `rtl/main/thread_ctrl.sv`, `thread_csr.sv` | per thread: valid, running, parent, PC; thread pointer, delay counter, parked threads | create, sleep, wake, kill from write-back; next thread; park and release | only live threads run; nobody starves; only a thread's creator or itself stops it; creates do not overwrite |
| Front end, `insfetch.sv`, `pc_sel.sv` | `trd_dec`, `pc_dec`, `exp_mode`, `epc` | fetch; choose each thread's next PC among miss, jump, fetch | each thread's PC is where it must go on |
| Flush and stall, `flush_stall.sv` | none | which stages to clear or hold | no wrong-path instruction takes effect, none is lost |
| Stages, `insdec.sv`, `exe.sv`, `mem.sv`, `wb.sv` | one instruction with its thread and PC each | shift, forward, clear | program order per thread |
| Register files, `regfile.sv`, `regfile_set.sv`; `alu.sv`, `pc_cal.sv`, `decode.sv` | 32 registers per thread, read registers | read, write, initialise for a new thread | an operand is the last value written by the thread |
| Caches and MMU, `i_cache.sv`, `d_cache.sv`, `mmu.sv`; `rtl/*_zed.sv` | valid bits, lines, one outstanding request each | hit, miss, fill; fetch a line from the host | a hit is the last value stored; a request is served |
| `rtl/mem_ctrl.sv`, `addr_tr_unit.sv`, `cpu.sv` | line buffer, fill count, bubble, state | read or write a line word by word | every word of a line is moved once |
| DMA unit, `contrib/dma_loopback/hw` | remaining and pending counts, FIFO | read and write lines of host memory | no overrun; done means done |
| AFU driver, `contrib/dma_loopback/sw/AFU.cpp` | map of allocated buffers | allocate, release; read and write MMIO registers | it holds the buffers in use and no others |
| Host memory, `src/mmem.cpp` | four segments, size; base address registers of the device | allocate, release, resize; read, write, save, restore, zero | the device sees the memory the host has; no freed buffer stays mapped |
| Host loader, `src/cload_entry.cpp`, `shell_cload.cpp`, `runtime_call.cpp` | mode, script, the `.wait` under way | `.resize`, `.sr`, `.mem`, `.rst`, `.run`, `.wait`, `.exit`; SIGINT | verdicts are true; a failure in the middle of a directive leaves a usable memory |
| C++ assembler, `src/shell_entry.cpp`, `shell.cpp`, `mips.cpp`, `syms_table.cpp`, `program.cpp`, `mtsstream.cpp` | symbols table, program buffer, output stream | two passes, encoder, three output formats | the passes agree on addresses; the output is the program |
| Command line, `src/env.cpp` | options | `characterize_Env` | |
| Text, numbers, ranges: `src/ustrop.cpp`, `include/ustrop.h`, `range.cpp`, `x2b.cpp`, `primitives.cpp`, part of `shell.cpp` | a line being typed, a range being counted | split, unescape, convert | what is read is what was written |
| ISA description compiler, `src/ISA_desc.cpp`, `ISA_gen.cpp` | instruction set description | parse, generate | |
| Streams, messages: `src/streams.cpp`, `messages.cpp`, `priscas_osi.cpp` | | terminal, files, help texts | |
| Simulator, `sw/simulator.py` | threads, pool, last index | round robin of whole instructions; `nt`, `slp`, `wk`, `kill` | the reference of the ISA |
| Assembler, `sw/assembler.py` | symbol table | text to words | |

How they interact, inside the core: all registers move on one clock.  The thread
controller says whose turn it is; the front end fetches at that thread's PC; the
caches answer in the next clock, when the instruction is in decode; jumps are
decided in execute, data misses and thread commands in write-back.  All of them
may in the same clock want to move a thread's PC, clear stages or hold the
pointer.  That is the hard part of this code: there are no messages, locks or
crashes, but four stages with instructions of up to four threads whose events
coincide in combinations no test bench enumerates.

Behind the core two caches share one MMU, which has one transfer at a time: a
cache remembers one miss, the MMU one request, the DMA unit counts lines asked
for and lines read out, and the line comes after any number of clocks, in which
the core goes on with other threads and other misses.  The repository's test
benches replace all of it by `miss_mem.sv`.

On the host one thread runs everything, but it is not alone.  The loader calls
`mmem`, which calls the AFU driver, which writes base address registers of the
device one at a time; the device translates addresses with those registers at
any moment between two writes, and its transfers go to buffers the host may be
about to free.  Every allocation and every register write may throw, and what is
caught where decides whether the loader goes on.  The handler of SIGINT writes
the loader's mode between any two steps, and the loop of `Run` and the one of
`.wait` read that mode several times each.  The assembler is sequential; its hard
part is that facts are computed twice, addresses by two passes, lines by two
readers, and failures come after half of the work is done.

`PROJECT.json` lists the hazards line by line.

## 2. Modules

| Module | Models | Role |
|---|---|---|
| `ThreadCtrl` | `thread_ctrl.sv`, `thread_csr.sv` | thread table and scheduler; the pipeline is its environment |
| `ThreadLifecycle` | what the table promises | abstract specification |
| `Pipeline` | `insfetch`, `pc_sel`, `flush_stall`, `insdec`, `exe`, `mem`, `wb` and the wiring of `threadkraken_top` | extends `ThreadCtrl` and replaces its environment by the pipeline |
| `MCThreadCtrl`, `MCPipeline` | | instances for TLC |
| `ThreadCtrlProofs`, `ThreadTableProofs` | | theorems about `ThreadCtrl` |
| `PipelineProofs` | | theorems about `Pipeline` |
| `Mmu` | `i_cache.sv`, `d_cache.sv`, `mmu.sv`, read channel of `cci_dma.sv` with `fifo.sv` | caches and how they are filled; core and host are its environment |
| `MCMmu`, `MmuProofs` | | instance for TLC; theorems |
| `ShellEnv` | `env.cpp` | command line of loader and assembler |
| `HostMemory` | `mmem.cpp`, `AFU.cpp`, base registers and transfers of the device | shared memory; extended by the loader |
| `Loader` | `cload_entry.cpp`, `shell_cload.cpp`, `runtime_call.cpp` | extends `HostMemory` and `ShellEnv` |
| `Assembler` | `shell_entry.cpp`, `shell.cpp`, `mips.cpp`, `syms_table.cpp`, `program.cpp`, `mtsstream.cpp` | extends `ShellEnv` |
| `ShellText` | `ReadFromInput` and `chop_string` of `shell.cpp`, `ustrop`, `range`, `x2b` | text, character by character |
| `MCLoader`, `MCAssembler`, `MCShellText` | | instances for TLC |
| `LoaderProofs`, `AssemblerProofs`, `ShellTextProofs` | | theorems about `Loader`, `Assembler` and `ShellText` |
| `DataLemmas` | | lemmas about data that the last two rest on: induction, division, folds, parts of sequences, `FlattenSeq` |

### ThreadCtrl

One step is one clock edge (`Clock`) or an asynchronous reset (`Reset`).  A bit
vector with one bit per thread is a set of threads.  `Edge(hold, miss)` is the
whole edge: the pointer moves (`PointThread`: `nxt_trd`, the eight-fold priority
chain of the source, is "the nearest runnable thread going round"), misses are
parked (`MissWait`), and exactly one of `Boot`, `NewThread`, `Sleep`, `Wake`,
`Kill`, `NoCommand` changes the table, as `thread_csr`'s status register does
for the command `wb` of the write-back stage.  `Clock` lets the environment
choose whether the pointer is held, which threads miss and what comes next.

Histories, which no guard reads: `starved[t]` counts the un-held clocks since
`t` was on, did not miss and was not fetched; `owner[t]` is who really created
`t`, forgotten when that thread is gone.  The code's `par_trd` is not forgotten.

The code leaves some things to programs, and three specifications say so.
`RunningSpec`: commands come from running threads.  `SlotLeftSpec`: and no
create comes when all slots are taken.  `DisciplinedSpec`: and nobody ends a
thread that has children left.  `Spec` assumes nothing.

### ThreadLifecycle

Threads are free, running or sleeping, and have a creator; they are spawned into
free slots, stopped by themselves or their creator, woken by anyone and ended as
leaves.  `ThreadCtrl` implements it for disciplined programs (`Lifecycle`, with
`status` computed from `valid_trd` and `on_trd`, and `creator` from `owner`).

### Pipeline

`id`, `ex`, `mem`, `wbs` are the stages: thread, PC, whether there is an
instruction, and whether its fetch or access missed.  A program maps addresses
to instructions, reduced to what the control sees: operation, object of a
command, target, whether it reads the register loads write, atomic bit, and
whether it may miss.  The combinational signals carry the names of the source
(`stall_req`, `squash` for `kill | sleep | d_miss`, `FlushYoung` for `flushIF`
and `flushID`, `FlushOld` for `flushEX` and `flushMEM`, `stall`, `atomic`,
`trd_miss`, `i_rd`, ...).  `PipeClock` moves everything at once: `Edge` of
`ThreadCtrl`, the PCs (`NextPC`: `pc_sel`'s priorities under `thread_csr`'s
create), and the four stages.

The memory has the interface of `rtl/testbench/miss_mem.sv`: the answer comes in
the next clock, with a miss and no instruction, or without a miss.  Any fetch,
load or store may miss, any number of times (`miss_mem` misses once per line,
and reports a store that hits in the clock behind a miss as a miss too: both
are among the choices).

Four histories.  `arch[t]` is the address of the instruction of `t` that must take
effect next, and `tainted` collects the threads that one of six coincidences has
hit which the core does not handle:

| Hazard | Coincidence | Where |
|---|---|---|
| `LostJump` | the fetch behind a jump misses in the clock the jump is taken | `pc_sel.sv:103` |
| `LostFlush` | a kill, sleep or miss of another thread in the clock a jump is taken | `flush_stall.sv:35-45` |
| `Skipped` | a kill or sleep clears its thread's younger instructions, no PC goes back | `flush_stall.sv:35-40` |
| `LostOnHold` | a stall must fetch the decode stage's instruction again, but its thread has just been put to sleep | `thread_ctrl.sv:364` |
| `Replayed` | a stall fetches the address of the last clock, where nothing was fetched | `thread_ctrl.sv:364` |
| `Inherited` | a slot is reused while instructions of its last thread are in flight | `thread_csr.sv:83` |

A thread is clean again when its slot is created anew.  The table is not a guess:
`ProgramOrder` says of every untainted thread that each instruction that takes
effect is its next one, and it is proved, so nothing is missing from the table;
and with any of the six taken out of `Hazard`, the run `pipe_order` fails, so
none is there in vain.

`linked` and `owed` follow atomic instructions: `linked` says in which stages there
is one that is still to be followed by the next of its thread, and `owed` is the
thread whose instruction must be the next to take effect, once an atomic one has.
`AtomicPair` says that it is.  The repository promises that without exception ("the
next instruction being fetched must be in the same thread", `README.md:34`; the
simulator executes it at once, `simulator.py:561`), and the core has exceptions,
in which the next instruction to take effect may be another thread's:

* the fetch behind the atomic instruction misses, also when it is repeated in a
  stall (`LinkEx`, `LinkMem`), or the access of the next instruction does (`Pair`):
  its thread is parked;
* the atomic instruction is a taken jump (`LinkMem`): the fetch kept on its thread
  is the one the jump clears;
* it is a kill or a sleep (`Pair`), or its thread was stopped by another one before
  the next was fetched (`LinkEx`).

`pipe_order` fails without any of them.  That nothing else parts the two is what is
proved.

Abstracted: register values (so the stale operands that `regfile.sv` and
`flush_stall.sv:42` allow are not seen), the outcome of branches (a taken branch
is a jump, another is an instruction without operation), exceptions
(`pc_sel.sv:242-313` compares `cur_pc` with thread numbers, so the handler is
never entered, but `exp_mode` is set), and the stall caused by a load of `r0` in
thread 0 ahead of an empty stage.

### Mmu

One step is one clock edge of both caches, the MMU and the read channel
(`Tick`), named by its parts: `Look` (hit, miss, fault, data), `Write` (valid
bits and contents), `Request` (the one miss a cache remembers), `MmuState`, `Dma`.
The two caches are one set of definitions over `Caches`, because the
instruction cache is the data cache without stores.  `acc` is what the core asks
of each cache in this clock, `host` what the host does: start the processor,
take a request, give a line.  A word is the address it was fetched from, so "the
right word" is "the word whose value is its address"; stored words are `New`.

The core is any core: it reads and stores at any address in any clock, like one
with several threads in its pipeline.  `HitReturns` says that a read that hits gives
the host's word all the same, but for one case, which the history `skewed`
describes: a fill puts the line where the miss was and not where the line begins
(`i_cache.sv:69-87`, `d_cache.sv:81-96`), so one that was asked for from the middle of
a line has its words in the wrong places, of that line and the next.  Such a fill
comes of a jump into a line that is not there, and of a hit behind a miss, which
stays reported (`i_cache.sv:54`) and whose address the repeated request takes.  The
host's word is not the core's: a store to a line that is there is dropped
(`d_cache.sv:77`), and one to a line that is not is lost when the line comes.  The
code does so, and no property objects to it.

`RequestEnds` is about a core that stays inside the caches (`inside`, chosen at the
start): a fault behind a miss becomes a request that no cache takes.  `RightLine`
needs nothing.

### HostMemory

`data`, `size` are `mmem`'s; `buffers`, `len` the driver's; `base`, `started`,
`dma` the device's.  An operation of `mmem` is a loop, and each turn of it is a
step, because the device may act between two: `Unmap` clears a base register,
`Free` gives a segment back, `Alloc` takes a new one, `MapMem` sets a base
register.  `memop`, `seg`, `left`, `goal` are where the loop is.  `AllocFails`,
`MmioFails` and `Free`'s unknown buffer are what can be thrown.  `Begin(g)`
starts `resize(g)`, and `Begin(Null)` the destructor.  An allocation may return
any address not in use, so also one that was just freed.

The device translates an address with the registers it has (`DmaStart`) and
reaches the buffer later (`DmaDone`).  The flag `calm` of a transfer says that no
operation of `mmem` went on when it started and none has begun since.

### Loader

`pc` is the place in `main`, `Run` or a directive where another step may fall in
between.  A directive takes a line of the script or of the terminal (`Line`) and
is one step, except for `.resize` (the steps of `HostMemory`, then `Recover` if
memory ran out, then the zeroing) and `.wait` (`Arm`, and for each look `Poll`
and `Look`, then `Settle` and `Disarm`: each reads or writes the mode or the
counter).  `Sigint` may come between any two steps.  What `main` catches goes to
`closing`, which destroys the memory; what nobody catches to `terminated`.

The contents of the memory are not modelled: a look of `.wait` may find any
value, and of the other directives the addresses they touch are kept (history
`oob`: one of them was outside a buffer).

### Assembler

Pass 1 (`Unbalanced`, `Duplicate`, `Line`) takes one line of the file per step,
pass 2 (`AsmFlash`, `AsmFlashThrows`) one kept line, the output stream (`Open`,
`append`, `finalize`) one instruction; `Start` and `Refuse` are the command line.
`file` is the history of the lines read.

A line is its label, its tokens and how it ends; what a token means is given by
constants (`RegNumber`, `Number`, `Parenthesised`, `Clip`, ...), because turning
characters into numbers is the subject of `ShellText`.  A word is a record of the
fields the encoder masks, a byte a word and its place in it.  `get_reg_num`
copies digits into a buffer it does not terminate (`mips.cpp:501-509`): a digit
that happens to lie behind them may be read as well, which is `StrayDigits`.

`AssemblerAssumption` and `EnvAssumption` say what the code's types do: tokens and
arguments are strings, a line that ends in a token has one, `atoi` gives an
integer for what stands behind `-b`, a full immediate times four divides 2^32, and
the program buffer holds whole instructions, so that the loop over `write_next`
writes the four bytes of one or none.

### ShellText

A state is what has been typed so far, or a range that is being counted out.
`Escape` and `Type` are the loop of `ReadFromInput`; `range` and `next` the class
`range`; `chop_string`, `trim_label`, `numeric_interpret`, `x2b` and
`dynamicHexBuilder` are functions, checked on every text that can be typed and
proved for texts of any length.  `multiplier` is the inner loop of
`numeric_interpret`, a recursive function that wraps where the C++ type does.

A range is computed in `long long`, whose greatest value is `MaxInt`: results wrap
(`Wrapped`), division rounds towards zero (`Quotient`), and where `end - begin`
overflows, which is undefined, its sign may be the one of the wrapped result or the
one a compiler gets by comparing `end` with `begin`.  `RangeExact` is about ends that
are less than `MaxInt` apart.  It has the end included, as `range.h:41` and the code
do; the examples below that line (`0:4:2` is 0 and 2, `0:4` is 0 to 3) leave it out.

## 3. Runs

| Run | Asks | Bounds |
|---|---|---|
| `tc_sched` | `TypeOK`, `RunningIsValid`, `BoundedStarvation` | 3 threads, period 3, up to 2 misses a clock, commands of thread 0, `Spec` |
| `tc_table` | `InvalidOpSound`, `RootOutlivesAll`, `ParentIsCreator`, `ImplementsLifecycle` | 3 threads, all commands, `DisciplinedSpec` |
| `tc_overflow` | `NewThreadIsFresh`: violated | 3 threads, `RunningSpec` |
| `tc_stale` | `InvalidOpSound`: violated without the discipline | 3 threads, `SlotLeftSpec` |
| `pipe_order` | `PipeTypeOK`, `ProgramOrder`, `PreciseResume`, `AtomicPair`; `NoStarvation` | 3 threads, 9 addresses, 8 programs |
| `pipe_jump` | `StrictOrder`: violated | 1 thread, 2 addresses |
| `pipe_kill` | `StrictOrder`: violated | 2 threads, 4 addresses |
| `loader` | `LoaderTypeOK`, `RegistersLive`, `Covered`, `SameView`, `NoLeak`, `DeviceSafe`, `HostSafe`, `VerdictSound`, `PromptMode`; `MemoryOpEnds`, `WaitEnds`, `ExitEnds` | segments of 3 bytes, 3 buffers, sizes 1, 4 and 8, timeouts 0 and 2, a script of two lines, one interrupt |
| `asm` | `AsmTypeOK`, `SymbolsRight`, `SymsInverse`, `PassesAgree`, `BranchReaches`, `OutputFaithful`, `FailureWritesNothing`; `AsmEnds` | files of up to 3 of 20 lines, 8 command lines, 8 bytes of program |
| `asm_lastline` | `LastLineKept`: violated | as `asm` |
| `text` | `TokensRight`, `NumbersRight`, `LineWhole`, `RangeExact` | texts of up to 5 of 13 characters, numbers modulo 64, ranges of all numbers of 4 bits |
| `mmu` | `MmuTypeOK`, `RightLine`, `HitReturns`; `RequestEnds` | lines of 2 words, 2 and 1 lines, a FIFO of 1, 2 addresses to fetch and 2 to access |

Why the bounds are enough.  Three threads are the least with which "the next
thread" differs from "the other thread", a grandchild exists, and an actor, a
victim and a bystander meet.  The code treats threads alike but for slot 0.  Two
misses in a clock are all there can be: one fetch, one data access.  The delay
counter's period only has to exceed 1; 3 gives waits that end at once, in one
clock and in two.  In `tc_sched` no thread but thread 0 commands: then every
recorded parent is 0 and permission checks always pass, which is the most a
table can change; permission is `tc_table`'s subject.  In `tc_table` nobody
misses, as the table does not look at misses.  The programs of `MCPipeline` are
chosen for the coincidences of the hazard table; each is a loop, so that its
threads meet in every phase.  What holds in these runs is proved for all bounds,
except `NoStarvation`.

In `loader` the sizes are less than a segment, a segment and a bit, and two and
a bit: with 8 bytes every buffer is in use, the allocation of each of the three may
fail, and an address freed is an address returned again, the case where a stale
register would do harm.  `.mem` is asked for one byte, for ranges that end inside
and behind the memory, and for a negative index, as bytes and as words; `.wait` with and without a timeout, with room for two looks; a
script has up to two lines and the terminal any number, so every directive meets
every other one, also `.exit` a `.wait` behind it in the same script; one interrupt
falls between any two steps.  The safety properties are
proved for all bounds; the run adds the liveness properties, and shows that the
interesting states are reached (its mutants fail).

In `asm` the twenty lines have every format of instruction, labels before and
behind their use, two at one address, one spelt like a number, every exception,
and every way a line can end; three lines are enough for a reference over a line
between, and program buffer and immediates are so small that both limits are
met.  A MIF of width 3 has a last row that is not full.  In `text` there is a
character of each kind the code tells apart, and five of them are a quote with
something in it and a character on either side, or a prefix, a sign and two
digits.  The numbers wrap at 64; a range takes any three numbers of four bits, most
of which overflow somewhere.  Apart from `AsmEnds`, what holds in these two runs is
proved for all bounds.

In `mmu` the instruction cache has two lines, so that a second miss finds a request
of another line outstanding, and one of its addresses is in the middle of a line,
where a fill goes wrong and into the next line; the data cache competes with it,
with an address that it serves and one out of range that aliases it; a FIFO of one
line is the smallest a transfer can use.  The safety properties are proved for all
bounds.

Deadlock is checked in the runs of the core: the clock can always tick.  It is
not in the others: the loader and the assembler end, and a line once read is
final.

Fairness.  `PipeSpec` assumes `WF(PipeClock)`: the clock does not stop.  Nothing
is assumed of programs or of the memory: a thread may miss for ever, and
`Attended` says so.  The loader assumes that the system runs it (`WF(Own)`) and
that a script is read on; nothing of who types, of the device or of interrupts:
so `.exit` ends the program, unless it is taken back, and `ExitEnds` says what takes
it back: an interrupt, or a `.wait` behind it in the same script.  The assembler is one thread and its input a file, hence
`WF(Next)`.  `Mmu` assumes `WF(Tick(Offers))`: the clock ticks, and now and then in a
clock in which the host does what it can, which is what the host's memory
interface promises; the core may do what it likes, also miss for ever.  `ShellText` has no liveness property and no fairness.

The five violated runs are disagreements between the code and what the
repository says of it; `PROJECT.json` quotes both sides under `findings`.

## 4. Proofs

The core, for every `N`, `DelayPeriod`, `Commands`, `K` and `Programs` that
satisfy `ConstantsAssumption` and `PipelineAssumption`:

* **Types**: `TypeCorrect`, `PipeTypeCorrect`.
* **`RunningCorrect`** (`Spec => []RunningIsValid`): inductive as it stands, one
  case per command.
* **`StarvationCorrect`** (`Spec => []BoundedStarvation`): the bound is not
  inductive.  `StarvationInv` adds that a parked thread has waited no longer
  than the counter has run since all waits ended, and that for a runnable one
  the clocks lost plus the slots the pointer still has to go (`Gap`) stay under
  the bound.  `StepCloser` says that each un-held slot brings the pointer
  nearer; a held pointer starts again from the thread it held, which is why
  `last_trd` is in the invariant too.
* **`ParentCorrect`, `RootCorrect`, `InvalidOpCorrect`** (for `DisciplinedSpec`):
  from `ForestInv`, in which `Rooted` says, without recursion, that the parents
  of live threads lead to slot 0: no set of live threads is closed under
  `par_trd` unless it contains 0.
* **`LifecycleImplemented`** (`DisciplinedSpec => ImplementsLifecycle`): each
  command is a step of `ThreadLifecycle` or a stutter.
* **`PipelineImplements`** (`PipeSpec => Spec`): the pipeline is an environment
  `ThreadCtrl` allows: at most two threads miss together, the clock after reset
  is quiet, and what reaches the controller is a command.  Hence
  **`PipelineStarvation`**: the theorems about `Spec` hold of the core.
* **`AtomicCorrect`** (`PipeSpec => []AtomicPair`): from `LinkInv`, which says of each
  linked instruction that its thread's next is behind it, with at most an empty
  stage between; needs that `trd_dec` equals `last_trd`, also through stalls.
* **`ProgramOrderCorrect`, `PreciseResumeCorrect`**: from `OrderInv`.  For a clean
  thread the instructions in write-back, memory, execute and decode and the PC
  register are consecutive (`Chain`), where what is behind a jump in execute
  follows it as if it were not taken.  One lemma per case of a clock: create,
  squash, stall, jump, move.  Each hazard is used in exactly the case it is
  named for.

The loader, for every `GB`, set of buffers, sizes, widths, spans, scripts and any
number of interrupts that satisfy `MemoryAssumption`, `EnvAssumption` and
`LoaderAssumption` (every size `.resize` can be asked for fits in four segments):

* **`LoaderTypes`** (`memop` is never `overrun`, the outcome in which a fifth segment is
  written), **`RegistersStayLive`**, **`NothingLeaks`**: from `TypeInv`,
  which couples `pc` and `memop` (`PcInv`: which operation of `mmem` can be under
  way where) and says of each phase which segments and registers hold what
  (`MemInv`: registers are empty in `free` and `alloc`, equal to `data` below
  `seg` in `map`, and segments are filled below `seg` in `alloc` with `left`
  bytes to go).  `MemInv` is given up only when the program is terminated.
* **`MemoryCovered`**, **`ViewsAgree`**: `MemInv` between operations, with the
  division lemmas `Division` and `Placed`: an address below the size falls into a
  segment that is there, at an offset below its length.
* **`TransfersStayInside`** adds `DeviceInv`: a calm transfer has met no operation
  of `mmem`.  **`HostStaysInside`**: one lemma for the addresses of each directive.
* **`VerdictsAreSound`** from `WaitInv`, which says what each place of the loop
  knows about `hit`, `numms`, `interrupted` and the mode; the point is that a hit
  leaves the loop before `numms` is counted, so it cannot look like a timeout.
* **`ModeAtPrompt`** from `PromptInv`.

The assembler, for every set of lines, files of any length, every meaning of the
tokens, every size of the fields and every command line that satisfy
`AssemblerAssumption` and `EnvAssumption`:

* **`TableIsInverse`**; **`FailuresWriteNothing`**.
* **`PassesDoAgree`** from `CountInv` (each kept line is the stripped form of a line
  of the file, with as many instructions before it as its address says) and
  `FlashInv` (addresses and bytes of the second pass).
* **`SymbolsAreRight`** from `LabelInv`: a label was declared by the first line that
  carries it.
* **`AsmTypes`** from `TypeInv`; that `assemble` returns a value or one of the
  exceptions is a lemma for each kind of argument.
* **`BranchesReach`** from `EncodeInv`: what `assemble` may have returned for a line is
  what the program holds at its place, with the symbols of the end of pass 1
  (`Encoded`; pass 2 changes no symbol).  `OffsetKept` and `SignedKept` are the
  arithmetic: the unsigned difference, shifted, cut to the field and extended by
  the device, is the difference again if it fits.
* **`OutputsAreFaithful`** needs five invariants: those of the passes; `WholeInv`, that
  no line is missing once pass 1 is over; `EnvInv`, that the width of a run that
  was not refused is not 0; and `OutInv`, that what is written so far is the
  beginning of the program, or of its words back to front (`Reversed`).  At the
  end `ReversedBack` and, for a MIF of any width, `RowsBack` read it back.

Text, for every set of characters and texts of any length:

* **`RangesAreExact`** for every `MaxInt`, from `RangeInv`, by division: what has been
  counted out are the first multiples of the step.  `BoundIs` and `BetweenFits` say
  that, with ends less than `MaxInt` apart, nothing that is used has wrapped.
* **`LinesAreWhole`** from `LineInv`: in a line both readers see alike, the `QUOTES` flag
  of `ReadFromInput` is what `chop_string` will find at that character, and
  `chop_string` is in an escape only behind a backslash, which does not end a line.
* **`TokensAreRight`** and **`NumbersAreRight`** are about functions of a text, so their
  invariant (`TypedInv`) is only that it is one, and the proofs are inductions
  over it: `chop_string` escaped, unquoted and behind a label; the digits of a
  number, each with its own power of the base against the rule of Horner, all
  modulo the size of the type; and pairs of hexadecimal digits.

Induction over data is done with sets.  The induction theorems of the library take
an operator, which the provers cannot instantiate, but that `<` is well-founded on
the natural numbers takes none: `SetInduction` of `DataLemmas` follows from it, with
the set of the numbers for which a formula holds in place of the formula.  It
gives that a recursive function and the one behind a fold exist (`FoldExists`,
`RunExists`), after which a fold is its intermediate results, one step each
(`IsRun`).

Caches and MMU, for lines, caches and FIFO of every size and every set of
addresses that satisfy `MmuAssumption`:

* **`MmuTypes`**, **`TheRightLine`** from `ChannelInv`: while the MMU reads, one line
  is still to be asked for, asked for, or come (`OnePlace`, `LineMoves`), it is the
  one the cache asks for, and that request stays as it is until then
  (`TurnStays`).
* **`HitsAreRight`** from `HitInv`: lines that are there and not skewed hold the host's
  words.  `TwoLines` says which lines a fill reaches, `WordKept` that it leaves the
  words of any other as they were.

Only model-checked: the liveness properties `NoStarvation`, `RequestEnds`, `MemoryOpEnds`,
`WaitEnds`, `ExitEnds` and `AsmEnds`, since liveness and `ENABLED` are out of reach of
the provers used here.  Every invariant, and the refinement of `ThreadLifecycle`,
that a passing run checks is proved.  No module here has a recursive operator.

## 5. Not modelled

* Register values, forwarding, ALU and exceptions of the core (`regfile.sv`,
  `regfile_set.sv`, `alu.sv`, the data path of `exe.sv`).  `ProgramOrder` says which
  instruction is where; whether its operands are fresh would be a model on top.
  The hazards of `regfile.sv:137` and `flush_stall.sv:42` are therefore uncovered.
* Of the MMU the cycle counter, `mmio_rd_data` and the write of the final line; of
  the DMA unit the write channel; `mem_ctrl.sv`, which the AFU does not use;
  vendored interface code, and the Zedboard projects, which are copies of the
  core with ROMs.  `Pipeline` and `Mmu` are not composed: `Pipeline` takes the
  answers `miss_mem.sv` may give, and the caches give others (a hit behind a miss
  is reported as a miss, a store hit is dropped), so a specification of
  memory would not be implemented by them.
* The simulator and the Python assembler: sequential programs; the simulator is
  quoted where the core departs from it.
* `ISA_desc.cpp`, `ISA_gen.cpp`: no target builds them and they do not compile.
  `streams.cpp`, `messages.cpp`, `priscas_osi.cpp`: input, output and texts.
* Of what is modelled: memory contents; lines longer than 254 characters, which
  `fgets` hands out in pieces; and functions without callers (`scan_for_values`,
  `mono_syms_table`, breakpoints, `AFU_Reset`, `AFU::reset`, `tokas`, `ws_return`,
  `strip_comment`, `range::reset`).

Some behaviours the models contain and no property objects
to, for those who maintain them:

* The caches with fills from the middle of a line, hits behind a miss, stores, and
  addresses out of range: see `Mmu` above.
* An atomic instruction and the next are parted in the cases listed under
  `Pipeline`, which the repository's `README.md` and the simulator do not have.
* A range includes its end, against two of the three comments of `range.h`; one whose
  ends are far apart is refused or counts out nothing.
* `.hex` output has the bytes of each instruction turned round, on a line of its
  own, and `x2b` turns round the whole text: of several instructions the last comes
  first in its file (`x2b.cpp:96`).
* `.wait -m` compares 8 bits of the register; its wider `value_wait_mmio` is unused.
  `.rst -afu` resets nothing.  `.mem` rejects the last word of the memory.
  `.sr -s` with an end below its begin goes on for 2^64 bytes.
* End of input on the terminal is waited out for ever.  A line with an
  unbalanced quote ends the loader, outside `main`'s handlers.
* An interrupt, or a `.wait` behind it in a script, undoes `.exit`.  `-o` without
  `-i` makes the loop spin.
* A program that is terminated by an exception leaves the base registers of the
  device set (`RegistersLive` excepts it).
* `;` in quotes begins a comment all the same.  An escaped quote still toggles
  the quoting of `ReadFromInput`, so that a line it is in may end in a quote.
* A register number is masked, not refused; `sll` encodes its source in `rs`;
  `addi` with a label gets the offset of a branch; an offset that is too far for
  its field is cut; a program that is too long ends in an exception nobody
  catches.
