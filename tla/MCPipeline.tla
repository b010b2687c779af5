----------------------------- MODULE MCPipeline -----------------------------
(* Instances of Pipeline for TLC: small programs. *)
EXTENDS Pipeline, Sequences

I(op) == [op |-> op, obj |-> 0, tgt |-> 0, use |-> FALSE, atom |-> FALSE, cold |-> FALSE]
Nop          == I("none")
Load         == I("ld")
Use          == [Nop EXCEPT !.use = TRUE]
UseStore     == [I("st") EXCEPT !.use = TRUE]
Jmp(tgt)     == [I("jmp") EXCEPT !.tgt = tgt]
New(tgt)     == [I("init") EXCEPT !.tgt = tgt]
Cmd(op, obj) == [I(op) EXCEPT !.obj = obj]
A(ins)       == [ins EXCEPT !.atom = TRUE]     \* atomic
C(ins)       == [ins EXCEPT !.cold = TRUE]     \* may miss

Prog(s) == [p \in PCs |-> IF p < Len(s) THEN s[p + 1] ELSE Nop]

\* A load with its use behind it, in a loop, in two threads.
LoadLoop == Prog(<<New(1), C(Load), C(Use), Jmp(1), C(Jmp(1))>>)
\* A jump, taken while the load before it may miss.
LoadJump == Prog(<<New(1), C(Load), Nop, Jmp(2)>>)
\* An atomic load, use and store, in ever new threads.
AtomicLoop == Prog(<<New(1), A(C(Load)), A(UseStore), Jmp(0), C(Nop)>>)
\* An atomic instruction whose next misses, in its fetch or in its access.
AtomicMiss == Prog(<<New(1), Load, A(Use), C(Load), Jmp(1)>>)
\* A loop whose every instruction is atomic.
AtomicSpin == Prog(<<New(1), A(C(Load)), A(Jmp(1)), A(C(Nop)), A(Nop), Jmp(1)>>)
\* A thread that is put to sleep and woken by its parent; the sleep is atomic.
SleepWake == Prog(<<New(3), A(C(Cmd("slp", 1))), Cmd("wake", 1), Jmp(1)>>)
\* A thread that is killed while it runs, and created again.
KillNew == Prog(<<New(2), C(Cmd("kill", 1)), Load, Jmp(0)>>)
\* A thread is put to sleep while the load of a third one stalls the pipeline.
SleepInStall == Prog(<<C(New(5)), C(New(4)), C(Cmd("slp", 2)), Cmd("wake", 2), Jmp(4),
                       A(Nop), A(Load), Use, Cmd("kill", 1)>>)

\* The instruction behind a jump may miss.
JumpMiss == Prog(<<Jmp(0), C(Nop)>>)
\* A thread kills a thread it has created, and goes on.
KillChild == Prog(<<New(1), Cmd("kill", 1), Nop>>)

JumpPrograms == {JumpMiss}
KillPrograms == {KillChild}
MCPrograms == {LoadLoop, LoadJump, AtomicLoop, AtomicMiss, AtomicSpin, SleepWake, KillNew, SleepInStall}
AllCommands == [op : Ops, act : Threads, obj : Threads]
=============================================================================
