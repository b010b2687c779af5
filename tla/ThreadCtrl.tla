----------------------------- MODULE ThreadCtrl -----------------------------
(***************************************************************************)
(* The thread controller of the ThreadKraken core: the eight thread status *)
(* registers (rtl/main/thread_csr.sv) and the scheduler around them        *)
(* (rtl/main/thread_ctrl.sv).  One step of this module is one clock edge.  *)
(*                                                                         *)
(* The controller executes the thread command that sits in the write-back  *)
(* stage (wb), parks the threads whose cache access missed (wait_trd), and *)
(* moves the thread pointer (last_trd, cur_trd_tmp) round robin.  A bit    *)
(* vector of the RTL with one bit per thread is the set of the threads     *)
(* whose bit is 1.  The per-thread PC registers are in module Pipeline,    *)
(* where pc_sel.sv decides their next values.                              *)
(***************************************************************************)
EXTENDS Integers, FiniteSets

CONSTANTS
  N,            \* number of hardware threads (8 in the RTL)
  DelayPeriod,  \* period of delay_count (64: the counter has 6 bits)
  Commands,     \* what the write-back stage may hold
  MaxMiss       \* threads that can miss in one clock (2: one i-, one d-access)

Threads == 0 .. N - 1

Ops == {"none", "init", "slp", "wake", "kill"}

\* A thread command in the write-back stage: trd_ctrl_wb, trd_wb, obj_trd_wb.
Command == [op : Ops, act : Threads, obj : Threads]

\* The flushed stage: every field is zero.
Bubble == [op |-> "none", act |-> 0, obj |-> 0]

ASSUME ConstantsAssumption ==
  /\ N \in Nat \ {0}
  /\ DelayPeriod \in Nat /\ DelayPeriod > 1
  /\ Commands \subseteq Command
  /\ Bubble \in Commands
  /\ MaxMiss \in Nat

VARIABLES
  valid_trd,    \* threads that exist
  on_trd,       \* threads that are not asleep (thread_csr's running)
  par_trd,      \* par_trd[t]: the thread that created t, as the CSR records it
  last_trd,     \* the thread pointer of the previous clock
  cur_trd_tmp,  \* the thread pointer, if neither atomic nor stall holds it
  delay_count,  \* free-running counter that ends the waits for a miss
  wait_trd,     \* threads parked after a miss
  rst_init,     \* the clock after reset: thread 0 is created
  wb,           \* the command the write-back stage presents in this clock
  starved,      \* history: un-held clocks since t was on, did not miss and
                \* was not fetched
  owner         \* history: the thread that created t, NoOwner once it is gone

table == <<valid_trd, on_trd, par_trd, owner>>
sched == <<last_trd, cur_trd_tmp, delay_count, wait_trd, starved>>
vars  == <<valid_trd, on_trd, par_trd, owner, last_trd, cur_trd_tmp,
           delay_count, wait_trd, starved, rst_init, wb>>

NoOwner == -1

-----------------------------------------------------------------------------
(* Combinational outputs. *)

trd_full == valid_trd = Threads
trd_of   == trd_full
init     == wb.op = "init" \/ rst_init

\* t is the slot the next created thread gets: the lowest free one, and slot 0
\* when all are taken (the default of the priority chain).
IsNewTrd(t) ==
  \/ /\ t \in Threads \ valid_trd
     /\ \A u \in Threads \ valid_trd : t <= u
  \/ trd_full /\ t = 0

\* Mutated form: actor and object swapped, a child may stop its parent.
Permitted_Swapped(act, obj) == obj = par_trd[act] \/ act = obj

\* The comparison thread_csr makes before it obeys a sleep or a kill.
Permitted(act, obj) == act = par_trd[obj] \/ act = obj

invalid_op ==
  \/ wb.op \in {"slp", "kill"} /\ ~ Permitted(wb.act, wb.obj)
  \/ init /\ trd_full

-----------------------------------------------------------------------------
(* The thread table: what the command in the write-back stage does to the  *)
(* status registers at the clock edge.                                     *)

\* The history of who really created whom: a thread that goes takes its
\* claim on its children with it, although their par_trd keeps its number.
Orphaned(t, ownr) == [u \in Threads |-> IF ownr[u] = t THEN NoOwner ELSE ownr[u]]

\* Mutated form: the parent register is loaded with the new thread's number.
Create_SelfParent(act) ==
  \E t \in Threads :
    /\ IsNewTrd(t)
    /\ valid_trd' = valid_trd \cup {t}
    /\ on_trd'    = on_trd \cup {t}
    /\ par_trd'   = [par_trd EXCEPT ![t] = t]
    /\ owner'     = [Orphaned(t, owner) EXCEPT ![t] = act]

\* Mutated form: the parent register is not loaded when a thread is created.
Create_KeepParent(act) ==
  \E t \in Threads :
    /\ IsNewTrd(t)
    /\ valid_trd' = valid_trd \cup {t}
    /\ on_trd'    = on_trd \cup {t}
    /\ owner'     = [Orphaned(t, owner) EXCEPT ![t] = act]
    /\ UNCHANGED par_trd

\* Create a thread on behalf of act: the slot's CSR becomes valid and running.
Create(act) ==
  \E t \in Threads :
    /\ IsNewTrd(t)
    /\ valid_trd' = valid_trd \cup {t}
    /\ on_trd'    = on_trd \cup {t}
    /\ par_trd'   = [par_trd EXCEPT ![t] = act]
    /\ owner'     = [Orphaned(t, owner) EXCEPT ![t] = act]

Boot == rst_init /\ Create(wb.act)

NewThread == ~ rst_init /\ wb.op = "init" /\ Create(wb.act)

Sleep ==
  /\ ~ rst_init /\ wb.op = "slp"
  /\ on_trd' = IF Permitted(wb.act, wb.obj) THEN on_trd \ {wb.obj} ELSE on_trd
  /\ UNCHANGED <<valid_trd, par_trd, owner>>

\* Mutated form: a wake that does not look at the valid bit.
Wake_Unchecked ==
  /\ ~ rst_init /\ wb.op = "wake"
  /\ on_trd' = on_trd \cup {wb.obj}
  /\ UNCHANGED <<valid_trd, par_trd, owner>>

\* Any thread may wake any thread that exists: there is no permission check.
Wake ==
  /\ ~ rst_init /\ wb.op = "wake"
  /\ on_trd' = IF wb.obj \in valid_trd THEN on_trd \cup {wb.obj} ELSE on_trd
  /\ UNCHANGED <<valid_trd, par_trd, owner>>

\* Mutated form: a kill without the permission check.
Kill_Unchecked ==
  /\ ~ rst_init /\ wb.op = "kill"
  /\ IF wb.obj \in valid_trd
     THEN /\ valid_trd' = valid_trd \ {wb.obj}
          /\ on_trd'    = on_trd \ {wb.obj}
          /\ owner'     = [Orphaned(wb.obj, owner) EXCEPT ![wb.obj] = NoOwner]
     ELSE UNCHANGED <<valid_trd, on_trd, owner>>
  /\ UNCHANGED par_trd

\* The parent register of a killed thread keeps its value.
Kill ==
  /\ ~ rst_init /\ wb.op = "kill"
  /\ IF wb.obj \in valid_trd /\ Permitted(wb.act, wb.obj)
     THEN /\ valid_trd' = valid_trd \ {wb.obj}
          /\ on_trd'    = on_trd \ {wb.obj}
          /\ owner'     = [Orphaned(wb.obj, owner) EXCEPT ![wb.obj] = NoOwner]
     ELSE UNCHANGED <<valid_trd, on_trd, owner>>
  /\ UNCHANGED par_trd

NoCommand ==
  /\ ~ rst_init /\ wb.op = "none"
  /\ UNCHANGED table

-----------------------------------------------------------------------------
(* The scheduler. *)

\* The threads that may be fetched in this clock.
RunTrd(miss) == (on_trd \ wait_trd) \ miss

\* The slots from c to t, going round; c is a whole round away from itself.
Dist(c, t) == IF c < t THEN t - c ELSE t - c + N

\* Mutated form: the lowest running thread always wins (fixed priority).
IsNxtTrd_Fixed(cur, run, t) ==
  \/ /\ t \in run \ {cur}
     /\ \A u \in run \ {cur} : t <= u
  \/ run \ {cur} = {} /\ t = cur

\* t is the next thread after cur: the nearest runnable one, or cur itself
\* when there is no other.
IsNxtTrd(cur, run, t) ==
  \/ /\ t \in run \ {cur}
     /\ \A u \in run \ {cur} : Dist(cur, t) <= Dist(cur, u)
  \/ run \ {cur} = {} /\ t = cur

\* The thread the fetch stage works for; hold is atomic | stall.
CurTrd(hold) == IF hold THEN last_trd ELSE cur_trd_tmp

\* History: t loses an un-held slot while on, neither missing nor fetched.
Starve(cur, hold, miss) ==
  starved' = [t \in Threads |->
    IF t \notin on_trd \/ t \in miss \/ (t = cur /\ t \in RunTrd(miss)) THEN 0
    ELSE IF hold THEN starved[t] ELSE starved[t] + 1]

PointThread(hold, miss) ==
  LET cur == CurTrd(hold) IN
    /\ last_trd' = cur
    /\ \E t \in Threads : IsNxtTrd(cur, RunTrd(miss), t) /\ cur_trd_tmp' = t
    /\ Starve(cur, hold, miss)

\* Mutated form: the counter takes one value too many.
MissWait_NoWrap(miss) ==
  /\ delay_count' = IF delay_count = DelayPeriod THEN 0 ELSE delay_count + 1
  /\ wait_trd' = IF delay_count = 0 THEN {} ELSE wait_trd \cup miss

\* Threads that miss are parked until the counter comes round; a miss in the
\* very clock in which it does parks nobody.
MissWait(miss) ==
  /\ delay_count' = IF delay_count = DelayPeriod - 1 THEN 0 ELSE delay_count + 1
  /\ wait_trd' = IF delay_count = 0 THEN {} ELSE wait_trd \cup miss

\* One clock edge, but for what the pipeline shifts into the write-back stage.
Edge(hold, miss) ==
  /\ PointThread(hold, miss)
  /\ MissWait(miss)
  /\ rst_init' = FALSE
  /\ Boot \/ NewThread \/ Sleep \/ Wake \/ Kill \/ NoCommand

-----------------------------------------------------------------------------
(* The specification.  The pipeline is the environment: it chooses whether *)
(* the pointer is held, who misses, and the next command.  It is empty in  *)
(* the clock after reset.                                                  *)

Init ==
  /\ valid_trd = {} /\ on_trd = {}
  /\ par_trd = [t \in Threads |-> 0]
  /\ last_trd = 0 /\ cur_trd_tmp = 0
  /\ delay_count = 0 /\ wait_trd = {}
  /\ rst_init = TRUE
  /\ wb = Bubble
  /\ starved = [t \in Threads |-> 0]
  /\ owner = [t \in Threads |-> NoOwner]

\* Reset is asynchronous: it may fall anywhere.
Reset ==
  /\ valid_trd' = {} /\ on_trd' = {}
  /\ par_trd' = [t \in Threads |-> 0]
  /\ last_trd' = 0 /\ cur_trd_tmp' = 0
  /\ delay_count' = 0 /\ wait_trd' = {}
  /\ rst_init' = TRUE
  /\ wb' = Bubble
  /\ starved' = [t \in Threads |-> 0]
  /\ owner' = [t \in Threads |-> NoOwner]

\* The threads whose cache access may miss together in one clock.
Misses == {m \in SUBSET Threads : Cardinality(m) <= MaxMiss}

Clock ==
  \E hold \in BOOLEAN, miss \in Misses :
    /\ rst_init => ~ hold /\ miss = {}
    /\ Edge(hold, miss)
    /\ wb' \in IF rst_init THEN {Bubble} ELSE Commands

Next == Clock \/ Reset

Spec == Init /\ [][Next]_vars

\* What the code leaves to programs.  A command comes from a thread that is
\* running when it takes effect.
FromRunning == wb.op = "none" \/ wb.act \in on_trd

\* No thread is created when all slots are taken.
SlotLeft == FromRunning /\ (wb.op = "init" => ~ trd_full)

\* A disciplined program also ends no thread that has children left.  It may
\* still try to stop threads that are not its own.
Disciplined ==
  /\ SlotLeft
  /\ wb.op = "kill" /\ Permitted(wb.act, wb.obj) =>
       \A u \in valid_trd \ {wb.obj} : par_trd[u] # wb.obj

RunningSpec     == Init /\ [][(Clock /\ FromRunning') \/ Reset]_vars
SlotLeftSpec    == Init /\ [][(Clock /\ SlotLeft') \/ Reset]_vars
DisciplinedSpec == Init /\ [][(Clock /\ Disciplined') \/ Reset]_vars

-----------------------------------------------------------------------------
(* Properties. *)

TypeOK ==
  /\ valid_trd \subseteq Threads
  /\ on_trd \subseteq Threads
  /\ par_trd \in [Threads -> Threads]
  /\ last_trd \in Threads
  /\ cur_trd_tmp \in Threads
  /\ delay_count \in 0 .. DelayPeriod - 1
  /\ wait_trd \subseteq Threads
  /\ rst_init \in BOOLEAN
  /\ wb \in Commands
  /\ starved \in [Threads -> Nat]
  /\ owner \in [Threads -> Threads \cup {NoOwner}]

\* Only a thread that exists is ever scheduled: whatever sequence of sleeps,
\* wakes and kills the commands make, of live or of dead threads, the running
\* bit never outlives the valid bit (thread_csr's sleep and wake look at
\* different conditions).
RunningIsValid == on_trd \subseteq valid_trd

\* Nobody starves: a thread that is awake and does not miss again is fetched
\* before DelayPeriod + N - 1 un-held clocks have gone by, through a wait for
\* its miss, changes of the set of running threads and held pointers
\* (thread_ctrl's delay counter and round robin together).
BoundedStarvation == \A t \in Threads : starved[t] <= DelayPeriod + N - 2

\* The slots the pointer has to move from c to reach t.
Gap(c, t) == IF c = t THEN 0 ELSE Dist(c, t)

\* The inductive form of BoundedStarvation.  A parked thread has waited at most
\* since the counter left 1, when all waits ended; for one that is not parked,
\* every un-held slot it lost has brought the pointer a step closer, and a held
\* pointer starts again from the thread it held.
StarvationInv ==
  /\ delay_count = 1 => wait_trd = {}
  /\ BoundedStarvation
  /\ \A t \in wait_trd :
       starved[t] <= IF delay_count = 0 THEN DelayPeriod - 2 ELSE delay_count - 2
  /\ \A t \in on_trd \ wait_trd :
       /\ starved[t] + Gap(cur_trd_tmp, t) <= DelayPeriod + N - 2
       /\ last_trd # t => starved[t] + Gap(last_trd, t) <= DelayPeriod + N - 1

\* A thread created while others exist does not replace one of them (the
\* simulator raises "Number of Threads is 8, can not add more!").
NewThreadIsFresh ==
  [][NewThread => valid_trd' # valid_trd]_vars

\* invalid_op is raised for every sleep or kill of a thread that is not the
\* actor's child or the actor itself (the comment on the port): of a live
\* thread, by an actor that did not create it.
InvalidOpSound ==
  (/\ wb.op \in {"slp", "kill"} /\ wb.obj \in valid_trd
   /\ wb.act \notin {wb.obj, owner[wb.obj]}) => invalid_op

\* The core's running flag (threadkraken_top: valid_trd[0]), by which a host
\* tells that the program is over, does not fall while a thread is alive.
RootOutlivesAll == valid_trd # {} => 0 \in valid_trd

\* The recorded parent of a live thread is alive and did create it: no thread
\* inherits, with a slot, the children of the slot's previous thread.
ParentIsCreator ==
  \A t \in valid_trd : par_trd[t] \in valid_trd /\ owner[t] = par_trd[t]

\* The inductive form of ParentIsCreator and RootOutlivesAll.  The parents of
\* the live threads lead to slot 0: no set of threads is closed under par_trd
\* without it.
Rooted ==
  \A S \in SUBSET valid_trd :
    S # {} /\ (\A t \in S : par_trd[t] \in S) => 0 \in S

ForestInv ==
  /\ ParentIsCreator
  /\ Rooted
  /\ \A t \in Threads \ valid_trd : owner[t] = NoOwner
  /\ rst_init => valid_trd = {} /\ wb = Bubble
  /\ Disciplined

\* The thread table of a disciplined program implements ThreadLifecycle.
Lifecycle == INSTANCE ThreadLifecycle WITH
  Root    <- 0,
  None    <- NoOwner,
  status  <- [t \in Threads |-> IF t \notin valid_trd THEN "free"
                                ELSE IF t \in on_trd THEN "running" ELSE "sleeping"],
  creator <- owner

ImplementsLifecycle == Lifecycle!LifeSpec

=============================================================================
