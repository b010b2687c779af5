--------------------------- MODULE PipelineProofs ---------------------------
(***************************************************************************)
(* Theorems about Pipeline, for every number of threads, every address     *)
(* space and every set of programs: the pipeline is an environment the     *)
(* thread controller can live in, so that what is proved of ThreadCtrl     *)
(* holds of the composition; and program order.                            *)
(***************************************************************************)
EXTENDS Pipeline, ThreadCtrlProofs, FiniteSetTheorems

\* The pipeline's registers have their types, the decode stage works for the
\* thread the pointer was at, and the pipeline is empty in the clock after
\* reset.
PipeInv ==
  /\ PipeTypeOK
  /\ id.t = last_trd
  /\ rst_init => id = NoIns /\ ex = NoIns /\ mem = NoIns /\ wbs = NoIns

\* An instruction in the pipeline is one of the program.
LEMMA InsType ==
  ASSUME PipeTypeOK, NEW s \in Slot
  PROVE  Ins(s) \in Instruction
BY PipelineAssumption DEF PipeTypeOK, Slot, Ins

LEMMA NoInsType == NoIns \in Slot
BY ConstantsAssumption, PipelineAssumption DEF NoIns, Slot, Threads, PCs

LEMMA SuccType ==
  ASSUME NEW p \in PCs
  PROVE  Succ(p) \in PCs
BY PipelineAssumption DEF Succ, PCs

\* The write-back stage presents one of the commands of ThreadCtrl.
LEMMA CommandType ==
  ASSUME PipeTypeOK, NEW s \in Slot
  PROVE  CommandOf(s) \in Commands
<1>1. Ins(s) \in Instruction
  BY InsType
<1>2. CASE Is(s, Ops \ {"none"})
  <2>1. /\ Ins(s).op \in Ops \ {"none"} /\ s.t \in Threads
        /\ Ins(s).obj \in Threads
    BY <1>1, <1>2 DEF Is, Slot, Instruction
  <2>. QED
    BY <1>2, <2>1, PipelineAssumption DEF CommandOf
<1>3. CASE ~ Is(s, Ops \ {"none"})
  BY <1>3, ConstantsAssumption DEF CommandOf
<1>. QED
  BY <1>2, <1>3

\* At most one fetch and one data access miss in a clock.
LEMMA MissesType ==
  ASSUME PipeTypeOK
  PROVE  trd_miss \in Misses
<1>1. id.t \in Threads /\ wbs.t \in Threads
  BY DEF PipeTypeOK, Slot
<1>2. trd_miss \subseteq {id.t, wbs.t} /\ trd_miss \subseteq Threads
  BY DEF trd_miss
<1>3. IsFiniteSet({id.t}) /\ Cardinality({id.t}) = 1
  BY FS_Singleton
<1>4. {id.t, wbs.t} = {id.t} \cup {wbs.t}
  OBVIOUS
<1>5. IsFiniteSet({id.t, wbs.t}) /\ Cardinality({id.t, wbs.t}) <= 2
  BY <1>3, <1>4, FS_AddElement
<1>6. Cardinality(trd_miss) <= 2
  <2>1. /\ IsFiniteSet(trd_miss)
        /\ Cardinality(trd_miss) <= Cardinality({id.t, wbs.t})
    BY <1>2, <1>5, FS_Subset
  <2>2. Cardinality(trd_miss) \in Nat /\ Cardinality({id.t, wbs.t}) \in Nat
    BY <1>5, <2>1, FS_CardinalityType
  <2>. QED
    BY <1>5, <2>1, <2>2
<1>7. MaxMiss \in Nat /\ MaxMiss >= 2 /\ Cardinality(trd_miss) \in Nat
  BY <1>2, <1>5, ConstantsAssumption, PipelineAssumption, FS_Subset, FS_CardinalityType
<1>. QED
  BY <1>2, <1>6, <1>7 DEF Misses

LEMMA HoldType ==
  ASSUME PipeTypeOK
  PROVE  hold \in BOOLEAN
<1>1. id \in Slot /\ wbs \in Slot /\ ex \in Slot
  BY DEF PipeTypeOK
<1>2. Ins(id).atom \in BOOLEAN /\ Ins(ex).use \in BOOLEAN
  BY <1>1, InsType DEF Instruction
<1>. QED
  BY <1>1, <1>2 DEF hold, atomic, stall, Slot

\* In the clock after reset the pipeline neither holds nor misses nor commands.
LEMMA EmptyPipe ==
  ASSUME id = NoIns, ex = NoIns, mem = NoIns, wbs = NoIns
  PROVE  ~ hold /\ trd_miss = {}
BY DEF NoIns, hold, atomic, stall, stall_req, Is, trd_miss, i_miss, d_miss

\* A clock keeps the types of the stage registers.
LEMMA StageTypes ==
  ASSUME PipeInv, PipeClock
  PROVE  /\ prog' = prog
         /\ pc' \in [Threads -> PCs]
         /\ id' \in Slot /\ ex' \in Slot /\ mem' \in Slot /\ wbs' \in Slot
         /\ arch' \in [Threads -> PCs]
         /\ tainted' \subseteq Threads
         /\ linked' \subseteq {"ex", "mem", "wb"}
         /\ owed' \in Threads \cup {Nobody}
<1>1. /\ id \in Slot /\ ex \in Slot /\ mem \in Slot /\ wbs \in Slot
      /\ pc \in [Threads -> PCs] /\ arch \in [Threads -> PCs]
  BY DEF PipeInv, PipeTypeOK
<1>2. cur_trd \in Threads
  BY DEF PipeInv, PipeTypeOK, TypeOK, cur_trd, CurTrd
<1>3. i_addr \in PCs
  BY <1>1, <1>2 DEF i_addr, Slot
<1>4. Ins(ex).tgt \in PCs /\ Ins(wbs).tgt \in PCs
  BY <1>1, InsType DEF PipeInv, Instruction
<1>5. START_PC \in PCs
  BY PipelineAssumption DEF START_PC, PCs
<1>6. ASSUME NEW t \in Threads PROVE NextPC(t) \in PCs
  <2>1. InitPC(t) \in PCs
    BY <1>4, <1>5 DEF InitPC
  <2>2. id.pc \in PCs /\ wbs.pc \in PCs /\ pc[t] \in PCs /\ Succ(i_addr) \in PCs
    BY <1>1, <1>3, SuccType DEF Slot
  <2>. QED
    BY <1>4, <2>1, <2>2 DEF NextPC
<1>7. id' \in Slot
  <2>1. i_rd \in BOOLEAN
    BY DEF i_rd
  <2>. QED
    BY <1>1, <1>2, <1>3, <2>1 DEF PipeClock, Fetch, Slot
<1>8. ex' \in Slot /\ mem' \in Slot
  BY <1>1, NoInsType DEF PipeClock, Decode, Execute
<1>9. wbs' \in Slot
  BY <1>1, NoInsType DEF PipeClock, Memory, Slot
<1>10. ASSUME NEW t \in Threads
       PROVE  /\ InitPC(t) \in PCs /\ Ins(wbs).tgt \in PCs
              /\ Succ(wbs.pc) \in PCs /\ arch[t] \in PCs
  BY <1>1, <1>4, <1>5, SuccType DEF InitPC, Slot
<1>11. arch' \in [Threads -> PCs]
  BY <1>10 DEF PipeClock, Commit
<1>12. tainted' \subseteq Threads
  BY DEF PipeClock, Commit
<1>13. linked' \subseteq {"ex", "mem", "wb"}
  BY DEF PipeClock, Pair
<1>14. owed' \in Threads \cup {Nobody}
  BY <1>1 DEF PipeInv, PipeTypeOK, PipeClock, Pair, Slot
<1>. QED
  BY <1>6, <1>7, <1>8, <1>9, <1>11, <1>12, <1>13, <1>14 DEF PipeClock

\* A clock of the pipeline is a clock of the thread controller.
LEMMA ClockRefines ==
  ASSUME PipeInv, PipeClock
  PROVE  Clock
<1>1. PipeTypeOK
  BY DEF PipeInv
<1>2. hold \in BOOLEAN /\ trd_miss \in Misses /\ Edge(hold, trd_miss)
  BY <1>1, HoldType, MissesType DEF PipeClock
<1>3. rst_init => ~ hold /\ trd_miss = {}
  BY EmptyPipe DEF PipeInv
<1>4. wb' \in Commands
  <2>1. wbs' \in Slot /\ prog' = prog
    BY StageTypes
  <2>2. CommandOf(wbs') \in Commands
    BY <1>1, <2>1, CommandType
  <2>. QED
    BY <2>2 DEF PipeClock
<1>5. rst_init => wb' = Bubble
  <2>1. rst_init => wbs'.real = FALSE
    BY DEF PipeInv, PipeClock, Memory, NoIns
  <2>. QED
    BY <2>1 DEF PipeClock, CommandOf, Is
<1>. QED
  BY <1>2, <1>3, <1>4, <1>5 DEF Clock

\* A clock of the pipeline keeps its invariant: the decode stage follows the
\* pointer, also through stalls, for a stall holds the pointer.
LEMMA ClockInv ==
  ASSUME PipeInv, PipeClock
  PROVE  PipeInv'
<1>1. TypeOK'
  BY ClockRefines, NextTypes DEF PipeInv, PipeTypeOK, Next
<1>2. PipeTypeOK'
  <2>1. wb' = CommandOf(wbs')
    BY DEF PipeClock
  <2>2. prog' = prog
    BY StageTypes
  <2>3. (wb = CommandOf(wbs))'
    BY <2>1, <2>2 DEF CommandOf, Is, Ins
  <2>. QED
    BY <1>1, <2>2, <2>3, StageTypes DEF PipeInv, PipeTypeOK
<1>3. (id.t = last_trd)'
  <2>1. last_trd' = cur_trd
    BY DEF PipeClock, Edge, PointThread, cur_trd
  <2>2. id'.t = IF stall THEN id.t ELSE cur_trd
    BY DEF PipeClock, Fetch
  <2>3. stall => cur_trd = last_trd
    BY DEF hold, cur_trd, CurTrd
  <2>. QED
    BY <2>1, <2>2, <2>3 DEF PipeInv
<1>4. ~ rst_init'
  BY DEF PipeClock, Edge
<1>. QED
  BY <1>2, <1>3, <1>4 DEF PipeInv

\* Every behaviour starts with an empty pipeline, and so does every reset.
LEMMA InitInv == PipeInit => PipeInv
<1>. SUFFICES ASSUME PipeInit PROVE PipeInv
  OBVIOUS
<1>1. TypeOK
  BY InitTypes DEF PipeInit
<1>2. START_PC \in PCs
  BY PipelineAssumption DEF START_PC, PCs
<1>3. wb = CommandOf(wbs)
  BY DEF PipeInit, Init, CommandOf, Is, NoIns
<1>. QED
  BY <1>1, <1>2, <1>3, NoInsType DEF PipeInit, Init, PipeInv, PipeTypeOK, NoIns

LEMMA ResetInv == PipeInv /\ PipeReset => PipeInv'
<1>. SUFFICES ASSUME PipeInv, PipeReset PROVE PipeInv'
  OBVIOUS
<1>1. TypeOK'
  BY ResetTypes DEF PipeReset
<1>2. START_PC \in PCs
  BY PipelineAssumption DEF START_PC, PCs
<1>3. wb' = CommandOf(wbs)'
  BY DEF PipeReset, Reset, CommandOf, Is, NoIns
<1>4. prog' \in Programs
  BY DEF PipeReset, PipeInv, PipeTypeOK
<1>. QED
  BY <1>1, <1>2, <1>3, <1>4, NoInsType DEF PipeReset, Reset, PipeInv, PipeTypeOK, NoIns

\* The invariant of the pipeline.
THEOREM PipeInvariant == PipeSpec => []PipeInv
<1>1. PipeInv /\ [PipeNext]_pipeVars => PipeInv'
  <2>. SUFFICES ASSUME PipeInv, [PipeNext]_pipeVars PROVE PipeInv'
    OBVIOUS
  <2>1. CASE PipeClock
    BY <2>1, ClockInv
  <2>2. CASE PipeReset
    BY <2>2, ResetInv
  <2>3. CASE UNCHANGED pipeVars
    BY <2>3 DEF pipeVars, vars, stages, PipeInv, PipeTypeOK, TypeOK, CommandOf, Is, Ins
  <2>. QED
    BY <2>1, <2>2, <2>3 DEF PipeNext
<1>. QED
  BY <1>1, InitInv, PTL DEF PipeSpec

\* The registers of the pipeline always hold values of their types.
THEOREM PipeTypeCorrect == PipeSpec => []PipeTypeOK
<1>1. PipeInv => PipeTypeOK
  BY DEF PipeInv
<1>. QED
  BY <1>1, PipeInvariant, PTL

\* The pipeline implements the environment of ThreadCtrl: at most two threads
\* miss together, nothing is held, missed or commanded in the clock after
\* reset, and only commands of ThreadCtrl reach the controller.
THEOREM PipelineImplements == PipeSpec => Spec
<1>1. PipeInit => Init
  BY DEF PipeInit
<1>2. PipeInv /\ [PipeNext]_pipeVars => [Next]_vars
  <2>. SUFFICES ASSUME PipeInv, [PipeNext]_pipeVars PROVE [Next]_vars
    OBVIOUS
  <2>1. CASE PipeClock
    BY <2>1, ClockRefines DEF Next
  <2>2. CASE PipeReset
    BY <2>2 DEF PipeReset, Next
  <2>3. CASE UNCHANGED pipeVars
    BY <2>3 DEF pipeVars
  <2>. QED
    BY <2>1, <2>2, <2>3 DEF PipeNext
<1>. QED
  BY <1>1, <1>2, PipeInvariant, PTL DEF PipeSpec, Spec

\* So the core schedules only threads that exist, and no thread that is awake
\* and does not miss again is passed over DelayPeriod + N - 1 times, whatever
\* programs run on the pipeline.
THEOREM PipelineStarvation == PipeSpec => [](RunningIsValid /\ BoundedStarvation)
BY PipelineImplements, RunningCorrect, StarvationCorrect, PTL

-----------------------------------------------------------------------------

\* A fetch that did not miss is of a thread that is not parked; an atomic
\* instruction that is still linked has one of its own thread right behind it, and
\* the one owed is on its way with nothing before it.
LinkInv ==
  /\ id.real /\ ~ id.miss => id.t \notin wait_trd
  /\ "ex" \in linked => ex.real /\ id.real /\ id.t = ex.t
  /\ "mem" \in linked => mem.real /\ ex.real /\ ex.t = mem.t
  /\ "wb" \in linked =>
       wbs.real /\ IF mem.real THEN mem.t = wbs.t ELSE ex.real /\ ex.t = wbs.t
  /\ owed # Nobody =>
       IF wbs.real THEN wbs.t = owed ELSE mem.real /\ mem.t = owed

\* What is fetched in this clock will not be parked in the next.
LEMMA FetchNotParked ==
  ASSUME PipeInv, PipeClock
  PROVE  (id.real /\ ~ id.miss => id.t \notin wait_trd)'
<1>1. id'.real = i_rd /\ id'.t = IF stall THEN id.t ELSE cur_trd
  BY DEF PipeClock, Fetch
<1>2. stall => cur_trd = id.t
  BY DEF PipeInv, hold, cur_trd, CurTrd
<1>3. i_rd => cur_trd \notin wait_trd /\ cur_trd \notin trd_miss
  BY DEF i_rd, RunTrd
<1>4. wait_trd' = IF delay_count = 0 THEN {} ELSE wait_trd \cup trd_miss
  BY DEF PipeClock, Edge, MissWait
<1>. QED
  BY <1>1, <1>2, <1>3, <1>4

\* An atomic instruction that stays linked on its way into execute, or there in a
\* stall, has the fetch of its own thread behind it.
LEMMA LinkedEx ==
  ASSUME PipeInv, LinkInv, PipeClock
  PROVE  ("ex" \in linked => ex.real /\ id.real /\ id.t = ex.t)'
<1>. SUFFICES ASSUME LinkEx PROVE ex'.real /\ id'.real /\ id'.t = ex'.t
  BY DEF PipeClock, Pair
<1>1. id.t = last_trd /\ id \in Slot
  BY DEF PipeInv, PipeTypeOK
<1>2. id.real /\ ~ id.miss /\ id.t \notin wait_trd
  BY DEF LinkEx, LinkInv, i_miss, atomic
<1>3. cur_trd = id.t
  BY <1>1 DEF LinkEx, hold, cur_trd, CurTrd
<1>4. ~ FlushYoung(id.t)
  BY DEF LinkEx, stall, FlushYoung
<1>5. id.t \in RunTrd(trd_miss)
  <2>1. ~ (d_miss /\ id.t = wbs.t)
    BY <1>4 DEF FlushYoung, squash
  <2>2. id.t \notin trd_miss
    BY <1>2, <2>1 DEF trd_miss, i_miss
  <2>. QED
    BY <1>2, <2>2 DEF RunTrd, LinkEx
<1>6. id'.real /\ id'.t = id.t
  <2>1. i_rd
    BY <1>3, <1>4, <1>5 DEF i_rd
  <2>2. id'.real = i_rd /\ id'.t = IF stall THEN id.t ELSE cur_trd
    BY DEF PipeClock, Fetch
  <2>. QED
    BY <1>3, <2>1, <2>2
<1>7. ex' = IF stall THEN ex ELSE id
  BY <1>2, <1>4 DEF PipeClock, Decode
<1>8. stall => ex.real /\ id.t = ex.t
  BY DEF LinkEx, LinkInv
<1>. QED
  BY <1>2, <1>6, <1>7, <1>8

\* It goes on into memory with the one behind it in execute.
LEMMA LinkedMem ==
  ASSUME PipeInv, LinkInv, PipeClock
  PROVE  ("mem" \in linked => mem.real /\ ex.real /\ ex.t = mem.t)'
<1>. SUFFICES ASSUME LinkMem PROVE mem'.real /\ ex'.real /\ ex'.t = mem'.t
  BY DEF PipeClock, Pair
<1>1. ex.real /\ id.real /\ id.t = ex.t /\ ~ id.miss
  BY DEF LinkMem, LinkInv, i_miss
<1>2. ~ stall /\ ~ FlushOld(ex.t) /\ ~ FlushYoung(id.t)
  BY <1>1 DEF LinkMem, FlushOld, FlushYoung
<1>. QED
  BY <1>1, <1>2 DEF PipeClock, Decode, Execute

\* In write-back it has the one behind it in memory, or a stall away from there.
LEMMA LinkedWb ==
  ASSUME PipeInv, LinkInv, PipeClock
  PROVE  ("wb" \in linked =>
            wbs.real /\ IF mem.real THEN mem.t = wbs.t ELSE ex.real /\ ex.t = wbs.t)'
<1>. SUFFICES ASSUME LinkWb
              PROVE  wbs'.real /\ IF mem'.real THEN mem'.t = wbs'.t
                                              ELSE ex'.real /\ ex'.t = wbs'.t
  BY DEF PipeClock, Pair
<1>1. mem.real /\ ex.real /\ ex.t = mem.t /\ ~ FlushOld(mem.t) /\ ~ FlushOld(ex.t)
  BY DEF LinkWb, LinkInv
<1>2. wbs'.real = mem.real /\ wbs'.t = mem.t
  BY <1>1 DEF PipeInv, PipeTypeOK, PipeClock, Memory, Slot
<1>3. CASE stall
  <2>1. ~ FlushYoung(id.t)
    BY <1>3 DEF stall, FlushYoung
  <2>2. ex' = ex /\ ~ mem'.real
    BY <1>3, <2>1 DEF PipeClock, Decode, Execute, NoIns
  <2>. QED
    BY <1>1, <1>2, <2>2
<1>4. CASE ~ stall
  BY <1>1, <1>2, <1>4 DEF PipeClock, Execute
<1>. QED
  BY <1>3, <1>4

\* Once it has taken effect, the one behind it is the next in write-back.
LEMMA OwedNext ==
  ASSUME PipeInv, LinkInv, PipeClock
  PROVE  (owed # Nobody => IF wbs.real THEN wbs.t = owed ELSE mem.real /\ mem.t = owed)'
<1>. SUFFICES ASSUME owed' # Nobody
              PROVE  IF wbs'.real THEN wbs'.t = owed' ELSE mem'.real /\ mem'.t = owed'
  BY DEF Nobody
<1>1. wbs \in Slot /\ mem \in Slot
  BY DEF PipeInv, PipeTypeOK
<1>2. ~ squash
  BY DEF PipeClock, Pair, squash, d_miss, Is
<1>3. wbs'.real = mem.real /\ wbs'.t = mem.t
  BY <1>1, <1>2 DEF PipeClock, Memory, FlushOld, Slot
<1>4. CASE wbs.real
  <2>1. owed' = wbs.t /\ "wb" \in linked
    BY <1>2, <1>4 DEF PipeClock, Pair, d_miss, squash
  <2>2. CASE mem.real
    BY <1>3, <2>1, <2>2 DEF LinkInv
  <2>3. CASE ~ mem.real
    <3>1. ex.real /\ ex.t = wbs.t
      BY <2>1, <2>3 DEF LinkInv
    <3>2. ~ stall /\ ~ FlushOld(ex.t)
      BY <1>2, <2>3 DEF stall, stall_req, Is, FlushOld
    <3>3. mem' = ex
      BY <3>2 DEF PipeClock, Execute
    <3>. QED
      BY <1>3, <2>1, <2>3, <3>1, <3>3
  <2>. QED
    BY <2>2, <2>3
<1>5. CASE ~ wbs.real
  <2>1. owed' = owed
    BY <1>5 DEF PipeClock, Pair, d_miss
  <2>2. mem.real /\ mem.t = owed
    BY <1>5, <2>1 DEF LinkInv
  <2>. QED
    BY <1>3, <2>1, <2>2
<1>. QED
  BY <1>4, <1>5

\* An atomic instruction and the one behind it take effect with none of another
\* thread between them, for every program and number of threads, unless the pair
\* is one of those the core gives up.
THEOREM AtomicCorrect == PipeSpec => []AtomicPair
<1>1. PipeInit => LinkInv
  BY DEF PipeInit, LinkInv, NoIns
<1>2. PipeInv /\ LinkInv /\ [PipeNext]_pipeVars => LinkInv'
  <2>. SUFFICES ASSUME PipeInv, LinkInv, [PipeNext]_pipeVars PROVE LinkInv'
    OBVIOUS
  <2>1. CASE PipeClock
    BY <2>1, FetchNotParked, LinkedEx, LinkedMem, LinkedWb, OwedNext DEF LinkInv
  <2>2. CASE PipeReset
    BY <2>2 DEF PipeReset, LinkInv, NoIns, Nobody
  <2>3. CASE UNCHANGED pipeVars
    BY <2>3 DEF pipeVars, stages, vars, LinkInv, Nobody
  <2>. QED
    BY <2>1, <2>2, <2>3 DEF PipeNext
<1>3. LinkInv => AtomicPair
  BY DEF LinkInv, AtomicPair
<1>. QED
  BY <1>1, <1>2, <1>3, PipeInvariant, PTL DEF PipeSpec

-----------------------------------------------------------------------------
(* Program order: a thread that none of the hazards of Hazard has hit is   *)
(* executed in program order, and its PC register is precise.              *)

\* Stage s holds an instruction of t, perhaps one whose fetch or access missed.
Holds(s, t) == s.real /\ s.t = t

\* The address that follows stage s when the instructions before it end at a:
\* with its jump taken, and with none.
Resolved(s, t, a) ==
  IF ~ Holds(s, t) THEN a
  ELSE IF Ins(s).op = "jmp" THEN Ins(s).tgt ELSE Succ(s.pc)
Behind(s, t, a) == IF Holds(s, t) THEN Succ(s.pc) ELSE a

\* The address each stage must have, if it holds an instruction of t.  A jump is
\* taken in execute, so that decode and fetch are behind it as if it were not.
MemPC(t)   == Resolved(wbs, t, arch[t])
ExPC(t)    == Resolved(mem, t, MemPC(t))
IdPC(t)    == Behind(ex, t, ExPC(t))
FetchPC(t) == Behind(id, t, IdPC(t))

At(s, t, a) == Holds(s, t) => s.pc = a

\* The instructions of t in the pipeline are consecutive, from the next one that
\* is to take effect up to the PC register.
Chain(t) ==
  /\ At(wbs, t, arch[t])
  /\ At(mem, t, MemPC(t))
  /\ At(ex, t, ExPC(t))
  /\ At(id, t, IdPC(t))
  /\ pc[t] = FetchPC(t)

\* The inductive invariant.  A fetch that missed does not go past decode.
OrderInv ==
  /\ ~ ex.miss /\ ~ mem.miss
  /\ \A t \in Threads \ tainted : Chain(t)

\* The chain of a thread, primed and unfolded: the program does not change.
LEMMA ChainPrime ==
  ASSUME PipeInv, PipeClock, NEW t \in Threads,
         At(wbs', t, arch'[t]),
         At(mem', t, Resolved(wbs', t, arch'[t])),
         At(ex', t, Resolved(mem', t, Resolved(wbs', t, arch'[t]))),
         At(id', t, Behind(ex', t, Resolved(mem', t, Resolved(wbs', t, arch'[t])))),
         pc'[t] = Behind(id', t, Behind(ex', t, Resolved(mem', t, Resolved(wbs', t, arch'[t]))))
  PROVE  Chain(t)'
<1>1. prog' = prog
  BY StageTypes
<1>. QED
  BY <1>1 DEF Chain, MemPC, ExPC, IdPC, FetchPC, At, Holds, Resolved, Behind, Ins

\* What a clock does to the PC, the history and the stages of one thread.
LEMMA ThreadStep ==
  ASSUME PipeInv, ~ mem.miss, ~ ex.miss, PipeClock, NEW t \in Threads
  PROVE  /\ pc'[t] = NextPC(t)
         /\ arch'[t] = IF Created(t) THEN InitPC(t)
                       ELSE IF wbs.real /\ ~ wbs.miss /\ t = wbs.t
                            THEN IF Ins(wbs).op = "jmp" THEN Ins(wbs).tgt ELSE Succ(wbs.pc)
                       ELSE arch[t]
         /\ id.t = last_trd
         /\ Holds(wbs', t) <=> Holds(mem, t) /\ ~ FlushOld(t)
         /\ Holds(wbs', t) => wbs'.pc = mem.pc
         /\ Holds(mem', t) <=> Holds(ex, t) /\ ~ FlushOld(t) /\ ~ stall
         /\ Holds(mem', t) => mem'.pc = ex.pc
         /\ stall => ex' = ex \/ FlushYoung(id.t)
         /\ ~ stall => (Holds(ex', t) <=> Holds(id, t) /\ ~ id.miss /\ ~ FlushYoung(t))
         /\ ~ stall /\ Holds(ex', t) => ex'.pc = id.pc
         /\ Holds(id', t) <=> i_rd /\ cur_trd = t
         /\ id'.pc = i_addr
<1>1. /\ mem \in Slot /\ ex \in Slot /\ id \in Slot
      /\ id.t = last_trd
  BY DEF PipeInv, PipeTypeOK
<1>2. pc'[t] = NextPC(t)
  BY DEF PipeClock
<1>3. arch'[t] = IF Created(t) THEN InitPC(t)
                 ELSE IF wbs.real /\ ~ wbs.miss /\ t = wbs.t
                      THEN IF Ins(wbs).op = "jmp" THEN Ins(wbs).tgt ELSE Succ(wbs.pc)
                 ELSE arch[t]
  BY DEF PipeClock, Commit
<1>4. /\ Holds(wbs', t) <=> Holds(mem, t) /\ ~ FlushOld(t)
      /\ Holds(wbs', t) => wbs'.pc = mem.pc
  <2>1. CASE FlushOld(mem.t)
    BY <2>1 DEF PipeClock, Memory, Holds, NoIns
  <2>2. CASE ~ FlushOld(mem.t)
    <3>1. wbs'.t = mem.t /\ wbs'.pc = mem.pc /\ wbs'.real = mem.real
      BY <1>1, <2>2 DEF PipeClock, Memory, Slot
    <3>. QED
      BY <2>2, <3>1 DEF Holds
  <2>. QED
    BY <2>1, <2>2
<1>5. /\ Holds(mem', t) <=> Holds(ex, t) /\ ~ FlushOld(t) /\ ~ stall
      /\ Holds(mem', t) => mem'.pc = ex.pc
  BY DEF PipeClock, Execute, Holds, NoIns
<1>6. stall => ex' = ex \/ FlushYoung(id.t)
  BY DEF PipeClock, Decode
<1>7. ~ stall => (Holds(ex', t) <=> Holds(id, t) /\ ~ id.miss /\ ~ FlushYoung(t))
  BY DEF PipeClock, Decode, Holds, NoIns
<1>8. ~ stall /\ Holds(ex', t) => ex'.pc = id.pc
  BY DEF PipeClock, Decode, Holds, NoIns
<1>9. Holds(id', t) <=> i_rd /\ cur_trd = t
  <2>1. id'.real = i_rd /\ id'.t = IF stall THEN id.t ELSE cur_trd
    BY DEF PipeClock, Fetch
  <2>2. stall => cur_trd = id.t
    BY <1>1 DEF cur_trd, CurTrd, hold
  <2>. QED
    BY <2>1, <2>2 DEF Holds
<1>10. id'.pc = i_addr
  BY DEF PipeClock, Fetch
<1>. QED
  BY <1>1, <1>2, <1>3, <1>4, <1>5, <1>6, <1>7, <1>8, <1>9, <1>10

\* A thread whose fetch or access missed in this clock is not fetched.
LEMMA MissNotFetched ==
  ASSUME NEW t \in Threads, (i_miss /\ id.t = t) \/ (d_miss /\ wbs.t = t)
  PROVE  ~ (i_rd /\ cur_trd = t)
BY DEF i_rd, RunTrd, trd_miss

\* A flush of the young keeps its thread from being fetched.
LEMMA FlushNotFetched ==
  ASSUME NEW t \in Threads, FlushYoung(t)
  PROVE  ~ (i_rd /\ cur_trd = t)
BY DEF i_rd

-----------------------------------------------------------------------------
(* The cases of a clock, for one thread t that no hazard hits. *)

\* A create in the slot t: nothing of its last thread is left.
LEMMA CreatedCase ==
  ASSUME PipeInv, ~ mem.miss, ~ ex.miss, PipeClock, NEW t \in Threads,
         Created(t), ~ Inherited(t)
  PROVE  Chain(t)'
<1>. DEFINE Old(s) == Holds(s, t) /\ ~ FlushOld(t)
<1>1. /\ ~ Old(mem) /\ ~ Old(ex) /\ ~ (i_rd /\ cur_trd = t)
      /\ ~ (Holds(id, t) /\ ~ id.miss /\ ~ FlushYoung(t))
  BY DEF Inherited, Surviving, Holds
<1>2. ~ Holds(wbs', t) /\ ~ Holds(mem', t) /\ ~ Holds(id', t)
  BY <1>1, ThreadStep
<1>3. ~ Holds(ex', t)
  <2>1. CASE stall
    <3>1. ~ FlushYoung(id.t) /\ ~ FlushOld(t)
      BY <2>1 DEF stall, FlushYoung, FlushOld
    <3>. QED
      BY <1>1, <2>1, <3>1, ThreadStep
  <2>2. CASE ~ stall
    BY <1>1, <2>2, ThreadStep
  <2>. QED
    BY <2>1, <2>2
<1>4. pc'[t] = InitPC(t) /\ arch'[t] = InitPC(t)
  BY ThreadStep DEF NextPC
<1>. QED
  BY <1>2, <1>3, <1>4, ChainPrime DEF At, Resolved, Behind

\* t is in write-back and clears its younger instructions: a miss goes back to
\* the access, and a kill or sleep that nothing has followed goes on behind it.
LEMMA SquashCase ==
  ASSUME PipeInv, ~ mem.miss, ~ ex.miss, PipeClock, NEW t \in Threads,
         Chain(t), ~ Hazard(t), ~ Created(t),
         squash, wbs.t = t
  PROVE  Chain(t)'
<1>1. FlushYoung(t) /\ FlushOld(t) /\ ~ stall
  BY DEF FlushYoung, FlushOld, stall
<1>2. ~ Holds(wbs', t) /\ ~ Holds(mem', t) /\ ~ Holds(ex', t) /\ ~ Holds(id', t)
  BY <1>1, FlushNotFetched, ThreadStep
<1>3. pc'[t] = arch'[t]
  <2>1. CASE d_miss
    <3>1. pc'[t] = wbs.pc
      BY <2>1, ThreadStep DEF NextPC
    <3>2. arch'[t] = arch[t]
      BY <2>1, ThreadStep DEF d_miss
    <3>. QED
      BY <2>1, <3>1, <3>2 DEF Chain, At, Holds, d_miss
  <2>2. CASE ~ d_miss
    <3>1. Is(wbs, {"kill", "slp"})
      BY <2>2 DEF squash
    <3>2. ~ Holds(id, t) /\ ~ Holds(ex, t) /\ ~ Holds(mem, t)
      BY <3>1 DEF Hazard, Skipped, Holds
    <3>3. pc'[t] = pc[t]
      <4>1. ~ (i_miss /\ t = id.t) /\ ~ (jmp /\ t = ex.t)
        BY <3>2 DEF i_miss, jmp, Is, Holds
      <4>2. ~ (i_rd /\ cur_trd = t)
        BY <1>1, FlushNotFetched
      <4>. QED
        BY <2>2, <4>1, <4>2, ThreadStep DEF NextPC
    <3>4. arch'[t] = Succ(wbs.pc)
      BY <3>1, ThreadStep DEF Is
    <3>5. pc[t] = Succ(wbs.pc)
      BY <3>1, <3>2 DEF Chain, FetchPC, IdPC, ExPC, MemPC, Behind, Resolved, Holds, Is
    <3>. QED
      BY <3>3, <3>4, <3>5
  <2>. QED
    BY <2>1, <2>2
<1>. QED
  BY <1>2, <1>3, ChainPrime DEF At, Resolved, Behind

\* Otherwise write-back and memory move on.
LEMMA OldMove ==
  ASSUME PipeInv, ~ mem.miss, ~ ex.miss, PipeClock, NEW t \in Threads,
         Chain(t), ~ Created(t), ~ (squash /\ wbs.t = t)
  PROVE  /\ At(wbs', t, arch'[t])
         /\ Resolved(wbs', t, arch'[t]) = ExPC(t)
<1>1. ~ FlushOld(t)
  BY DEF FlushOld
<1>2. arch'[t] = MemPC(t)
  <2>1. Holds(wbs, t) => ~ wbs.miss
    BY DEF Holds, squash, d_miss
  <2>. QED
    BY <2>1, ThreadStep DEF MemPC, Resolved, Holds
<1>3. /\ Holds(wbs', t) <=> Holds(mem, t)
      /\ Holds(wbs', t) => wbs'.pc = mem.pc
  BY <1>1, ThreadStep
<1>. QED
  BY <1>2, <1>3 DEF Chain, At, ExPC, Resolved, Ins

\* A stall: execute and decode stay, and decode is fetched again.
LEMMA StallCase ==
  ASSUME PipeInv, ~ mem.miss, ~ ex.miss, PipeClock, NEW t \in Threads,
         Chain(t), ~ Hazard(t), ~ Created(t),
         ~ (squash /\ wbs.t = t), stall
  PROVE  Chain(t)'
<1>1. ~ squash /\ ~ jmp /\ ~ d_miss
  BY DEF stall, squash
<1>2. ex' = ex
  BY <1>1, ThreadStep DEF FlushYoung
<1>3. ~ Holds(mem', t)
  BY ThreadStep
<1>4. cur_trd = id.t /\ i_addr = id.pc
  BY ThreadStep DEF cur_trd, CurTrd, hold, i_addr
<1>5. pc'[t] = IF i_miss /\ t = id.t THEN id.pc ELSE pc[t]
  BY <1>1, ThreadStep DEF NextPC
<1>6. At(id', t, IdPC(t)) /\ pc'[t] = Behind(id', t, IdPC(t))
  <2>1. CASE id.t # t
    BY <1>4, <1>5, <2>1, ThreadStep DEF Chain, At, FetchPC, Behind, Holds
  <2>2. CASE id.t = t /\ ~ id.real
    <3>1. ~ Holds(id', t) /\ ~ i_miss
      BY <1>4, <2>2, ThreadStep DEF Hazard, Replayed, i_miss
    <3>. QED
      BY <1>5, <2>2, <3>1 DEF Chain, At, FetchPC, Behind, Holds
  <2>3. CASE id.t = t /\ id.real /\ id.miss
    <3>1. i_miss /\ ~ Holds(id', t)
      BY <2>3, MissNotFetched, ThreadStep DEF i_miss
    <3>. QED
      BY <1>5, <2>3, <3>1 DEF Chain, At, Behind, Holds
  <2>4. CASE id.t = t /\ id.real /\ ~ id.miss
    <3>1. i_rd /\ ~ i_miss
      BY <2>4 DEF Hazard, LostOnHold, i_miss
    <3>2. Holds(id', t) /\ id'.pc = id.pc
      BY <1>4, <2>4, <3>1, ThreadStep
    <3>. QED
      BY <1>5, <2>4, <3>1, <3>2 DEF Chain, At, FetchPC, Behind, Holds
  <2>. QED
    BY <2>1, <2>2, <2>3, <2>4
<1>7. /\ At(wbs', t, arch'[t])
      /\ Resolved(wbs', t, arch'[t]) = ExPC(t)
  BY OldMove
<1>8. /\ At(mem', t, ExPC(t)) /\ Resolved(mem', t, ExPC(t)) = ExPC(t)
      /\ At(ex', t, ExPC(t)) /\ Behind(ex', t, ExPC(t)) = IdPC(t)
  BY <1>2, <1>3 DEF Chain, At, Resolved, IdPC
<1>. QED
  BY <1>6, <1>7, <1>8, ChainPrime

\* A taken jump of t: what is behind it is cleared.
LEMMA JumpCase ==
  ASSUME PipeInv, ~ mem.miss, ~ ex.miss, PipeClock, NEW t \in Threads,
         Chain(t), ~ Hazard(t), ~ Created(t),
         ~ (squash /\ wbs.t = t), jmp, ex.t = t
  PROVE  Chain(t)'
<1>1. ~ stall /\ ~ FlushOld(t) /\ ~ (d_miss /\ wbs.t = t)
  BY DEF stall, FlushOld, squash
<1>2. ~ Holds(id', t) /\ ~ Holds(ex', t)
  <2>1. CASE squash
    BY <1>1, <2>1, ThreadStep DEF Hazard, LostFlush, Holds
  <2>2. CASE ~ squash
    <3>1. FlushYoung(t)
      BY <2>2 DEF FlushYoung
    <3>. QED
      BY <1>1, <3>1, FlushNotFetched, ThreadStep
  <2>. QED
    BY <2>1, <2>2
<1>3. pc'[t] = Ins(ex).tgt
  BY <1>1, ThreadStep DEF NextPC, Hazard, LostJump
<1>4. Holds(mem', t) /\ mem'.pc = ex.pc /\ Holds(ex, t) /\ Ins(ex).op = "jmp"
  BY <1>1, ThreadStep DEF Holds, jmp, Is
<1>5. Ins(mem') = Ins(ex)
  BY <1>4 DEF Ins
<1>6. At(mem', t, ExPC(t)) /\ Resolved(mem', t, ExPC(t)) = Ins(ex).tgt
  BY <1>4, <1>5 DEF Chain, At, Resolved
<1>7. /\ At(wbs', t, arch'[t])
      /\ Resolved(wbs', t, arch'[t]) = ExPC(t)
  BY OldMove
<1>. QED
  BY <1>2, <1>3, <1>6, <1>7, ChainPrime DEF At, Behind

\* Nothing happens to t but that the pipeline moves on.
LEMMA MoveCase ==
  ASSUME PipeInv, ~ mem.miss, ~ ex.miss, PipeClock, NEW t \in Threads,
         Chain(t), ~ Created(t),
         ~ (squash /\ wbs.t = t), ~ stall, ~ (jmp /\ ex.t = t)
  PROVE  Chain(t)'
<1>1. ~ FlushYoung(t) /\ ~ FlushOld(t) /\ ~ (d_miss /\ wbs.t = t)
  BY DEF FlushYoung, FlushOld, squash
<1>2. /\ Holds(mem', t) <=> Holds(ex, t)
      /\ Holds(mem', t) => mem'.pc = ex.pc
      /\ Holds(ex, t) => Ins(ex).op # "jmp"
  BY <1>1, ThreadStep DEF jmp, Is, Holds
<1>3. At(mem', t, ExPC(t)) /\ Resolved(mem', t, ExPC(t)) = IdPC(t)
  BY <1>2 DEF Chain, At, Resolved, IdPC, Behind, Ins
<1>4. /\ At(ex', t, IdPC(t))
      /\ At(id', t, Behind(ex', t, IdPC(t)))
      /\ pc'[t] = Behind(id', t, Behind(ex', t, IdPC(t)))
  <2>1. CASE Holds(id, t) /\ id.miss
    <3>1. i_miss /\ t = id.t
      BY <2>1 DEF i_miss, Holds
    <3>2. pc'[t] = id.pc
      BY <1>1, <3>1, ThreadStep DEF NextPC
    <3>3. ~ Holds(ex', t) /\ ~ Holds(id', t)
      BY <2>1, <3>1, MissNotFetched, ThreadStep
    <3>. QED
      BY <2>1, <3>2, <3>3 DEF Chain, At, Behind
  <2>2. CASE ~ (Holds(id, t) /\ id.miss)
    <3>1. ~ (i_miss /\ t = id.t)
      BY <2>2 DEF i_miss, Holds
    <3>2. pc'[t] = IF i_rd /\ t = cur_trd THEN Succ(i_addr) ELSE pc[t]
      BY <1>1, <3>1, ThreadStep DEF NextPC
    <3>3. At(ex', t, IdPC(t)) /\ Behind(ex', t, IdPC(t)) = pc[t]
      BY <1>1, <2>2, ThreadStep DEF Chain, At, FetchPC, Behind
    <3>4. i_addr = pc[cur_trd]
      BY DEF i_addr
    <3>. QED
      BY <3>2, <3>3, <3>4, ThreadStep DEF At, Behind
  <2>. QED
    BY <2>1, <2>2
<1>5. /\ At(wbs', t, arch'[t])
      /\ Resolved(wbs', t, arch'[t]) = ExPC(t)
  BY OldMove
<1>. QED
  BY <1>3, <1>4, <1>5, ChainPrime

-----------------------------------------------------------------------------

\* OrderInv is inductive.
LEMMA OrderStep ==
  ASSUME PipeInv, OrderInv, [PipeNext]_pipeVars
  PROVE  OrderInv'
<1>1. CASE PipeClock
  <2>. USE <1>1
  <2>1. ~ ex.miss /\ ~ mem.miss
    BY DEF OrderInv
  <2>2. ~ ex'.miss /\ ~ mem'.miss
    BY <2>1 DEF PipeClock, Decode, Execute, NoIns
  <2>3. ASSUME NEW t \in Threads, t \notin tainted'
        PROVE  Chain(t)'
    <3>1. ~ Hazard(t) /\ (t \in tainted => Created(t))
      BY <2>3 DEF PipeClock, Commit
    <3>2. CASE Created(t)
      BY <2>1, <3>1, <3>2, CreatedCase DEF Hazard
    <3>3. CASE ~ Created(t)
      <4>1. Chain(t)
        BY <3>1, <3>3 DEF OrderInv
      <4>2. CASE squash /\ wbs.t = t
        BY <2>1, <3>1, <3>3, <4>1, <4>2, SquashCase
      <4>3. CASE ~ (squash /\ wbs.t = t) /\ stall
        BY <2>1, <3>1, <3>3, <4>1, <4>3, StallCase
      <4>4. CASE ~ (squash /\ wbs.t = t) /\ jmp /\ ex.t = t
        BY <2>1, <3>1, <3>3, <4>1, <4>4, JumpCase
      <4>5. CASE ~ (squash /\ wbs.t = t) /\ ~ stall /\ ~ (jmp /\ ex.t = t)
        BY <2>1, <3>3, <4>1, <4>5, MoveCase
      <4>. QED
        BY <4>2, <4>3, <4>4, <4>5
    <3>. QED
      BY <3>2, <3>3
  <2>. QED
    BY <2>2, <2>3 DEF OrderInv
<1>2. CASE PipeReset
  BY <1>2 DEF PipeReset, OrderInv, Chain, At, Holds, Resolved, Behind, MemPC, ExPC,
              IdPC, FetchPC, NoIns
<1>3. CASE UNCHANGED pipeVars
  BY <1>3 DEF pipeVars, vars, stages, OrderInv, Chain, At, Holds, Resolved, Behind,
              MemPC, ExPC, IdPC, FetchPC, Ins
<1>. QED
  BY <1>1, <1>2, <1>3 DEF PipeNext

LEMMA OrderCorrect == PipeSpec => []OrderInv
<1>1. PipeInit => OrderInv
  BY DEF PipeInit, OrderInv, Chain, At, Holds, Resolved, Behind, MemPC, ExPC, IdPC,
         FetchPC, NoIns
<1>2. PipeInv /\ OrderInv /\ [PipeNext]_pipeVars => OrderInv'
  BY OrderStep
<1>. QED
  BY <1>1, <1>2, PipeInvariant, PTL DEF PipeSpec

\* Every thread that none of the listed hazards has hit is executed in program
\* order: the list of hazards is complete, for every program and any number of
\* threads, and however the memory answers.
THEOREM ProgramOrderCorrect == PipeSpec => []ProgramOrder
<1>1. OrderInv => ProgramOrder
  BY DEF OrderInv, ProgramOrder, InOrder, Chain, At, Holds
<1>. QED
  BY <1>1, OrderCorrect, PTL

\* And when nothing of such a thread is in flight, its PC register is the
\* address at which it must go on.
THEOREM PreciseResumeCorrect == PipeSpec => []PreciseResume
<1>1. OrderInv => PreciseResume
  BY DEF OrderInv, PreciseResume, Chain, Holds, FetchPC, IdPC, ExPC, MemPC, Behind,
         Resolved
<1>. QED
  BY <1>1, OrderCorrect, PTL
=============================================================================
