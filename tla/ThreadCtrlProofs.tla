-------------------------- MODULE ThreadCtrlProofs --------------------------
(***************************************************************************)
(* Theorems about ThreadCtrl, for every number of threads, every period of *)
(* the delay counter and every set of commands.                            *)
(***************************************************************************)
EXTENDS ThreadCtrl, TLAPS

\* What a clock edge does to the scheduler's registers, whatever the command
\* was: thread_ctrl's always_ff blocks do not look at it.
LEMMA EdgeParts ==
  ASSUME TypeOK, Clock
  PROVE  \E hold \in BOOLEAN, miss \in SUBSET Threads :
           /\ PointThread(hold, miss)
           /\ MissWait(miss)
           /\ Boot \/ NewThread \/ Sleep \/ Wake \/ Kill \/ NoCommand
           /\ rst_init' = FALSE
           /\ wb' \in Commands
<1>1. PICK hold \in BOOLEAN, miss \in Misses :
        Edge(hold, miss) /\ wb' \in IF rst_init THEN {Bubble} ELSE Commands
  BY DEF Clock
<1>2. miss \in SUBSET Threads
  BY DEF Misses
<1>3. wb' \in Commands
  BY <1>1, ConstantsAssumption
<1>. QED
  BY <1>1, <1>2, <1>3 DEF Edge

\* Create keeps the types of the thread table.
LEMMA CreateTypes ==
  ASSUME TypeOK, NEW act \in Threads, Create(act)
  PROVE  /\ valid_trd' \subseteq Threads
         /\ on_trd' \subseteq Threads
         /\ par_trd' \in [Threads -> Threads]
         /\ owner' \in [Threads -> Threads \cup {NoOwner}]
BY DEF TypeOK, Create, Orphaned

\* Every command keeps the types of the thread table.
LEMMA TableTypes ==
  ASSUME TypeOK, Boot \/ NewThread \/ Sleep \/ Wake \/ Kill \/ NoCommand
  PROVE  /\ valid_trd' \subseteq Threads
         /\ on_trd' \subseteq Threads
         /\ par_trd' \in [Threads -> Threads]
         /\ owner' \in [Threads -> Threads \cup {NoOwner}]
<1>1. wb \in Command
  BY ConstantsAssumption DEF TypeOK
<1>2. wb.act \in Threads /\ wb.obj \in Threads
  BY <1>1 DEF Command
<1>3. CASE Boot
  BY <1>2, <1>3, CreateTypes DEF Boot
<1>4. CASE NewThread
  BY <1>2, <1>4, CreateTypes DEF NewThread
<1>5. CASE Sleep
  BY <1>2, <1>5 DEF Sleep, TypeOK
<1>6. CASE Wake
  BY <1>2, <1>6 DEF Wake, TypeOK
<1>7. CASE Kill
  BY <1>2, <1>7 DEF Kill, TypeOK, Orphaned
<1>8. CASE NoCommand
  BY <1>8 DEF NoCommand, table, TypeOK
<1>. QED
  BY <1>3, <1>4, <1>5, <1>6, <1>7, <1>8

\* The thread pointer, the delay counter and the waits keep their types.
LEMMA SchedTypes ==
  ASSUME TypeOK, NEW hold \in BOOLEAN, NEW miss \in SUBSET Threads,
         PointThread(hold, miss), MissWait(miss)
  PROVE  /\ last_trd' \in Threads
         /\ cur_trd_tmp' \in Threads
         /\ delay_count' \in 0 .. DelayPeriod - 1
         /\ wait_trd' \subseteq Threads
         /\ starved' \in [Threads -> Nat]
<1>1. last_trd' \in Threads /\ cur_trd_tmp' \in Threads
  BY DEF TypeOK, PointThread, CurTrd
<1>2. delay_count' \in 0 .. DelayPeriod - 1 /\ wait_trd' \subseteq Threads
  BY ConstantsAssumption DEF TypeOK, MissWait
<1>3. starved' \in [Threads -> Nat]
  BY DEF TypeOK, PointThread, Starve
<1>. QED
  BY <1>1, <1>2, <1>3

LEMMA InitTypes == Init => TypeOK
BY ConstantsAssumption DEF Init, TypeOK, Threads

LEMMA ResetTypes == Reset => TypeOK'
BY ConstantsAssumption DEF Reset, TypeOK, Threads

LEMMA NextTypes == TypeOK /\ [Next]_vars => TypeOK'
<1>. SUFFICES ASSUME TypeOK, [Next]_vars PROVE TypeOK'
  OBVIOUS
<1>1. CASE Clock
  <2>1. PICK hold \in BOOLEAN, miss \in SUBSET Threads :
          /\ PointThread(hold, miss)
          /\ MissWait(miss)
          /\ Boot \/ NewThread \/ Sleep \/ Wake \/ Kill \/ NoCommand
          /\ rst_init' = FALSE
          /\ wb' \in Commands
    BY <1>1, EdgeParts
  <2>. QED
    BY <2>1, TableTypes, SchedTypes DEF TypeOK
<1>2. CASE Reset
  BY <1>2, ResetTypes
<1>3. CASE UNCHANGED vars
  BY <1>3 DEF vars, TypeOK
<1>. QED
  BY <1>1, <1>2, <1>3 DEF Next

\* The registers and the histories always hold values of their types.
THEOREM TypeCorrect == Spec => []TypeOK
<1>. QED
  BY InitTypes, NextTypes, PTL DEF Spec

-----------------------------------------------------------------------------

\* Whatever commands come, only threads that exist run: RunningIsValid is
\* inductive by itself, each command by its own guard.
THEOREM RunningCorrect == Spec => []RunningIsValid
<1>1. Init => RunningIsValid
  BY DEF Init, RunningIsValid
<1>2. RunningIsValid /\ TypeOK /\ [Next]_vars => RunningIsValid'
  <2>. SUFFICES ASSUME RunningIsValid, TypeOK, [Next]_vars PROVE RunningIsValid'
    OBVIOUS
  <2>. USE DEF RunningIsValid
  <2>1. CASE Clock
    <3>1. Boot \/ NewThread \/ Sleep \/ Wake \/ Kill \/ NoCommand
      BY <2>1, EdgeParts
    <3>2. CASE Boot
      BY <3>2 DEF Boot, Create
    <3>3. CASE NewThread
      BY <3>3 DEF NewThread, Create
    <3>4. CASE Sleep
      BY <3>4 DEF Sleep
    <3>5. CASE Wake
      BY <3>5 DEF Wake
    <3>6. CASE Kill
      BY <3>6 DEF Kill
    <3>7. CASE NoCommand
      BY <3>7 DEF NoCommand, table
    <3>. QED
      BY <3>1, <3>2, <3>3, <3>4, <3>5, <3>6, <3>7
  <2>2. CASE Reset
    BY <2>2 DEF Reset
  <2>3. CASE UNCHANGED vars
    BY <2>3 DEF vars
  <2>. QED
    BY <2>1, <2>2, <2>3 DEF Next
<1>. QED
  BY <1>1, <1>2, TypeCorrect, PTL DEF Spec

-----------------------------------------------------------------------------

\* Going round, t lies between 0 and N - 1 slots ahead of c.
LEMMA GapRange ==
  ASSUME NEW c \in Threads, NEW t \in Threads
  PROVE  Gap(c, t) \in 0 .. N - 1 /\ (c # t => Gap(c, t) >= 1)
BY ConstantsAssumption DEF Gap, Dist, Threads

\* A step of the round robin past a runnable thread t is impossible: the
\* pointer ends at least one slot closer to t.
LEMMA StepCloser ==
  ASSUME NEW cur \in Threads, NEW run \in SUBSET Threads,
         NEW t \in run, t # cur,
         NEW nxt \in Threads, IsNxtTrd(cur, run, nxt)
  PROVE  Gap(nxt, t) <= Gap(cur, t) - 1
<1>1. nxt # cur /\ Dist(cur, nxt) <= Dist(cur, t)
  BY DEF IsNxtTrd
<1>. QED
  BY <1>1, ConstantsAssumption DEF Gap, Dist, Threads

\* The inductive step of the starvation bound, for one clock edge.
LEMMA EdgeStarvation ==
  ASSUME TypeOK, TypeOK', StarvationInv,
         NEW hold \in BOOLEAN, NEW miss \in SUBSET Threads,
         PointThread(hold, miss), MissWait(miss)
  PROVE  StarvationInv'
<1>. DEFINE cur == CurTrd(hold)
<1>. USE ConstantsAssumption
<1>1. cur \in Threads
  BY DEF TypeOK, CurTrd
<1>2. /\ last_trd' = cur
      /\ cur_trd_tmp' \in Threads
      /\ IsNxtTrd(cur, RunTrd(miss), cur_trd_tmp')
  BY DEF PointThread
<1>3. delay_count' = 1 => wait_trd' = {}
  BY DEF TypeOK, MissWait
<1>4. ASSUME NEW t \in Threads
      PROVE  starved'[t] =
               IF t \notin on_trd \/ t \in miss \/ (t = cur /\ t \in RunTrd(miss)) THEN 0
               ELSE IF hold THEN starved[t] ELSE starved[t] + 1
  BY DEF PointThread, Starve
<1>5. ASSUME NEW t \in Threads, t \in RunTrd(miss), t # cur
      PROVE  /\ starved'[t] + Gap(cur_trd_tmp', t) <= DelayPeriod + N - 2
             /\ starved'[t] + Gap(cur, t) <= DelayPeriod + N - 1
  <2>1. t \in on_trd \ wait_trd /\ t \notin miss
    BY <1>5 DEF RunTrd
  <2>2. starved'[t] = IF hold THEN starved[t] ELSE starved[t] + 1
    BY <1>4, <1>5, <2>1
  <2>3. Gap(cur_trd_tmp', t) <= Gap(cur, t) - 1
    BY <1>1, <1>2, <1>5, StepCloser DEF RunTrd, TypeOK
  <2>4. /\ Gap(cur, t) \in Int
        /\ Gap(cur_trd_tmp', t) \in Int
        /\ starved[t] \in Nat
    BY <1>1, <1>2, GapRange DEF TypeOK
  <2>5. CASE hold
    <3>1. cur = last_trd /\ last_trd # t
      BY <1>5, <2>5 DEF CurTrd
    <3>2. starved[t] + Gap(cur, t) <= DelayPeriod + N - 1
      BY <2>1, <3>1 DEF StarvationInv
    <3>3. starved'[t] = starved[t]
      BY <2>2, <2>5
    <3>. QED
      BY <2>3, <2>4, <3>2, <3>3
  <2>6. CASE ~ hold
    <3>1. cur = cur_trd_tmp
      BY <2>6 DEF CurTrd
    <3>2. starved[t] + Gap(cur, t) <= DelayPeriod + N - 2
      BY <2>1, <3>1 DEF StarvationInv
    <3>. QED
      BY <2>2, <2>3, <2>4, <2>6, <3>2
  <2>. QED
    BY <2>5, <2>6
<1>6. ASSUME NEW t \in Threads, t \in wait_trd
      PROVE  starved'[t] <= IF delay_count = 0 THEN DelayPeriod - 1 ELSE delay_count - 1
  <2>1. delay_count # 1 /\ delay_count \in 0 .. DelayPeriod - 1 /\ starved[t] \in Nat
    BY <1>6 DEF StarvationInv, TypeOK
  <2>2. starved[t] <= IF delay_count = 0 THEN DelayPeriod - 2 ELSE delay_count - 2
    BY <1>6 DEF StarvationInv
  <2>. QED
    BY <1>4, <2>1, <2>2
<1>7. ASSUME NEW t \in Threads, t \notin RunTrd(miss), t \notin wait_trd
      PROVE  starved'[t] = 0
  BY <1>4, <1>7 DEF RunTrd
<1>8. BoundedStarvation'
  <2>. SUFFICES ASSUME NEW t \in Threads
                PROVE  starved'[t] <= DelayPeriod + N - 2
    BY DEF BoundedStarvation
  <2>1. CASE t \in wait_trd
    BY <1>6, <2>1 DEF TypeOK
  <2>2. CASE t \notin RunTrd(miss) /\ t \notin wait_trd
    BY <1>7, <2>2
  <2>3. CASE t \in RunTrd(miss) /\ t # cur
    <3>1. Gap(cur_trd_tmp', t) \in Nat
      BY <1>2, GapRange
    <3>. QED
      BY <1>5, <2>3, <3>1 DEF TypeOK
  <2>4. CASE t \in RunTrd(miss) /\ t = cur
    BY <1>4, <2>4
  <2>. QED
    BY <2>1, <2>2, <2>3, <2>4
<1>9. ASSUME NEW t \in wait_trd'
      PROVE  starved'[t] <= IF delay_count' = 0 THEN DelayPeriod - 2 ELSE delay_count' - 2
  <2>1. t \in Threads /\ delay_count # 0 /\ t \in wait_trd \cup miss
    BY <1>9 DEF MissWait, TypeOK
  <2>2. delay_count' = IF delay_count = DelayPeriod - 1 THEN 0 ELSE delay_count + 1
    BY DEF MissWait
  <2>3. delay_count \in 0 .. DelayPeriod - 1
    BY DEF TypeOK
  <2>4. CASE t \in miss
    <3>1. starved'[t] = 0
      BY <1>4, <2>1, <2>4
    <3>. QED
      BY <2>1, <2>2, <2>3, <3>1
  <2>5. CASE t \in wait_trd
    <3>1. starved'[t] <= delay_count - 1
      BY <1>6, <2>1, <2>5
    <3>. QED
      BY <2>1, <2>2, <2>3, <3>1 DEF TypeOK
  <2>. QED
    BY <2>1, <2>4, <2>5
<1>10. ASSUME NEW t \in on_trd' \ wait_trd'
       PROVE  /\ starved'[t] + Gap(cur_trd_tmp', t) <= DelayPeriod + N - 2
              /\ cur # t => starved'[t] + Gap(cur, t) <= DelayPeriod + N - 1
  <2>1. t \in Threads
    BY <1>10 DEF TypeOK
  <2>2. Gap(cur_trd_tmp', t) \in 0 .. N - 1 /\ Gap(cur, t) \in 0 .. N - 1
    BY <1>1, <1>2, <2>1, GapRange
  <2>3. CASE t \in wait_trd
    <3>1. delay_count = 0
      BY <1>10, <2>3 DEF MissWait
    <3>2. starved'[t] <= DelayPeriod - 1 /\ starved'[t] \in Nat
      BY <1>6, <2>1, <2>3, <3>1 DEF TypeOK
    <3>. QED
      BY <2>2, <3>2
  <2>4. CASE t \notin RunTrd(miss) /\ t \notin wait_trd
    <3>1. starved'[t] = 0
      BY <1>7, <2>1, <2>4
    <3>. QED
      BY <2>2, <3>1
  <2>5. CASE t \in RunTrd(miss) /\ t # cur
    BY <1>5, <2>1, <2>5
  <2>6. CASE t \in RunTrd(miss) /\ t = cur
    <3>1. starved'[t] = 0
      BY <1>4, <2>1, <2>6
    <3>. QED
      BY <2>2, <2>6, <3>1
  <2>. QED
    BY <2>3, <2>4, <2>5, <2>6
<1>. QED
  BY <1>2, <1>3, <1>8, <1>9, <1>10 DEF StarvationInv

LEMMA ZeroStarvation ==
  ASSUME last_trd = 0, cur_trd_tmp = 0, delay_count = 0, wait_trd = {}, on_trd = {},
         starved = [t \in Threads |-> 0]
  PROVE  StarvationInv
BY ConstantsAssumption DEF StarvationInv, BoundedStarvation

\* A thread that is awake and does not miss again is fetched before
\* DelayPeriod + N - 1 un-held clocks have passed, for every number of threads
\* and every delay period.
THEOREM StarvationCorrect == Spec => []BoundedStarvation
<1>1. Init => StarvationInv
  BY ZeroStarvation DEF Init
<1>2. StarvationInv /\ TypeOK /\ TypeOK' /\ [Next]_vars => StarvationInv'
  <2>. SUFFICES ASSUME StarvationInv, TypeOK, TypeOK', [Next]_vars PROVE StarvationInv'
    OBVIOUS
  <2>1. CASE Clock
    <3>1. PICK hold \in BOOLEAN, miss \in SUBSET Threads :
            PointThread(hold, miss) /\ MissWait(miss)
      BY <2>1, EdgeParts
    <3>. QED
      BY <3>1, EdgeStarvation
  <2>2. CASE Reset
    BY <2>2, ConstantsAssumption DEF Reset, StarvationInv, BoundedStarvation
  <2>3. CASE UNCHANGED vars
    BY <2>3 DEF vars, StarvationInv, BoundedStarvation, Gap, Dist
  <2>. QED
    BY <2>1, <2>2, <2>3 DEF Next
<1>3. StarvationInv => BoundedStarvation
  BY DEF StarvationInv
<1>. QED
  BY <1>1, <1>2, <1>3, TypeCorrect, PTL DEF Spec

=============================================================================
