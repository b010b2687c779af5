-------------------------- MODULE ThreadTableProofs --------------------------
(***************************************************************************)
(* Theorems about the thread table of disciplined programs, for every      *)
(* number of threads: the live threads form a tree rooted in slot 0, the   *)
(* parent registers tell the truth, and the table implements               *)
(* ThreadLifecycle.                                                        *)
(***************************************************************************)
EXTENDS ThreadCtrlProofs

DisciplinedNext == (Clock /\ Disciplined') \/ Reset

\* Everything that holds of Spec holds of its disciplined behaviours.
LEMMA DisciplinedRefines == DisciplinedSpec => Spec
<1>1. [(Clock /\ Disciplined') \/ Reset]_vars => [Next]_vars
  BY DEF Next
<1>. QED
  BY <1>1, PTL DEF DisciplinedSpec, Spec

\* The slot a thread is created in was free, unless all are taken.
LEMMA FreshSlot ==
  ASSUME TypeOK, ~ trd_full, NEW t \in Threads, IsNewTrd(t)
  PROVE  t \notin valid_trd
BY DEF IsNewTrd

\* The first thread gets slot 0.
LEMMA RootSlot ==
  ASSUME valid_trd = {}, NEW t \in Threads, IsNewTrd(t)
  PROVE  t = 0
<1>1. 0 \in Threads /\ Threads \subseteq Nat /\ Threads # {}
  BY ConstantsAssumption DEF Threads
<1>2. \A u \in Threads : t <= u
  BY <1>1 DEF IsNewTrd, trd_full
<1>. QED
  BY <1>1, <1>2

-----------------------------------------------------------------------------
(* The forest. *)

ForestParts == ParentIsCreator /\ Rooted /\ \A t \in Threads \ valid_trd : owner[t] = NoOwner

\* Creating a thread in a free slot for a live thread keeps the forest.
LEMMA CreateForest ==
  ASSUME TypeOK, ForestParts, NEW act \in Threads,
         NEW t \in Threads, t \notin valid_trd,
         act \in valid_trd \/ (valid_trd = {} /\ t = 0 /\ act = 0),
         valid_trd' = valid_trd \cup {t},
         par_trd' = [par_trd EXCEPT ![t] = act],
         owner' = [Orphaned(t, owner) EXCEPT ![t] = act]
  PROVE  ForestParts'
<1>. USE DEF ForestParts
<1>1. \A u \in Threads \ {t} : par_trd'[u] = par_trd[u]
  BY DEF TypeOK
<1>2. par_trd'[t] = act /\ owner'[t] = act
  BY DEF TypeOK, Orphaned
<1>3. \A u \in valid_trd : owner[u] # t
  BY DEF ParentIsCreator
<1>4. NoOwner \notin Threads
  BY DEF NoOwner, Threads
<1>5. \A u \in Threads \ {t} : owner'[u] = owner[u]
  BY <1>3, <1>4 DEF TypeOK, Orphaned
<1>6. act \in valid_trd'
  OBVIOUS
<1>7. ParentIsCreator'
  BY <1>1, <1>2, <1>5, <1>6 DEF ParentIsCreator, TypeOK
<1>8. Rooted'
  <2>. SUFFICES ASSUME NEW S \in SUBSET valid_trd', S # {},
                       \A u \in S : par_trd'[u] \in S
                PROVE  0 \in S
    BY DEF Rooted
  <2>1. CASE t \notin S
    <3>1. S \in SUBSET valid_trd /\ \A u \in S : par_trd[u] \in S
      BY <2>1, <1>1 DEF TypeOK
    <3>. QED
      BY <3>1 DEF Rooted
  <2>2. CASE t \in S /\ valid_trd = {}
    BY <2>2
  <2>3. CASE t \in S /\ act \in valid_trd
    <3>. DEFINE R == S \ {t}
    <3>1. R \in SUBSET valid_trd /\ act \in R
      BY <1>2, <2>3
    <3>2. \A u \in R : par_trd[u] \in R
      BY <1>1, <3>1 DEF ParentIsCreator, TypeOK
    <3>3. 0 \in R
      BY <3>1, <3>2 DEF Rooted
    <3>. QED
      BY <3>3
  <2>. QED
    BY <2>1, <2>2, <2>3
<1>9. \A u \in Threads \ valid_trd' : owner'[u] = NoOwner
  BY <1>5 DEF TypeOK
<1>. QED
  BY <1>7, <1>8, <1>9

\* Ending a thread without children keeps the forest.
LEMMA KillForest ==
  ASSUME TypeOK, ForestParts, NEW t \in valid_trd,
         \A u \in valid_trd \ {t} : par_trd[u] # t,
         valid_trd' = valid_trd \ {t},
         UNCHANGED par_trd,
         owner' = [Orphaned(t, owner) EXCEPT ![t] = NoOwner]
  PROVE  ForestParts'
<1>. USE DEF ForestParts
<1>1. t \in Threads
  BY DEF TypeOK
<1>2. owner'[t] = NoOwner
  BY <1>1 DEF TypeOK, Orphaned
<1>3. \A u \in valid_trd \ {t} : owner'[u] = owner[u]
  BY DEF TypeOK, Orphaned, ParentIsCreator
<1>4. ParentIsCreator'
  <2>. SUFFICES ASSUME NEW u \in valid_trd \ {t}
                PROVE  par_trd[u] \in valid_trd \ {t} /\ owner'[u] = par_trd[u]
    BY DEF ParentIsCreator
  <2>. QED
    BY <1>3 DEF ParentIsCreator
<1>5. Rooted'
  BY DEF Rooted
<1>6. \A u \in Threads \ valid_trd' : owner'[u] = NoOwner
  <2>. SUFFICES ASSUME NEW u \in Threads \ valid_trd, u # t
                PROVE  owner'[u] = NoOwner
    BY <1>2
  <2>. QED
    BY DEF TypeOK, Orphaned
<1>. QED
  BY <1>4, <1>5, <1>6

\* What a disciplined command does to the table, action by action.
LEMMA CommandForest ==
  ASSUME TypeOK, RunningIsValid, ForestInv,
         Boot \/ NewThread \/ Sleep \/ Wake \/ Kill \/ NoCommand
  PROVE  ForestParts'
<1>1. wb.act \in Threads /\ wb.obj \in Threads
  BY ConstantsAssumption DEF TypeOK, Command
<1>2. ForestParts
  BY DEF ForestInv, ForestParts
<1>3. CASE Boot
  <2>1. valid_trd = {} /\ wb.act = 0
    BY <1>3 DEF Boot, ForestInv, Bubble
  <2>2. PICK t \in Threads :
          /\ IsNewTrd(t)
          /\ valid_trd' = valid_trd \cup {t}
          /\ par_trd' = [par_trd EXCEPT ![t] = wb.act]
          /\ owner' = [Orphaned(t, owner) EXCEPT ![t] = wb.act]
    BY <1>3 DEF Boot, Create
  <2>. QED
    BY <1>1, <1>2, <2>1, <2>2, RootSlot, CreateForest
<1>4. CASE NewThread
  <2>1. ~ trd_full /\ wb.act \in valid_trd
    BY <1>4 DEF NewThread, ForestInv, Disciplined, SlotLeft, FromRunning, RunningIsValid
  <2>2. PICK t \in Threads :
          /\ IsNewTrd(t)
          /\ valid_trd' = valid_trd \cup {t}
          /\ par_trd' = [par_trd EXCEPT ![t] = wb.act]
          /\ owner' = [Orphaned(t, owner) EXCEPT ![t] = wb.act]
    BY <1>4 DEF NewThread, Create
  <2>. QED
    BY <1>1, <1>2, <2>1, <2>2, FreshSlot, CreateForest
<1>5. CASE Kill
  <2>1. CASE wb.obj \in valid_trd /\ Permitted(wb.act, wb.obj)
    <3>1. \A u \in valid_trd \ {wb.obj} : par_trd[u] # wb.obj
      BY <1>5, <2>1 DEF Kill, ForestInv, Disciplined
    <3>. QED
      BY <1>2, <1>5, <2>1, <3>1, KillForest DEF Kill
  <2>2. CASE ~ (wb.obj \in valid_trd /\ Permitted(wb.act, wb.obj))
    BY <1>2, <1>5, <2>2 DEF Kill, ForestParts, ParentIsCreator, Rooted
  <2>. QED
    BY <2>1, <2>2
<1>6. CASE Sleep \/ Wake \/ NoCommand
  <2>1. UNCHANGED <<valid_trd, par_trd, owner>>
    BY <1>6 DEF Sleep, Wake, NoCommand, table
  <2>. QED
    BY <1>2, <2>1 DEF ForestParts, ParentIsCreator, Rooted
<1>. QED
  BY <1>3, <1>4, <1>5, <1>6

-----------------------------------------------------------------------------
(* The inductive invariant. *)

LEMMA EmptyForest ==
  ASSUME TypeOK, valid_trd = {}, wb = Bubble, owner = [t \in Threads |-> NoOwner]
  PROVE  ForestInv
<1>1. ParentIsCreator /\ Rooted
  BY DEF ParentIsCreator, Rooted
<1>2. Disciplined
  BY DEF Disciplined, SlotLeft, FromRunning, Bubble
<1>. QED
  BY <1>1, <1>2 DEF ForestInv

LEMMA ForestInductive ==
  ASSUME TypeOK, TypeOK', RunningIsValid, ForestInv, [DisciplinedNext]_vars
  PROVE  ForestInv'
<1>1. CASE Clock /\ Disciplined'
  <2>1. Boot \/ NewThread \/ Sleep \/ Wake \/ Kill \/ NoCommand
    BY <1>1, EdgeParts
  <2>2. ForestParts'
    BY <2>1, CommandForest
  <2>3. ~ rst_init'
    BY <1>1, EdgeParts
  <2>. QED
    BY <1>1, <2>2, <2>3 DEF ForestInv, ForestParts
<1>2. CASE Reset
  BY <1>2 DEF Reset, ForestInv, ParentIsCreator, Rooted, Disciplined, SlotLeft,
              FromRunning, Bubble
<1>3. CASE UNCHANGED vars
  BY <1>3 DEF vars, ForestInv, ParentIsCreator, Rooted, Disciplined, SlotLeft,
              FromRunning, Permitted, trd_full, Bubble
<1>. QED
  BY <1>1, <1>2, <1>3 DEF DisciplinedNext

LEMMA ForestCorrect == DisciplinedSpec => []ForestInv
<1>1. Init => ForestInv
  BY InitTypes, EmptyForest DEF Init
<1>2. TypeOK /\ TypeOK' /\ RunningIsValid /\ ForestInv /\ [DisciplinedNext]_vars => ForestInv'
  BY ForestInductive
<1>3. DisciplinedSpec => [](TypeOK /\ RunningIsValid)
  BY DisciplinedRefines, TypeCorrect, RunningCorrect, PTL
<1>. QED
  BY <1>1, <1>2, <1>3, PTL DEF DisciplinedSpec, DisciplinedNext

-----------------------------------------------------------------------------

\* A disciplined program never leaves a thread with a dead parent, or with a
\* parent register that names another thread than the one that created it.
THEOREM ParentCorrect == DisciplinedSpec => []ParentIsCreator
<1>1. ForestInv => ParentIsCreator
  BY DEF ForestInv
<1>. QED
  BY <1>1, ForestCorrect, PTL

\* As long as a disciplined program has a live thread, thread 0 is live: the
\* set of live threads is closed under par_trd, so it contains the root.
THEOREM RootCorrect == DisciplinedSpec => []RootOutlivesAll
<1>1. ForestInv => RootOutlivesAll
  BY DEF ForestInv, ParentIsCreator, Rooted, RootOutlivesAll
<1>. QED
  BY <1>1, ForestCorrect, PTL

\* In a disciplined program invalid_op is raised for every sleep or kill of a
\* live thread by a thread that is neither it nor its creator.
THEOREM InvalidOpCorrect == DisciplinedSpec => []InvalidOpSound
<1>1. ForestInv => InvalidOpSound
  <2>. SUFFICES ASSUME ForestInv, wb.op \in {"slp", "kill"}, wb.obj \in valid_trd,
                       wb.act \notin {wb.obj, owner[wb.obj]}
                PROVE  invalid_op
    BY DEF InvalidOpSound
  <2>1. owner[wb.obj] = par_trd[wb.obj]
    BY DEF ForestInv, ParentIsCreator
  <2>. QED
    BY <2>1 DEF invalid_op, Permitted
<1>. QED
  BY <1>1, ForestCorrect, PTL

-----------------------------------------------------------------------------
(* The refinement. *)

\* The abstract status of the table, as ThreadCtrl's INSTANCE substitutes it.
StatusOf(valid, on) ==
  [t \in Threads |-> IF t \notin valid THEN "free"
                     ELSE IF t \in on THEN "running" ELSE "sleeping"]

LEMMA CreateRefines ==
  ASSUME TypeOK, ForestInv, NEW act \in Threads, Create(act),
         ~ trd_full,
         act \in valid_trd \cap on_trd \/ (valid_trd = {} /\ act = 0)
  PROVE  Lifecycle!Start \/ \E t \in Threads : Lifecycle!Spawn(act, t)
<1>1. PICK t \in Threads :
        /\ IsNewTrd(t)
        /\ valid_trd' = valid_trd \cup {t}
        /\ on_trd' = on_trd \cup {t}
        /\ owner' = [Orphaned(t, owner) EXCEPT ![t] = act]
  BY DEF Create
<1>2. t \notin valid_trd
  BY <1>1, FreshSlot
<1>3. \A u \in Threads : owner[u] # t
  BY <1>2 DEF ForestInv, ParentIsCreator, TypeOK, NoOwner, Threads
<1>4. owner' = [owner EXCEPT ![t] = act]
  BY <1>1, <1>3 DEF Orphaned, TypeOK
<1>5. StatusOf(valid_trd', on_trd') = [StatusOf(valid_trd, on_trd) EXCEPT ![t] = "running"]
  BY <1>1 DEF StatusOf
<1>6. CASE act \in valid_trd \cap on_trd
  BY <1>2, <1>4, <1>5, <1>6 DEF Lifecycle!Spawn, StatusOf
<1>7. CASE valid_trd = {} /\ act = 0
  <2>1. t = 0
    BY <1>1, <1>7, RootSlot
  <2>. QED
    BY <1>4, <1>5, <1>7, <2>1 DEF Lifecycle!Start, Lifecycle!Live, StatusOf
<1>. QED
  BY <1>6, <1>7

LEMMA KillRefines ==
  ASSUME TypeOK, RunningIsValid, ForestInv, Kill
  PROVE  [Lifecycle!LifeNext]_(Lifecycle!lifeVars)
<1>1. wb.act \in Threads /\ wb.obj \in Threads
  BY ConstantsAssumption DEF TypeOK, Command
<1>2. CASE wb.obj \in valid_trd /\ Permitted(wb.act, wb.obj)
  <2>1. wb.act \in on_trd /\ wb.act \in valid_trd
    BY DEF Kill, ForestInv, Disciplined, SlotLeft, FromRunning, RunningIsValid
  <2>2. wb.act \in {wb.obj, owner[wb.obj]}
    BY <1>2 DEF ForestInv, ParentIsCreator, Permitted
  <2>3. \A u \in valid_trd \ {wb.obj} : owner[u] # wb.obj
    BY <1>2 DEF Kill, ForestInv, Disciplined, ParentIsCreator
  <2>4. \A u \in Threads \ {wb.obj} : owner[u] # wb.obj
    BY <1>1, <2>3 DEF ForestInv, NoOwner, Threads
  <2>5. owner' = [owner EXCEPT ![wb.obj] = NoOwner]
    BY <1>1, <1>2, <2>4 DEF Kill, Orphaned, TypeOK
  <2>6. StatusOf(valid_trd', on_trd') = [StatusOf(valid_trd, on_trd) EXCEPT ![wb.obj] = "free"]
    BY <1>1, <1>2 DEF Kill, StatusOf
  <2>7. Lifecycle!End(wb.act, wb.obj)
    BY <1>1, <1>2, <2>1, <2>2, <2>3, <2>5, <2>6
       DEF Lifecycle!End, Lifecycle!Owns, Lifecycle!Live, StatusOf
  <2>. QED
    BY <1>1, <2>7 DEF Lifecycle!LifeNext, Lifecycle!End
<1>3. CASE ~ (wb.obj \in valid_trd /\ Permitted(wb.act, wb.obj))
  BY <1>3 DEF Kill, Lifecycle!lifeVars
<1>. QED
  BY <1>2, <1>3

LEMMA SleepRefines ==
  ASSUME TypeOK, RunningIsValid, ForestInv, Sleep
  PROVE  [Lifecycle!LifeNext]_(Lifecycle!lifeVars)
<1>1. wb.act \in Threads /\ wb.obj \in Threads
  BY ConstantsAssumption DEF TypeOK, Command
<1>2. CASE wb.obj \in valid_trd /\ Permitted(wb.act, wb.obj)
  <2>1. wb.act \in on_trd /\ wb.act \in valid_trd
    BY DEF Sleep, ForestInv, Disciplined, SlotLeft, FromRunning, RunningIsValid
  <2>2. wb.act \in {wb.obj, owner[wb.obj]}
    BY <1>2 DEF ForestInv, ParentIsCreator, Permitted
  <2>3. StatusOf(valid_trd', on_trd') = [StatusOf(valid_trd, on_trd) EXCEPT ![wb.obj] = "sleeping"]
    BY <1>1, <1>2 DEF Sleep, StatusOf
  <2>4. Lifecycle!Suspend(wb.act, wb.obj)
    BY <1>1, <1>2, <2>1, <2>2, <2>3
       DEF Sleep, Lifecycle!Suspend, Lifecycle!Owns, Lifecycle!Live, StatusOf
  <2>. QED
    BY <1>1, <2>4 DEF Lifecycle!LifeNext, Lifecycle!Suspend
<1>3. CASE ~ (wb.obj \in valid_trd /\ Permitted(wb.act, wb.obj))
  <2>1. StatusOf(valid_trd', on_trd') = StatusOf(valid_trd, on_trd)
    BY <1>1, <1>3 DEF Sleep, StatusOf, RunningIsValid
  <2>. QED
    BY <2>1 DEF Sleep, Lifecycle!lifeVars, StatusOf
<1>. QED
  BY <1>2, <1>3

LEMMA WakeRefines ==
  ASSUME TypeOK, RunningIsValid, ForestInv, Wake
  PROVE  [Lifecycle!LifeNext]_(Lifecycle!lifeVars)
<1>1. wb.act \in Threads /\ wb.obj \in Threads
  BY ConstantsAssumption DEF TypeOK, Command
<1>2. CASE wb.obj \in valid_trd
  <2>1. wb.act \in on_trd /\ wb.act \in valid_trd
    BY DEF Wake, ForestInv, Disciplined, SlotLeft, FromRunning, RunningIsValid
  <2>2. StatusOf(valid_trd', on_trd') = [StatusOf(valid_trd, on_trd) EXCEPT ![wb.obj] = "running"]
    BY <1>1, <1>2 DEF Wake, StatusOf
  <2>3. Lifecycle!Resume(wb.act, wb.obj)
    BY <1>1, <1>2, <2>1, <2>2 DEF Wake, Lifecycle!Resume, Lifecycle!Live, StatusOf
  <2>. QED
    BY <1>1, <2>3 DEF Lifecycle!LifeNext, Lifecycle!Resume
<1>3. CASE wb.obj \notin valid_trd
  BY <1>3 DEF Wake, Lifecycle!lifeVars
<1>. QED
  BY <1>2, <1>3

LEMMA CommandRefines ==
  ASSUME TypeOK, RunningIsValid, ForestInv,
         Boot \/ NewThread \/ Sleep \/ Wake \/ Kill \/ NoCommand
  PROVE  [Lifecycle!LifeNext]_(Lifecycle!lifeVars)
<1>1. wb.act \in Threads
  BY ConstantsAssumption DEF TypeOK, Command
<1>2. CASE Boot
  <2>1. valid_trd = {} /\ wb.act = 0 /\ Create(wb.act)
    BY <1>2 DEF Boot, ForestInv, Bubble
  <2>2. ~ trd_full
    BY <1>1, <2>1 DEF trd_full
  <2>3. Lifecycle!Start \/ \E t \in Threads : Lifecycle!Spawn(wb.act, t)
    BY <1>1, <2>1, <2>2, CreateRefines
  <2>. QED
    BY <1>1, <2>3 DEF Lifecycle!LifeNext, Lifecycle!Spawn
<1>3. CASE NewThread
  <2>1. ~ trd_full /\ wb.act \in valid_trd \cap on_trd /\ Create(wb.act)
    BY <1>3 DEF NewThread, ForestInv, Disciplined, SlotLeft, FromRunning, RunningIsValid
  <2>2. Lifecycle!Start \/ \E t \in Threads : Lifecycle!Spawn(wb.act, t)
    BY <1>1, <2>1, CreateRefines
  <2>. QED
    BY <1>1, <2>2 DEF Lifecycle!LifeNext, Lifecycle!Spawn
<1>4. CASE NoCommand
  BY <1>4 DEF NoCommand, table, Lifecycle!lifeVars
<1>. QED
  BY <1>2, <1>3, <1>4, SleepRefines, WakeRefines, KillRefines

\* The thread table of a disciplined program implements ThreadLifecycle:
\* threads are born in free slots, stopped by themselves or their creators, and
\* end as leaves; every clock edge is one such step or changes no thread.
THEOREM LifecycleImplemented == DisciplinedSpec => ImplementsLifecycle
<1>1. Init => Lifecycle!LifeInit
  BY DEF Init, Lifecycle!LifeInit, Lifecycle!Free
<1>2. TypeOK /\ RunningIsValid /\ ForestInv /\ [DisciplinedNext]_vars
        => [Lifecycle!LifeNext]_(Lifecycle!lifeVars)
  <2>. SUFFICES ASSUME TypeOK, RunningIsValid, ForestInv, [DisciplinedNext]_vars
                PROVE  [Lifecycle!LifeNext]_(Lifecycle!lifeVars)
    OBVIOUS
  <2>1. CASE Clock /\ Disciplined'
    BY <2>1, EdgeParts, CommandRefines
  <2>2. CASE Reset
    BY <2>2 DEF Reset, Lifecycle!LifeNext, Lifecycle!Restart, Lifecycle!Free
  <2>3. CASE UNCHANGED vars
    BY <2>3 DEF vars, Lifecycle!lifeVars
  <2>. QED
    BY <2>1, <2>2, <2>3 DEF DisciplinedNext
<1>3. DisciplinedSpec => [](TypeOK /\ RunningIsValid)
  BY DisciplinedRefines, TypeCorrect, RunningCorrect, PTL
<1>. QED
  BY <1>1, <1>2, <1>3, ForestCorrect, PTL
     DEF DisciplinedSpec, DisciplinedNext, ImplementsLifecycle, Lifecycle!LifeSpec
=============================================================================
