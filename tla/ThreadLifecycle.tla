--------------------------- MODULE ThreadLifecycle ---------------------------
(***************************************************************************)
(* What the thread table promises to programs, without slots' registers,   *)
(* clocks or scheduling: threads are born in free slots, they are stopped  *)
(* by themselves or by the thread that created them, and they die as       *)
(* leaves.  creator[t] is the thread that really created t: it is forgotten*)
(* when that thread is gone.  ThreadCtrl implements this specification     *)
(* for disciplined programs.                                               *)
(***************************************************************************)
EXTENDS Integers

CONSTANTS
  Threads,   \* thread slots
  Root,      \* the slot the core starts in, one of Threads
  None       \* nobody, not one of Threads

VARIABLES
  status,    \* status[t] is "free", "running" or "sleeping"
  creator    \* creator[t]: who created t, None for a free slot

lifeVars == <<status, creator>>

Live == {t \in Threads : status[t] # "free"}

Free == [t \in Threads |-> "free"]

LifeInit == status = Free /\ creator = [t \in Threads |-> None]

\* The core comes out of reset: the root is created, and is its own creator.
Start ==
  /\ Live = {}
  /\ status'  = [status EXCEPT ![Root] = "running"]
  /\ creator' = [creator EXCEPT ![Root] = Root]

\* The running thread a creates a thread in the free slot t.
Spawn(a, t) ==
  /\ status[a] = "running" /\ status[t] = "free"
  /\ status'  = [status EXCEPT ![t] = "running"]
  /\ creator' = [creator EXCEPT ![t] = a]

Owns(a, t) == t \in Live /\ status[a] = "running" /\ a \in {t, creator[t]}

\* a puts itself or a thread it created to sleep.
Suspend(a, t) ==
  /\ Owns(a, t)
  /\ status' = [status EXCEPT ![t] = "sleeping"]
  /\ UNCHANGED creator

\* Any running thread may wake any live thread.
Resume(a, t) ==
  /\ status[a] = "running" /\ t \in Live
  /\ status' = [status EXCEPT ![t] = "running"]
  /\ UNCHANGED creator

\* a ends itself or a thread it created, once that thread has no children.
End(a, t) ==
  /\ Owns(a, t)
  /\ \A u \in Live \ {t} : creator[u] # t
  /\ status'  = [status EXCEPT ![t] = "free"]
  /\ creator' = [creator EXCEPT ![t] = None]

\* A reset ends everything at once.
Restart == status' = Free /\ creator' = [t \in Threads |-> None]

LifeNext ==
  \/ Start
  \/ Restart
  \/ \E a, t \in Threads : Spawn(a, t) \/ Suspend(a, t) \/ Resume(a, t) \/ End(a, t)

LifeSpec == LifeInit /\ [][LifeNext]_lifeVars

=============================================================================
