---------------------------- MODULE AtomicRWLock ----------------------------
(***************************************************************************)
(* cyber/base/atomic_rw_lock.h, used through the guards of                 *)
(* rw_lock_guard.h: a thread takes the lock in the constructor of a guard  *)
(* and gives it back in the destructor.  One step is one atomic access.    *)
(*                                                                         *)
(* lock_num_ is the number of readers or WRITE_EXCLUSIVE.  A writer is     *)
(* counted in write_lock_wait_num_ from its arrival until after it has the *)
(* lock; with write_first_ a reader does not enter while the count is      *)
(* positive.  The retry counter only decides when to yield.                *)
(***************************************************************************)
EXTENDS Integers, FiniteSets

CONSTANTS Threads, WriteFirst

LockAssumption == IsFiniteSet(Threads) /\ WriteFirst \in BOOLEAN

VARIABLES
  lock_num,               \* lock_num_
  write_lock_wait_num,    \* write_lock_wait_num_
  pc,                     \* where each thread is
  seen                    \* ReadLock's copy lock_num of lock_num_

vars == <<lock_num, write_lock_wait_num, pc, seen>>

RW_LOCK_FREE == 0
WRITE_EXCLUSIVE == -1

Init ==
  /\ lock_num = RW_LOCK_FREE
  /\ write_lock_wait_num = 0
  /\ pc = [t \in Threads |-> "out"]
  /\ seen = [t \in Threads |-> 0]

Goto(t, from, to) ==
  /\ pc[t] = from
  /\ pc' = [pc EXCEPT ![t] = to]

StartRead(t) ==
  /\ Goto(t, "out", "load")
  /\ UNCHANGED <<lock_num, write_lock_wait_num, seen>>

StartWrite(t) ==
  /\ Goto(t, "out", "arrive")
  /\ UNCHANGED <<lock_num, write_lock_wait_num, seen>>

(***************************************************************************)
(* ReadLock and ReadUnlock.                                                *)
(***************************************************************************)
LoadNum(t) ==
  /\ Goto(t, "load", "test")
  /\ seen' = [seen EXCEPT ![t] = lock_num]
  /\ UNCHANGED <<lock_num, write_lock_wait_num>>

\* Mutant: readers look at lock_num_ only, as if write_first_ were false
MustWaitForHolder(t) == seen[t] < RW_LOCK_FREE

MustWait(t) ==
  \/ seen[t] < RW_LOCK_FREE
  \/ WriteFirst /\ write_lock_wait_num > 0

TestNum(t) ==
  /\ Goto(t, "test", IF MustWait(t) THEN "load" ELSE "enter")
  /\ UNCHANGED <<lock_num, write_lock_wait_num, seen>>

\* Mutant: the reader counts itself without comparing
EnterReadByAdd(t) ==
  /\ Goto(t, "enter", "reading")
  /\ lock_num' = lock_num + 1
  /\ seen' = [seen EXCEPT ![t] = 0]
  /\ UNCHANGED write_lock_wait_num

EnterRead(t) ==
  /\ Goto(t, "enter", "reading")
  /\ lock_num = seen[t]
  /\ lock_num' = seen[t] + 1
  /\ seen' = [seen EXCEPT ![t] = 0]
  /\ UNCHANGED write_lock_wait_num

\* the weak CAS reloads when it fails, and may fail although it could succeed
RetryRead(t) ==
  /\ Goto(t, "enter", "test")
  /\ seen' = [seen EXCEPT ![t] = lock_num]
  /\ UNCHANGED <<lock_num, write_lock_wait_num>>

ReadUnlock(t) ==
  /\ Goto(t, "reading", "out")
  /\ lock_num' = lock_num - 1
  /\ UNCHANGED <<write_lock_wait_num, seen>>

(***************************************************************************)
(* WriteLock and WriteUnlock.                                              *)
(***************************************************************************)
Arrive(t) ==
  /\ Goto(t, "arrive", "exclude")
  /\ write_lock_wait_num' = write_lock_wait_num + 1
  /\ UNCHANGED <<lock_num, seen>>

Exclude(t) ==
  /\ Goto(t, "exclude", "leave")
  /\ lock_num = RW_LOCK_FREE
  /\ lock_num' = WRITE_EXCLUSIVE
  /\ UNCHANGED <<write_lock_wait_num, seen>>

LeaveQueue(t) ==
  /\ Goto(t, "leave", "writing")
  /\ write_lock_wait_num' = write_lock_wait_num - 1
  /\ UNCHANGED <<lock_num, seen>>

WriteUnlock(t) ==
  /\ Goto(t, "writing", "out")
  /\ lock_num' = lock_num + 1
  /\ UNCHANGED <<write_lock_wait_num, seen>>

ReadStep(t) ==
  LoadNum(t) \/ TestNum(t) \/ EnterRead(t) \/ RetryRead(t) \/ ReadUnlock(t)

WriteStep(t) == Arrive(t) \/ Exclude(t) \/ LeaveQueue(t) \/ WriteUnlock(t)

Next ==
  \E t \in Threads : StartRead(t) \/ StartWrite(t) \/ ReadStep(t) \/ WriteStep(t)

Spec == Init /\ [][Next]_vars

\* Threads inside the lock's functions keep running, the weak CASes that could
\* succeed do not all fail for ever, and the owner of a guard leaves its scope.
\* Nothing makes a thread take the lock.
FairSpec ==
  /\ Spec
  /\ \A t \in Threads : WF_vars(ReadStep(t)) /\ WF_vars(WriteStep(t))
  /\ SF_vars(\E t \in Threads : EnterRead(t))

-----------------------------------------------------------------------------
PCs == {"out", "load", "test", "enter", "reading",
        "arrive", "exclude", "leave", "writing"}

\* Type invariant: lock_num_ is never below WRITE_EXCLUSIVE and the unsigned
\* write_lock_wait_num_ never wraps below zero.
TypeOK ==
  /\ lock_num \in Int /\ lock_num >= WRITE_EXCLUSIVE
  /\ write_lock_wait_num \in Nat
  /\ pc \in [Threads -> PCs]
  /\ seen \in [Threads -> Int]

Readers == {t \in Threads : pc[t] = "reading"}
Owners == {t \in Threads : pc[t] \in {"leave", "writing"}}
Queued == {t \in Threads : pc[t] \in {"exclude", "leave"}}

\* Mutual exclusion: two guards of the same lock are alive at once only if both
\* are read guards.
Exclusion ==
  \A t, u \in Threads : t # u /\ t \in Owners => u \notin Owners \cup Readers

\* lock_num_ is WRITE_EXCLUSIVE while somebody owns the lock and the number of
\* readers otherwise: it returns to RW_LOCK_FREE when the last guard is gone.
CountsHolders ==
  lock_num = IF Owners # {} THEN WRITE_EXCLUSIVE ELSE Cardinality(Readers)

\* write_lock_wait_num_ is the number of writers between arrival and departure:
\* once no writer is about, readers are not held back for ever.
CountsQueue == write_lock_wait_num = Cardinality(Queued)

\* With write_first_, a stream of readers cannot starve the writers: while a
\* writer waits, some writer gets the lock.
WritersGetIn == (\E t \in Threads : pc[t] = "exclude") ~> (Owners # {})

\* Readers wait only for writers: once no writer comes any more, the readers
\* that ask for the lock are not kept out by what the writers left behind.
ReadersGetIn ==
  <>[](\A u \in Threads : pc[u] \notin {"arrive", "exclude", "leave", "writing"})
    => ((\E t \in Threads : pc[t] = "load") ~> Readers # {})

\* Nobody is starved: neither the writers by readers nor, once the writers are
\* gone, the readers by what they left behind.
NobodyStarves == WritersGetIn /\ ReadersGetIn
=============================================================================
