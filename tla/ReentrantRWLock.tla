--------------------------- MODULE ReentrantRWLock --------------------------
(***************************************************************************)
(* cyber/base/reentrant_rw_lock.h: the lock of AtomicRWLock whose writer   *)
(* may take it again.  write_thread_id_ names the writer; it is a plain    *)
(* field written after the CAS that takes the lock and after the fetch_add *)
(* that gives it back.                                                     *)
(*                                                                         *)
(* A thread holds a stack of guards, since guards are scoped.  A thread    *)
(* whose outermost guard is a read guard asks for no write guard: that is  *)
(* a deadlock by design.                                                   *)
(***************************************************************************)
EXTENDS Integers, Sequences, FiniteSets

CONSTANTS LockThreads, WriteFirst, NoThread,
          MaxDepth      \* bound: guards nested in one thread

ASSUME LockAssumption ==
  NoThread \notin LockThreads /\ IsFiniteSet(LockThreads) /\ MaxDepth \in Nat

VARIABLES
  lock_num, write_lock_wait_num,
  write_thread_id,        \* write_thread_id_
  lock_pc, seen,
  held                    \* the guards of each thread, innermost last

counters == <<lock_num, write_lock_wait_num>>
lockVars == <<lock_num, write_lock_wait_num, write_thread_id, lock_pc, seen, held>>

RW_LOCK_FREE == 0
WRITE_EXCLUSIVE == -1

LockInit ==
  /\ lock_num = RW_LOCK_FREE
  /\ write_lock_wait_num = 0
  /\ write_thread_id = NoThread
  /\ lock_pc = [t \in LockThreads |-> "run"]
  /\ seen = [t \in LockThreads |-> 0]
  /\ held = [t \in LockThreads |-> <<>>]

Step(t, from, to) ==
  /\ lock_pc[t] = from
  /\ lock_pc' = [lock_pc EXCEPT ![t] = to]

Push(t, guard) == held' = [held EXCEPT ![t] = Append(@, guard)]

(***************************************************************************)
(* ReadLock and ReadUnlock.                                                *)
(***************************************************************************)
StartRead(t) ==
  /\ Len(held[t]) < MaxDepth
  /\ Step(t, "run", "is_writer_r")
  /\ UNCHANGED <<counters, write_thread_id, seen, held>>

ReadAsWriter(t) ==
  /\ write_thread_id = t
  /\ Step(t, "is_writer_r", "run")
  /\ Push(t, "read")
  /\ UNCHANGED <<counters, write_thread_id, seen>>

LoadNum(t) ==
  /\ \/ write_thread_id # t /\ Step(t, "is_writer_r", "test")
     \/ Step(t, "load", "test")
  /\ seen' = [seen EXCEPT ![t] = lock_num]
  /\ UNCHANGED <<counters, write_thread_id, held>>

MustWait(t) ==
  \/ seen[t] < RW_LOCK_FREE
  \/ WriteFirst /\ write_lock_wait_num > 0

TestNum(t) ==
  /\ Step(t, "test", IF MustWait(t) THEN "load" ELSE "enter")
  /\ UNCHANGED <<counters, write_thread_id, seen, held>>

\* Mutant: the reader counts itself without comparing
EnterReadByAdd(t) ==
  /\ Step(t, "enter", "run")
  /\ lock_num' = lock_num + 1
  /\ Push(t, "read")
  /\ UNCHANGED <<write_lock_wait_num, write_thread_id, seen>>

EnterRead(t) ==
  /\ lock_num = seen[t]
  /\ Step(t, "enter", "run")
  /\ lock_num' = seen[t] + 1
  /\ Push(t, "read")
  /\ UNCHANGED <<write_lock_wait_num, write_thread_id, seen>>

RetryRead(t) ==
  /\ Step(t, "enter", "test")
  /\ seen' = [seen EXCEPT ![t] = lock_num]
  /\ UNCHANGED <<counters, write_thread_id, held>>

Pop(t, guard) ==
  /\ held[t] # <<>> /\ held[t][Len(held[t])] = guard
  /\ held' = [held EXCEPT ![t] = SubSeq(@, 1, Len(@) - 1)]

ReadUnlock(t) ==
  /\ Step(t, "run", "run")
  /\ Pop(t, "read")
  /\ lock_num' = IF write_thread_id = t THEN lock_num ELSE lock_num - 1
  /\ UNCHANGED <<write_lock_wait_num, write_thread_id, seen>>

(***************************************************************************)
(* WriteLock and WriteUnlock.                                              *)
(***************************************************************************)
StartWrite(t) ==
  /\ Len(held[t]) < MaxDepth
  /\ held[t] # <<>> => Head(held[t]) = "write"
  /\ Step(t, "run", "is_writer_w")
  /\ UNCHANGED <<counters, write_thread_id, seen, held>>

WriteAgain(t) ==
  /\ write_thread_id = t
  /\ Step(t, "is_writer_w", "run")
  /\ lock_num' = lock_num - 1
  /\ Push(t, "write")
  /\ UNCHANGED <<write_lock_wait_num, write_thread_id, seen>>

Arrive(t) ==
  /\ write_thread_id # t
  /\ Step(t, "is_writer_w", "exclude")
  /\ write_lock_wait_num' = write_lock_wait_num + 1
  /\ UNCHANGED <<lock_num, write_thread_id, seen, held>>

Exclude(t) ==
  /\ lock_num = RW_LOCK_FREE
  /\ Step(t, "exclude", "sign")
  /\ lock_num' = WRITE_EXCLUSIVE
  /\ UNCHANGED <<write_lock_wait_num, write_thread_id, seen, held>>

Sign(t) ==
  /\ Step(t, "sign", "leave")
  /\ write_thread_id' = t
  /\ UNCHANGED <<counters, seen, held>>

LeaveQueue(t) ==
  /\ Step(t, "leave", "run")
  /\ write_lock_wait_num' = write_lock_wait_num - 1
  /\ Push(t, "write")
  /\ UNCHANGED <<lock_num, write_thread_id, seen>>

\* Mutant: the outermost release is recognised one level too early
WriteUnlockEarly(t) ==
  /\ Step(t, "run", IF lock_num = WRITE_EXCLUSIVE - 1 THEN "unsign" ELSE "run")
  /\ Pop(t, "write")
  /\ lock_num' = lock_num + 1
  /\ UNCHANGED <<write_lock_wait_num, write_thread_id, seen>>

WriteUnlock(t) ==
  /\ Step(t, "run", IF lock_num = WRITE_EXCLUSIVE THEN "unsign" ELSE "run")
  /\ Pop(t, "write")
  /\ lock_num' = lock_num + 1
  /\ UNCHANGED <<write_lock_wait_num, write_thread_id, seen>>

\* the lock is already free: the next writer may have signed before this store
Unsign(t) ==
  /\ Step(t, "unsign", "run")
  /\ write_thread_id' = NoThread
  /\ UNCHANGED <<counters, seen, held>>

ReadStep(t) ==
  ReadAsWriter(t) \/ LoadNum(t) \/ TestNum(t) \/ RetryRead(t)

WriteStep(t) ==
  WriteAgain(t) \/ Arrive(t) \/ Exclude(t) \/ Sign(t) \/ LeaveQueue(t) \/ Unsign(t)

Unlock(t) == ReadUnlock(t) \/ WriteUnlock(t)

LockNext ==
  \E t \in LockThreads :
    \/ StartRead(t) \/ StartWrite(t)
    \/ ReadStep(t) \/ EnterRead(t) \/ WriteStep(t) \/ Unlock(t)

LockSpec == LockInit /\ [][LockNext]_lockVars

\* Threads inside the lock's functions keep running and guards go out of scope;
\* the CAS operations succeed if they could again and again.
LockFairSpec ==
  /\ LockSpec
  /\ \A t \in LockThreads :
       /\ WF_lockVars(ReadStep(t)) /\ WF_lockVars(WriteStep(t)) /\ SF_lockVars(Unlock(t))
       /\ SF_lockVars(EnterRead(t)) /\ SF_lockVars(Exclude(t))

-----------------------------------------------------------------------------
LockPCs == {"run", "is_writer_r", "load", "test", "enter",
        "is_writer_w", "exclude", "sign", "leave", "unsign"}

\* Type invariant: the fields, and the guards a thread can have.
LockTypeOK ==
  /\ lock_num \in Int
  /\ write_lock_wait_num \in Nat
  /\ write_thread_id \in LockThreads \cup {NoThread}
  /\ lock_pc \in [LockThreads -> LockPCs]
  /\ seen \in [LockThreads -> Int]
  /\ \A t \in LockThreads : /\ held[t] \in Seq({"read", "write"})
                        /\ Len(held[t]) <= MaxDepth

Writers == {t \in LockThreads : lock_pc[t] \in {"sign", "leave"}
                              \/ (held[t] # <<>> /\ Head(held[t]) = "write")}
Readers == {t \in LockThreads : held[t] # <<>> /\ Head(held[t]) = "read"}

\* Mutual exclusion survives the late store of write_thread_id_: a writer is
\* alone with all its nested guards.
Exclusion ==
  \A t \in Writers : Writers = {t} /\ Readers = {}

\* A thread never passes for the writer when it is not: an entry in
\* write_thread_id_ is the writer's, or that of a thread about to erase it.
OnlyWriterIsTrusted ==
  \A t \in LockThreads :
    write_thread_id = t => t \in Writers \/ lock_pc[t] = "unsign"

\* ReentrantRWLock: a writer is alone, with all its nested guards, and whoever
\* write_thread_id_ names is the writer or a thread that is about to erase it.
WriterAlone == LockTypeOK /\ Exclusion /\ OnlyWriterIsTrusted

\* A thread that holds the lock for writing gets it again, as the nested guards
\* of atomic_rw_lock_test.cc do.
WriterGetsItAgain ==
  \A t \in LockThreads :
    (lock_pc[t] \in {"is_writer_r", "is_writer_w"} /\ held[t] # <<>>
       /\ Head(held[t]) = "write") ~> lock_pc[t] = "run"

\* A thread that holds the lock for reading gets it for reading again, as the
\* nested guards of atomic_rw_lock_test.cc do.
ReaderGetsItAgain ==
  \A t \in LockThreads :
    (lock_pc[t] = "is_writer_r" /\ held[t] # <<>> /\ Head(held[t]) = "read")
      ~> lock_pc[t] = "run"
=============================================================================
