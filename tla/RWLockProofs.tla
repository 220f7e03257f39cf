---------------------------- MODULE RWLockProofs ----------------------------
(***************************************************************************)
(* Proofs about the two reader-writer locks of cyber/base, ReentrantRWLock *)
(* and AtomicRWLock, for any finite set of threads, any depth of nested    *)
(* guards and both settings of write_first_.  Neither counter says who has *)
(* a guard, so each invariant counts the guards the threads really have    *)
(* and says what the lock's word makes of them.                            *)
(***************************************************************************)
EXTENDS ReentrantRWLock, FiniteSetTheorems, TLAPS

-----------------------------------------------------------------------------
(***************************************************************************)
(* ReentrantRWLock.  A guard is a pair of a thread and its place in the    *)
(* thread's stack; place 0 is a writer that has the lock but not yet the   *)
(* guard.                                                                  *)
(***************************************************************************)
\* a writer whose CAS has succeeded and that has not left WriteLock
Entered(t) == lock_pc[t] \in {"sign", "leave"}
\* the guards that count down, those that count up, and the writers waited for
WriteGuards ==
  {g \in LockThreads \X (0 .. MaxDepth) :
     IF g[2] = 0 THEN Entered(g[1])
     ELSE g[2] <= Len(held[g[1]]) /\ held[g[1]][g[2]] = "write"}
ReadGuards ==
  {g \in LockThreads \X (1 .. MaxDepth) :
     g[2] <= Len(held[g[1]]) /\ held[g[1]][1] = "read"}
Queued == {t \in LockThreads : lock_pc[t] \in {"exclude", "sign", "leave"}}

\* the types of the lock's fields and of the threads' locals
LockLocals ==
  /\ lock_num \in Int /\ write_lock_wait_num \in Int
  /\ write_thread_id \in LockThreads \cup {NoThread}
  /\ lock_pc \in [LockThreads -> LockPCs]
  /\ seen \in [LockThreads -> Int]
  /\ held \in [LockThreads -> Seq({"read", "write"})]

\* Guards nest no deeper than MaxDepth, a thread is new when it takes the lock for
\* writing, and a reader has read guards only
Nests(t) ==
  /\ Len(held[t]) <= MaxDepth
  /\ lock_pc[t] \notin {"run", "unsign"} => Len(held[t]) < MaxDepth
  /\ Entered(t) => held[t] = <<>>
  /\ lock_pc[t] = "enter" => seen[t] >= 0
  /\ \A i \in 1 .. Len(held[t]) : held[t][1] = "read" => held[t][i] = "read"
GuardsNest == \A t \in LockThreads : Nests(t)

\* all write guards are of one thread
OneWriter == \A g, h \in WriteGuards : g[1] = h[1]
\* lock_num_ against the guards: with a writer's stale read of its own identity it
\* may stay below zero, never above what the guards account for
CountsGuards ==
  /\ WriteGuards # {} => lock_num <= -Cardinality(WriteGuards) /\ ReadGuards = {}
  /\ WriteGuards = {} => \/ lock_num = Cardinality(ReadGuards)
                         \/ lock_num < 0 /\ ReadGuards = {}
  /\ write_lock_wait_num = Cardinality(Queued)
\* Whoever write_thread_id_ names is the writer, or is between the two stores of
\* WriteUnlock
Trusted ==
  /\ \A t \in LockThreads : lock_pc[t] = "sign" => lock_num = -1
  /\ \A t \in LockThreads : write_thread_id = t =>
       \/ lock_pc[t] = "unsign"
       \/ (\E g \in WriteGuards : g[1] = t) /\ lock_num = -Cardinality(WriteGuards)

\* the inductive invariant of ReentrantRWLock
LockInv == LockLocals /\ GuardsNest /\ OneWriter /\ CountsGuards /\ Trusted

\* What is assumed of the constants.
LEMMA LockFacts ==
  NoThread \notin LockThreads /\ IsFiniteSet(LockThreads) /\ MaxDepth \in Nat
BY LockAssumption

\* The guards are finite in number, because their nesting is bounded.
LEMMA GuardsFinite ==
  /\ IsFiniteSet(WriteGuards) /\ IsFiniteSet(ReadGuards) /\ IsFiniteSet(Queued)
  /\ Cardinality(WriteGuards) \in Nat /\ Cardinality(ReadGuards) \in Nat
  /\ Cardinality(Queued) \in Nat
  /\ Cardinality(WriteGuards) = 0 <=> WriteGuards = {}
  /\ Cardinality(ReadGuards) = 0 <=> ReadGuards = {}
<1>1. IsFiniteSet(0 .. MaxDepth) /\ IsFiniteSet(1 .. MaxDepth)
  BY LockFacts, FS_Interval
<1>2. /\ IsFiniteSet(LockThreads \X (0 .. MaxDepth))
      /\ IsFiniteSet(LockThreads \X (1 .. MaxDepth))
  BY <1>1, LockFacts, FS_Product
<1>3. WriteGuards \in SUBSET (LockThreads \X (0 .. MaxDepth))
  BY DEF WriteGuards
<1>4. ReadGuards \in SUBSET (LockThreads \X (1 .. MaxDepth))
  BY DEF ReadGuards
<1>5. Queued \in SUBSET LockThreads
  BY DEF Queued
<1>6. IsFiniteSet(WriteGuards) /\ IsFiniteSet(ReadGuards) /\ IsFiniteSet(Queued)
  BY <1>2, <1>3, <1>4, <1>5, LockFacts, FS_Subset
<1> QED BY <1>6, FS_CardinalityType, FS_EmptySet

\* A new lock has no guards.
LEMMA LockBegins == LockInit => LockInv
<1> SUFFICES ASSUME LockInit PROVE LockInv
  OBVIOUS
<1> USE LockFacts DEF LockInit, RW_LOCK_FREE, WRITE_EXCLUSIVE
<1>1. LockLocals
  BY DEF LockLocals, LockPCs
<1>2. WriteGuards = {} /\ ReadGuards = {} /\ Queued = {}
  BY DEF WriteGuards, ReadGuards, Queued, Entered
<1>3. GuardsNest
  BY DEF GuardsNest, Nests, Entered
<1>4. Cardinality({}) = 0
  BY FS_EmptySet
<1>5. Trusted
  BY DEF Trusted
<1> QED BY <1>1, <1>2, <1>3, <1>4, <1>5 DEF LockInv, OneWriter, CountsGuards

\* A thread that only loads, tests or starts over leaves every guard alone.
LEMMA Quiet ==
  ASSUME LockInv, NEW t \in LockThreads,
         \/ StartRead(t) \/ StartWrite(t) \/ LoadNum(t)
         \/ TestNum(t) \/ RetryRead(t)
  PROVE  LockInv'
<1> USE DEF RW_LOCK_FREE, WRITE_EXCLUSIVE, counters
<1>1. /\ lock_num' = lock_num /\ write_lock_wait_num' = write_lock_wait_num
      /\ write_thread_id' = write_thread_id /\ held' = held
      /\ lock_pc[t] \in {"run", "is_writer_r", "load", "test", "enter"}
      /\ lock_pc'[t] \in {"is_writer_r", "load", "test", "enter", "is_writer_w"}
      /\ lock_pc[t] = "run" => Len(held[t]) < MaxDepth
      /\ \A u \in LockThreads \ {t} : lock_pc'[u] = lock_pc[u] /\ seen'[u] = seen[u]
      /\ lock_pc'[t] = "enter" => seen'[t] >= 0
  BY DEF StartRead, StartWrite, LoadNum,
     TestNum, RetryRead,
         Step, MustWait, LockInv, LockLocals
<1>2. LockLocals'
  BY Zenon DEF StartRead, StartWrite, LoadNum,
     TestNum, RetryRead,
         Step, LockInv, LockLocals, LockPCs
<1>3. \A u \in LockThreads : Entered(u)' <=> Entered(u)
  BY <1>1 DEF Entered
<1>4. WriteGuards' = WriteGuards /\ ReadGuards' = ReadGuards
  BY Zenon, <1>1, <1>3 DEF WriteGuards, ReadGuards
<1>5. Queued' = Queued
  BY <1>1 DEF Queued
<1>6. GuardsNest'
  BY Zenon, <1>1, <1>3 DEF GuardsNest, Nests, LockInv
<1>7. Trusted'
  BY Zenon, <1>1, <1>4 DEF Trusted, LockInv
<1> QED BY Zenon, <1>1, <1>2, <1>4, <1>5, <1>6, <1>7 DEF LockInv, OneWriter, CountsGuards

\* What a thread's stack is after it puts a guard on it.
LEMMA Pushed ==
  ASSUME LockInv, NEW t \in LockThreads, NEW g \in {"read", "write"}, Push(t, g)
  PROVE  /\ held' \in [LockThreads -> Seq({"read", "write"})]
         /\ \A u \in LockThreads \ {t} : held'[u] = held[u]
         /\ Len(held'[t]) = Len(held[t]) + 1
         /\ \A i \in 1 .. Len(held[t]) : held'[t][i] = held[t][i]
         /\ held'[t][Len(held[t]) + 1] = g
<1>1. held[t] \in Seq({"read", "write"})
  BY DEF LockInv, LockLocals
<1>2. /\ held'[t] = Append(held[t], g)
      /\ \A u \in LockThreads \ {t} : held'[u] = held[u]
  BY DEF LockInv, LockLocals, Push
<1>3. Append(held[t], g) \in Seq({"read", "write"})
  BY <1>1
<1>4. held' \in [LockThreads -> Seq({"read", "write"})]
  BY <1>2, <1>3 DEF LockInv, LockLocals, Push
<1> QED BY <1>1, <1>2, <1>4

\* What a thread's stack is after the topmost guard goes.
LEMMA Popped ==
  ASSUME LockInv, NEW t \in LockThreads, NEW g \in {"read", "write"}, Pop(t, g)
  PROVE  /\ held' \in [LockThreads -> Seq({"read", "write"})]
         /\ \A u \in LockThreads \ {t} : held'[u] = held[u]
         /\ Len(held[t]) \in Nat /\ Len(held[t]) > 0
         /\ held[t][Len(held[t])] = g
         /\ Len(held'[t]) = Len(held[t]) - 1
         /\ \A i \in 1 .. Len(held[t]) - 1 : held'[t][i] = held[t][i]
<1>1. held[t] \in Seq({"read", "write"}) /\ held[t] # <<>> /\ held[t][Len(held[t])] = g
  BY DEF LockInv, LockLocals, Pop
<1>2. Len(held[t]) \in Nat /\ Len(held[t]) > 0
  BY <1>1
<1>3. /\ held'[t] = SubSeq(held[t], 1, Len(held[t]) - 1)
      /\ \A u \in LockThreads \ {t} : held'[u] = held[u]
  BY DEF LockInv, LockLocals, Pop
<1>4. SubSeq(held[t], 1, Len(held[t]) - 1) \in Seq({"read", "write"})
  BY <1>1, <1>2
<1>5. held' \in [LockThreads -> Seq({"read", "write"})]
  BY Zenon, <1>3, <1>4 DEF LockInv, LockLocals, Pop
<1>6. /\ Len(held'[t]) = Len(held[t]) - 1
      /\ \A i \in 1 .. Len(held[t]) - 1 : held'[t][i] = held[t][i]
  BY <1>1, <1>2, <1>3
<1> QED BY Zenon, <1>1, <1>2, <1>3, <1>5, <1>6

\* Entries of WriteGuards and ReadGuards, thread by thread.
LEMMA GuardsOf ==
  /\ \A t \in LockThreads : \A i \in 1 .. MaxDepth :
       /\ <<t, i>> \in WriteGuards <=> i <= Len(held[t]) /\ held[t][i] = "write"
       /\ <<t, i>> \in ReadGuards <=> i <= Len(held[t]) /\ held[t][1] = "read"
  /\ \A t \in LockThreads : <<t, 0>> \in WriteGuards <=> Entered(t)
  /\ \A g \in WriteGuards : \E t \in LockThreads, i \in 0 .. MaxDepth : g = <<t, i>>
  /\ \A g \in ReadGuards : \E t \in LockThreads, i \in 1 .. MaxDepth : g = <<t, i>>
BY LockFacts DEF WriteGuards, ReadGuards

\* what a step of t leaves alone: the guards of the other threads
OthersKeep(t) ==
  /\ \A u \in LockThreads \ {t} : \A i \in 1 .. MaxDepth :
       <<u, i>> \in ReadGuards' <=> <<u, i>> \in ReadGuards
  /\ \A u \in LockThreads \ {t} : \A i \in 0 .. MaxDepth :
       <<u, i>> \in WriteGuards' <=> <<u, i>> \in WriteGuards
\* the guards of t after its step
GuardsNow(t) ==
  /\ \A i \in 1 .. MaxDepth :
       /\ <<t, i>> \in WriteGuards' <=> i <= Len(held'[t]) /\ held'[t][i] = "write"
       /\ <<t, i>> \in ReadGuards' <=> i <= Len(held'[t]) /\ held'[t][1] = "read"
  /\ <<t, 0>> \in WriteGuards' <=> Entered(t)'

\* A step of t leaves the guards of the other threads alone.
LEMMA OthersKeepGuards ==
  ASSUME NEW t \in LockThreads,
         \A u \in LockThreads \ {t} :
           held'[u] = held[u] /\ lock_pc'[u] = lock_pc[u] /\ seen'[u] = seen[u]
  PROVE  /\ \A u \in LockThreads \ {t} :
              (Nests(u)' <=> Nests(u)) /\ (Entered(u)' <=> Entered(u))
         /\ OthersKeep(t) /\ \A u \in LockThreads : GuardsNow(u)
         /\ {WriteGuards, WriteGuards'} \subseteq SUBSET (LockThreads \X (0 .. MaxDepth))
         /\ {ReadGuards, ReadGuards'} \subseteq SUBSET (LockThreads \X (1 .. MaxDepth))
<1>1. \A u \in LockThreads \ {t} : (Nests(u)' <=> Nests(u)) /\ (Entered(u)' <=> Entered(u))
  BY Zenon DEF Nests, Entered
<1>2. \A u \in LockThreads \ {t} : \A i \in 1 .. MaxDepth :
        <<u, i>> \in ReadGuards' <=> <<u, i>> \in ReadGuards
  BY DEF ReadGuards
<1>3. \A u \in LockThreads \ {t} : \A i \in 0 .. MaxDepth :
        <<u, i>> \in WriteGuards' <=> <<u, i>> \in WriteGuards
  BY <1>1 DEF WriteGuards
<1>4. \A u \in LockThreads, i \in 1 .. MaxDepth :
        /\ <<u, i>> \in WriteGuards' <=> i <= Len(held'[u]) /\ held'[u][i] = "write"
        /\ <<u, i>> \in ReadGuards' <=> i <= Len(held'[u]) /\ held'[u][1] = "read"
  BY LockFacts DEF WriteGuards, ReadGuards
<1>5. \A u \in LockThreads : <<u, 0>> \in WriteGuards' <=> Entered(u)'
  BY LockFacts DEF WriteGuards
<1>6. /\ {WriteGuards, WriteGuards'} \subseteq SUBSET (LockThreads \X (0 .. MaxDepth))
      /\ {ReadGuards, ReadGuards'} \subseteq SUBSET (LockThreads \X (1 .. MaxDepth))
  BY Zenon DEF WriteGuards, ReadGuards
<1> QED BY Zenon, <1>1, <1>2, <1>3, <1>4, <1>5, <1>6 DEF OthersKeep, GuardsNow

\* A writer joins the queue.
LEMMA Arriving ==
  ASSUME LockInv, NEW t \in LockThreads, Arrive(t)
  PROVE  LockInv'
<1>1. /\ lock_num' = lock_num /\ write_lock_wait_num' = write_lock_wait_num + 1
      /\ write_thread_id' = write_thread_id /\ held' = held /\ seen' = seen
      /\ lock_pc[t] = "is_writer_w" /\ lock_pc'[t] = "exclude"
      /\ \A u \in LockThreads \ {t} : lock_pc'[u] = lock_pc[u]
  BY DEF Arrive, Step, LockInv, LockLocals
<1>2. LockLocals'
  BY DEF Arrive, Step, LockInv, LockLocals, LockPCs
<1>3. \A u \in LockThreads : Entered(u)' <=> Entered(u)
  BY <1>1 DEF Entered
<1>4. WriteGuards' = WriteGuards /\ ReadGuards' = ReadGuards
  BY Zenon, <1>1, <1>3 DEF WriteGuards, ReadGuards
<1>5. Queued' = Queued \cup {t} /\ t \notin Queued
  BY <1>1 DEF Queued
<1>6. Cardinality(Queued') = Cardinality(Queued) + 1
  BY Zenon, <1>5, GuardsFinite, FS_AddElement
<1>7. GuardsNest'
  BY Zenon, <1>1, <1>3 DEF GuardsNest, Nests, LockInv
<1>8. Trusted'
  BY <1>1, <1>4 DEF Trusted, LockInv
<1> QED BY Zenon, <1>1, <1>2, <1>4, <1>6, <1>7, <1>8 DEF LockInv, OneWriter, CountsGuards

\* The lock is taken for writing when lock_num_ is 0: nobody has a guard then.
LEMMA Excluding ==
  ASSUME LockInv, NEW t \in LockThreads, Exclude(t)
  PROVE  LockInv'
<1>1. /\ lock_num = 0 /\ lock_num' = -1 /\ write_lock_wait_num' = write_lock_wait_num
      /\ write_thread_id' = write_thread_id /\ held' = held /\ seen' = seen
      /\ lock_pc[t] = "exclude" /\ lock_pc'[t] = "sign"
      /\ \A u \in LockThreads \ {t} : lock_pc'[u] = lock_pc[u]
  BY DEF Exclude, Step, LockInv, LockLocals,
     RW_LOCK_FREE, WRITE_EXCLUSIVE
<1>2. LockLocals'
  BY <1>1 DEF Exclude, Step, LockInv, LockLocals, LockPCs
<1>3. WriteGuards = {} /\ ReadGuards = {}
  BY <1>1, GuardsFinite DEF LockInv, CountsGuards
<1>4. held[t] = <<>>
  <2>1. SUFFICES ASSUME held[t] # <<>> PROVE FALSE
    OBVIOUS
  <2>2. held[t] \in Seq({"read", "write"}) /\ Len(held[t]) \in 1 .. MaxDepth
    BY <2>1, LockFacts DEF LockInv, LockLocals, GuardsNest, Nests
  <2>3. held[t][1] \in {"read", "write"} /\ 1 \in 1 .. MaxDepth
    BY <2>2, LockFacts
  <2> QED BY <1>3, <2>2, <2>3, GuardsOf
<1>5. \A u \in LockThreads : Entered(u)' <=> u = t
  <2>1. \A u \in LockThreads : ~Entered(u)
    BY <1>3, GuardsOf
  <2> QED BY <1>1, <2>1 DEF Entered
<1>6. WriteGuards' = {<<t, 0>>}
  <2>1. \A u \in LockThreads : \A i \in 1 .. MaxDepth :
          ~(i <= Len(held[u]) /\ held[u][i] = "write")
    BY <1>3, GuardsOf
  <2>2. ASSUME NEW g \in LockThreads \X (0 .. MaxDepth)
        PROVE  g \in WriteGuards' <=> g = <<t, 0>>
    BY <1>1, <1>5, <2>1, LockFacts DEF WriteGuards
  <2>3. <<t, 0>> \in LockThreads \X (0 .. MaxDepth)
    BY LockFacts
  <2>4. WriteGuards' \subseteq LockThreads \X (0 .. MaxDepth)
    BY DEF WriteGuards
  <2> QED BY <2>2, <2>3, <2>4
<1>7. ReadGuards' = {}
  BY Zenon, <1>1, <1>3 DEF ReadGuards
<1>8. Queued' = Queued
  BY <1>1 DEF Queued
<1>9. Cardinality(WriteGuards') = 1
  BY Zenon, <1>6, FS_Singleton
<1>10. GuardsNest'
  BY Zenon, <1>1, <1>4, <1>5 DEF GuardsNest, Nests, LockInv
<1>11. Trusted'
  BY <1>1, <1>3, <1>6, <1>9 DEF Trusted, LockInv
<1>12. OneWriter'
  BY <1>6 DEF OneWriter
<1> QED BY <1>1, <1>2, <1>6, <1>7, <1>8, <1>9, <1>10, <1>11, <1>12
           DEF LockInv, CountsGuards

\* The writer signs: it is the only one with a write guard.
LEMMA Signing ==
  ASSUME LockInv, NEW t \in LockThreads, Sign(t)
  PROVE  LockInv'
<1>1. /\ lock_num' = lock_num /\ write_lock_wait_num' = write_lock_wait_num
      /\ write_thread_id' = t /\ held' = held /\ seen' = seen
      /\ lock_pc[t] = "sign" /\ lock_pc'[t] = "leave"
      /\ \A u \in LockThreads \ {t} : lock_pc'[u] = lock_pc[u]
  BY DEF Sign, Step, LockInv, LockLocals, counters
<1>2. LockLocals'
  BY <1>1 DEF Sign, Step, LockInv, LockLocals, LockPCs,
     counters
<1>3. \A u \in LockThreads : Entered(u)' <=> Entered(u)
  BY <1>1 DEF Entered
<1>4. WriteGuards' = WriteGuards /\ ReadGuards' = ReadGuards
  BY Zenon, <1>1, <1>3 DEF WriteGuards, ReadGuards
<1>5. Queued' = Queued
  BY <1>1 DEF Queued
<1>6. GuardsNest'
  BY Zenon, <1>1, <1>3 DEF GuardsNest, Nests, LockInv
<1>7. <<t, 0>> \in WriteGuards /\ lock_num = -1
  BY Zenon, <1>1, GuardsOf DEF Entered, LockInv, Trusted
<1>8. Cardinality(WriteGuards) = 1
  <2>1. lock_num <= -Cardinality(WriteGuards)
    BY <1>7 DEF LockInv, CountsGuards
  <2>2. Cardinality(WriteGuards) # 0 /\ Cardinality(WriteGuards) \in Nat
    BY <1>7, GuardsFinite
  <2> QED BY <1>7, <2>1, <2>2
<1>9. Trusted'
  BY <1>1, <1>4, <1>7, <1>8 DEF Trusted, LockInv
<1> QED BY Zenon, <1>1, <1>2, <1>4, <1>5, <1>6, <1>9 DEF LockInv, OneWriter, CountsGuards

\* The late store of WriteUnlock erases the entry, whoever made it.
LEMMA Unsigning ==
  ASSUME LockInv, NEW t \in LockThreads, Unsign(t)
  PROVE  LockInv'
<1>1. /\ lock_num' = lock_num /\ write_lock_wait_num' = write_lock_wait_num
      /\ write_thread_id' = NoThread /\ held' = held /\ seen' = seen
      /\ lock_pc[t] = "unsign" /\ lock_pc'[t] = "run"
      /\ \A u \in LockThreads \ {t} : lock_pc'[u] = lock_pc[u]
  BY DEF Unsign, Step, LockInv, LockLocals, counters
<1>2. LockLocals'
  BY <1>1 DEF Unsign, Step, LockInv, LockLocals, LockPCs,
     counters
<1>3. \A u \in LockThreads : Entered(u)' <=> Entered(u)
  BY <1>1 DEF Entered
<1>4. WriteGuards' = WriteGuards /\ ReadGuards' = ReadGuards
  BY Zenon, <1>1, <1>3 DEF WriteGuards, ReadGuards
<1>5. Queued' = Queued
  BY <1>1 DEF Queued
<1>6. GuardsNest'
  BY Zenon, <1>1, <1>3 DEF GuardsNest, Nests, LockInv
<1>7. Trusted'
  BY <1>1, <1>4, LockFacts DEF Trusted, LockInv
<1> QED BY Zenon, <1>1, <1>2, <1>4, <1>5, <1>6, <1>7 DEF LockInv, OneWriter, CountsGuards

\* The guards of a thread: how many, of which kinds.
LEMMA Stack ==
  ASSUME LockInv, NEW t \in LockThreads
  PROVE  /\ Len(held[t]) \in 0 .. MaxDepth
         /\ \A i \in 1 .. Len(held[t]) : held[t][i] \in {"read", "write"}
         /\ \A i \in 1 .. Len(held[t]) : held[t][i] = "write" => held[t][1] = "write"
         /\ held[t] = <<>> <=> Len(held[t]) = 0
<1>1. held[t] \in Seq({"read", "write"})
  BY DEF LockInv, LockLocals
<1>2. Len(held[t]) \in 0 .. MaxDepth
  BY <1>1, LockFacts DEF LockInv, GuardsNest, Nests
<1>3. \A i \in 1 .. Len(held[t]) : held[t][i] \in {"read", "write"}
  BY <1>1
<1>4. \A i \in 1 .. Len(held[t]) : held[t][i] = "write" => held[t][1] = "write"
  <2>1. \A i \in 1 .. Len(held[t]) : held[t][1] = "read" => held[t][i] = "read"
    BY DEF LockInv, GuardsNest, Nests
  <2>2. ASSUME NEW i \in 1 .. Len(held[t]) PROVE 1 \in 1 .. Len(held[t])
    BY <1>2, LockFacts
  <2> QED BY <1>3, <2>1, <2>2
<1>5. held[t] = <<>> <=> Len(held[t]) = 0
  BY <1>1
<1> QED BY <1>2, <1>3, <1>4, <1>5

\* Whoever passes for the writer is: its outermost guard is a write guard.
LEMMA PassesForWriter ==
  ASSUME LockInv, NEW t \in LockThreads, write_thread_id = t,
         lock_pc[t] \notin {"unsign", "sign", "leave"}
  PROVE  /\ <<t, 1>> \in WriteGuards /\ Len(held[t]) > 0 /\ held[t][1] = "write"
         /\ lock_num = -Cardinality(WriteGuards)
<1>1. PICK g \in WriteGuards : g[1] = t
  BY DEF LockInv, Trusted
<1>2. PICK i \in 0 .. MaxDepth : g = <<t, i>>
  BY <1>1, GuardsOf
<1>3. i # 0
  BY <1>1, <1>2, GuardsOf DEF Entered
<1>4. i \in 1 .. MaxDepth /\ i <= Len(held[t]) /\ held[t][i] = "write"
  BY <1>1, <1>2, <1>3, GuardsOf, LockFacts
<1>5. Len(held[t]) \in 0 .. MaxDepth /\ i \in 1 .. Len(held[t]) /\ 1 \in 1 .. MaxDepth
  BY <1>4, Stack, LockFacts
<1>6. held[t][1] = "write"
  BY Zenon, <1>4, <1>5, Stack
<1>7. lock_num = -Cardinality(WriteGuards)
  BY DEF LockInv, Trusted
<1> QED BY <1>5, <1>6, <1>7, GuardsOf, LockFacts

\* A reader enters while nobody has a write guard, and is counted.
LEMMA Entering ==
  ASSUME LockInv, NEW t \in LockThreads, EnterRead(t)
  PROVE  LockInv'
<1> DEFINE n == Len(held[t])
<1>1. /\ lock_num = seen[t] /\ lock_num' = lock_num + 1
      /\ write_lock_wait_num' = write_lock_wait_num
      /\ write_thread_id' = write_thread_id /\ seen' = seen /\ Push(t, "read")
      /\ lock_pc[t] = "enter" /\ lock_pc'[t] = "run"
      /\ lock_pc' \in [LockThreads -> LockPCs]
      /\ \A u \in LockThreads \ {t} : lock_pc'[u] = lock_pc[u]
  BY DEF EnterRead, Step, LockInv, LockLocals, LockPCs
<1>2. /\ held' \in [LockThreads -> Seq({"read", "write"})]
      /\ \A u \in LockThreads \ {t} : held'[u] = held[u]
      /\ Len(held'[t]) = n + 1
      /\ \A i \in 1 .. n : held'[t][i] = held[t][i]
      /\ held'[t][n + 1] = "read"
  BY Zenon, <1>1, Pushed
<1>3. LockLocals'
  BY <1>1, <1>2 DEF LockInv, LockLocals
<1>4. lock_num >= 0 /\ n \in Nat /\ n + 1 \in 1 .. MaxDepth
  BY <1>1, Stack, LockFacts DEF LockInv, GuardsNest, Nests
<1>5. WriteGuards = {} /\ lock_num = Cardinality(ReadGuards)
  <2>1. WriteGuards # {} => Cardinality(WriteGuards) \in Nat /\ Cardinality(WriteGuards) # 0
    BY GuardsFinite
  <2>2. lock_num \in Int
    BY DEF LockInv, LockLocals
  <2>3. WriteGuards # {} => lock_num <= -Cardinality(WriteGuards)
    BY DEF LockInv, CountsGuards
  <2>4. WriteGuards = {}
    BY <1>4, <2>1, <2>2, <2>3
  <2> QED BY <1>4, <2>2, <2>4 DEF LockInv, CountsGuards
<1>6. ASSUME NEW i \in 1 .. n PROVE held[t][i] = "read"
  <2>1. i \in 1 .. MaxDepth /\ i <= n /\ held[t][i] \in {"read", "write"}
    BY <1>4, Stack, LockFacts
  <2>2. ~(i <= n /\ held[t][i] = "write")
    BY Zenon, <1>5, <2>1, GuardsOf
  <2> QED BY <2>1, <2>2
<1>7. \A u \in LockThreads : ~Entered(u) /\ ~Entered(u)'
  <2>1. \A u \in LockThreads : ~Entered(u)
    BY <1>5, GuardsOf
  <2> QED BY <1>1, <2>1 DEF Entered
<1>8. \A i \in 1 .. n + 1 : held'[t][i] = "read"
  BY <1>2, <1>4, <1>6
<1>a. OthersKeep(t) /\ (\A u \in LockThreads : GuardsNow(u))
  BY Zenon, <1>1, <1>2, OthersKeepGuards
<1>9. WriteGuards' = {}
  <2>1. ASSUME NEW u \in LockThreads, NEW i \in 0 .. MaxDepth
        PROVE  <<u, i>> \notin WriteGuards'
    <3>1. CASE i = 0
      BY Zenon, <1>a, <1>7, <3>1 DEF GuardsNow
    <3>2. CASE i # 0 /\ u = t
      <4>1. i \in 1 .. MaxDepth /\ (i <= n + 1 => held'[t][i] = "read")
        BY <1>4, <1>8, <3>2, LockFacts
      <4>2. <<t, i>> \in WriteGuards' <=> i <= Len(held'[t]) /\ held'[t][i] = "write"
        BY Zenon, <1>a, <4>1 DEF GuardsNow
      <4>3. Len(held'[t]) = n + 1
        BY Zenon, <1>2
      <4> QED BY <3>2, <4>1, <4>2, <4>3
    <3>3. CASE u # t
      BY Zenon, <1>5, <1>a, <3>3 DEF OthersKeep
    <3> QED BY <3>1, <3>2, <3>3
  <2> QED BY <2>1 DEF WriteGuards
<1>10. ReadGuards' = ReadGuards \cup {<<t, n + 1>>} /\ <<t, n + 1>> \notin ReadGuards
  <2>1. <<t, n + 1>> \notin ReadGuards
    BY <1>4, GuardsOf
  <2>2. ASSUME NEW u \in LockThreads, NEW i \in 1 .. MaxDepth
        PROVE  <<u, i>> \in ReadGuards' <=> <<u, i>> \in ReadGuards \cup {<<t, n + 1>>}
    <3>1. CASE u # t
      <4>1. <<u, i>> \in ReadGuards' <=> <<u, i>> \in ReadGuards
        BY Zenon, <1>a, <3>1 DEF OthersKeep
      <4>2. <<u, i>> # <<t, n + 1>>
        BY <3>1
      <4> QED BY <4>1, <4>2
    <3>2. CASE u = t
      <4>1. held'[t][1] = "read" /\ (n > 0 => held[t][1] = "read")
        BY <1>4, <1>6, <1>8
      <4>2. i <= n + 1 <=> (i <= n \/ i = n + 1)
        BY <1>4
      <4>3. i <= n => n > 0
        BY <1>4
      <4>4. <<t, i>> \in ReadGuards' <=> i <= n + 1 /\ held'[t][1] = "read"
        <5>1. <<t, i>> \in ReadGuards' <=> i <= Len(held'[t]) /\ held'[t][1] = "read"
          BY Zenon, <1>a DEF GuardsNow
        <5>2. Len(held'[t]) = n + 1
          BY Zenon, <1>2
        <5> QED BY Zenon, <5>1, <5>2
      <4>5. <<t, i>> \in ReadGuards <=> i <= n /\ held[t][1] = "read"
        BY GuardsOf
      <4>6. <<t, i>> \in {<<t, n + 1>>} <=> i = n + 1
        OBVIOUS
      <4> QED BY <3>2, <4>1, <4>2, <4>3, <4>4, <4>5, <4>6
    <3> QED BY <3>1, <3>2
  <2>3. ReadGuards' \subseteq LockThreads \X (1 .. MaxDepth)
        /\ ReadGuards \subseteq LockThreads \X (1 .. MaxDepth)
    BY DEF ReadGuards
  <2> QED BY <1>4, <2>1, <2>2, <2>3
<1>11. Cardinality(ReadGuards') = Cardinality(ReadGuards) + 1
  BY Zenon, <1>10, GuardsFinite, FS_AddElement
<1>12. Queued' = Queued
  BY <1>1 DEF Queued
<1>13. GuardsNest'
  <2>1. Nests(t)'
    BY <1>1, <1>2, <1>4, <1>7, <1>8 DEF Nests
  <2>2. \A u \in LockThreads \ {t} : Nests(u)'
    BY Zenon, <1>1, <1>2, OthersKeepGuards DEF LockInv, GuardsNest
  <2> QED BY <2>1, <2>2 DEF GuardsNest
<1>14. Trusted'
  BY Zenon, <1>1, <1>4, <1>5, <1>7 DEF Trusted, LockInv, Entered
<1>15. OneWriter'
  BY <1>9 DEF OneWriter
<1> QED BY Zenon, <1>1, <1>3, <1>5, <1>9, <1>11, <1>12, <1>13, <1>14, <1>15
           DEF LockInv, CountsGuards

\* Two sets of guards are equal if they agree thread by thread.
LEMMA SameWriteGuards ==
  ASSUME NEW S, NEW T, S \subseteq LockThreads \X (0 .. MaxDepth),
         T \subseteq LockThreads \X (0 .. MaxDepth),
         \A u \in LockThreads : \A i \in 0 .. MaxDepth : <<u, i>> \in S <=> <<u, i>> \in T
  PROVE  S = T
OBVIOUS

\* The writer takes the lock again for reading, or for writing.
LEMMA TakingAgain ==
  ASSUME LockInv, NEW t \in LockThreads, ReadAsWriter(t) \/ WriteAgain(t)
  PROVE  LockInv'
<1> DEFINE n == Len(held[t])
           again == WriteAgain(t)
           kind == IF again THEN "write" ELSE "read"
<1>1. /\ lock_num' = IF again THEN lock_num - 1 ELSE lock_num
      /\ write_lock_wait_num' = write_lock_wait_num
      /\ write_thread_id' = write_thread_id /\ seen' = seen
      /\ Push(t, kind) /\ kind \in {"read", "write"}
      /\ write_thread_id = t
      /\ lock_pc[t] \in {"is_writer_r", "is_writer_w"} /\ lock_pc'[t] = "run"
      /\ lock_pc' \in [LockThreads -> LockPCs]
      /\ \A u \in LockThreads \ {t} : lock_pc'[u] = lock_pc[u]
  BY Zenon DEF ReadAsWriter, WriteAgain, Step, LockInv,
     LockLocals, LockPCs, counters
<1> HIDE DEF again, kind
<1>2. /\ held' \in [LockThreads -> Seq({"read", "write"})]
      /\ \A u \in LockThreads \ {t} : held'[u] = held[u]
      /\ Len(held'[t]) = n + 1
      /\ \A i \in 1 .. n : held'[t][i] = held[t][i]
      /\ held'[t][n + 1] = kind
  BY Zenon, <1>1, Pushed
<1>3. LockLocals'
  BY <1>1, <1>2 DEF LockInv, LockLocals
<1>4. /\ <<t, 1>> \in WriteGuards /\ n > 0 /\ held[t][1] = "write"
      /\ lock_num = -Cardinality(WriteGuards)
  BY Zenon, <1>1, PassesForWriter
<1>5. n \in Nat /\ n + 1 \in 1 .. MaxDepth /\ held'[t][1] = "write"
  <2>1. n \in Nat /\ 1 \in 1 .. n
    BY <1>4, Stack, LockFacts
  <2>2. n < MaxDepth
    BY Zenon, <1>1 DEF LockInv, GuardsNest, Nests
  <2>3. n + 1 \in 1 .. MaxDepth
    BY <2>1, <2>2, LockFacts
  <2> QED BY Zenon, <1>2, <1>4, <2>1, <2>3
<1>6. ~Entered(t) /\ ~Entered(t)'
  BY <1>1 DEF Entered
<1>a. OthersKeep(t) /\ (\A u \in LockThreads : GuardsNow(u))
  BY Zenon, <1>1, <1>2, OthersKeepGuards
<1>7. WriteGuards' = IF again THEN WriteGuards \cup {<<t, n + 1>>} ELSE WriteGuards
  <2> DEFINE new == IF again THEN WriteGuards \cup {<<t, n + 1>>} ELSE WriteGuards
  <2>1. ASSUME NEW u \in LockThreads, NEW i \in 0 .. MaxDepth
        PROVE  <<u, i>> \in WriteGuards' <=> <<u, i>> \in new
    <3>1. CASE u # t
      <4>1. <<u, i>> # <<t, n + 1>>
        BY <3>1
      <4> QED BY Zenon, <1>a, <3>1, <4>1 DEF OthersKeep
    <3>2. CASE u = t /\ i = 0
      <4>1. <<u, i>> # <<t, n + 1>>
        BY <1>5, <3>2
      <4>2. <<t, 0>> \notin WriteGuards' /\ <<t, 0>> \notin WriteGuards
        BY Zenon, <1>6, <1>a, GuardsOf DEF GuardsNow
      <4> QED BY Zenon, <3>2, <4>1, <4>2
    <3>3. CASE u = t /\ i # 0
      <4>1. i \in 1 .. MaxDepth /\ (i <= n + 1 <=> i \in 1 .. n \/ i = n + 1)
            /\ (i <= n <=> i \in 1 .. n)
        BY <1>5, <3>3, LockFacts
      <4>2. <<t, i>> \in WriteGuards' <=> i <= n + 1 /\ held'[t][i] = "write"
        <5>1. <<t, i>> \in WriteGuards' <=> i <= Len(held'[t]) /\ held'[t][i] = "write"
          BY Zenon, <1>a, <4>1 DEF GuardsNow
        <5>2. Len(held'[t]) = n + 1
          BY Zenon, <1>2
        <5> QED BY Zenon, <5>1, <5>2
      <4>3. <<t, i>> \in WriteGuards <=> i <= n /\ held[t][i] = "write"
        BY Zenon, <4>1, GuardsOf
      <4>4. <<t, i>> = <<t, n + 1>> <=> i = n + 1
        OBVIOUS
      <4>5. n + 1 \notin 1 .. n /\ (kind = "write" <=> again)
        BY <1>5 DEF kind
      <4> QED BY Zenon, <1>2, <3>3, <4>1, <4>2, <4>3, <4>4, <4>5
    <3> QED BY <3>1, <3>2, <3>3
  <2>2. /\ WriteGuards' \subseteq LockThreads \X (0 .. MaxDepth)
        /\ new \subseteq LockThreads \X (0 .. MaxDepth)
    BY <1>5, LockFacts DEF WriteGuards
  <2> HIDE DEF new
  <2>3. WriteGuards' = new
    BY <2>1, <2>2, SameWriteGuards
  <2> QED BY <2>3 DEF new
<1>8. <<t, n + 1>> \notin WriteGuards
  BY <1>5, GuardsOf
<1>9. Cardinality(WriteGuards') =
        IF again THEN Cardinality(WriteGuards) + 1 ELSE Cardinality(WriteGuards)
  BY Zenon, <1>7, <1>8, GuardsFinite, FS_AddElement
<1>10. ReadGuards = {} /\ ReadGuards' = {}
  <2>1. ReadGuards = {}
    BY <1>4 DEF LockInv, CountsGuards
  <2>2. ASSUME NEW u \in LockThreads, NEW i \in 1 .. MaxDepth
        PROVE  <<u, i>> \notin ReadGuards'
    <3>1. u # t => <<u, i>> \notin ReadGuards'
      BY Zenon, <1>a, <2>1 DEF OthersKeep
    <3>2. <<t, i>> \in ReadGuards' => held'[t][1] = "read"
      BY Zenon, <1>a DEF GuardsNow
    <3> QED BY <1>5, <3>1, <3>2
  <2>3. ReadGuards' \subseteq LockThreads \X (1 .. MaxDepth)
    BY DEF ReadGuards
  <2> QED BY <2>1, <2>2, <2>3
<1>11. Queued' = Queued
  BY <1>1 DEF Queued
<1>12. GuardsNest'
  <2>1. Nests(t)'
    BY <1>1, <1>2, <1>5, <1>6 DEF Nests
  <2>2. \A u \in LockThreads \ {t} : Nests(u)'
    BY Zenon, <1>1, <1>2, OthersKeepGuards DEF LockInv, GuardsNest
  <2> QED BY <2>1, <2>2 DEF GuardsNest
<1>13. \A g \in WriteGuards' : g[1] = t
  BY <1>4, <1>7 DEF LockInv, OneWriter
<1>14. lock_num' = -Cardinality(WriteGuards') /\ lock_num' \in Int
       /\ Cardinality(WriteGuards) \in Nat
  BY <1>1, <1>3, <1>4, <1>9, GuardsFinite DEF LockLocals
<1>15. <<t, 1>> \in WriteGuards'
  BY <1>4, <1>7
<1>16. Trusted'
  <2>1. ASSUME NEW u \in LockThreads, lock_pc'[u] = "sign" PROVE FALSE
    <3>1. u # t /\ Entered(u)'
      BY <1>1, <2>1 DEF Entered
    <3>2. <<u, 0>> \in WriteGuards'
      BY Zenon, <1>a, <3>1 DEF GuardsNow
    <3> QED BY <1>13, <3>1, <3>2
  <2> QED BY <1>1, <1>14, <1>15, <2>1 DEF Trusted
<1>17. OneWriter'
  BY <1>13 DEF OneWriter
<1>18. CountsGuards'
  BY <1>1, <1>10, <1>11, <1>14, <1>15 DEF LockInv, CountsGuards
<1> QED BY <1>3, <1>12, <1>16, <1>17, <1>18 DEF LockInv

\* A writer that has signed leaves the queue with its first guard.
LEMMA Leaving ==
  ASSUME LockInv, NEW t \in LockThreads, LeaveQueue(t)
  PROVE  LockInv'
<1>1. /\ lock_num' = lock_num /\ write_lock_wait_num' = write_lock_wait_num - 1
      /\ write_thread_id' = write_thread_id /\ seen' = seen /\ Push(t, "write")
      /\ lock_pc[t] = "leave" /\ lock_pc'[t] = "run"
      /\ lock_pc' \in [LockThreads -> LockPCs]
      /\ \A u \in LockThreads \ {t} : lock_pc'[u] = lock_pc[u]
  BY DEF LeaveQueue, Step, LockInv, LockLocals, LockPCs
<1>2. /\ Entered(t) /\ ~Entered(t)'
      /\ held[t] = <<>> /\ Len(held[t]) = 0 /\ 1 \in 1 .. MaxDepth
  <2>1. Entered(t) /\ ~Entered(t)'
    BY <1>1 DEF Entered
  <2>2. held[t] = <<>> /\ Len(held[t]) < MaxDepth
    BY Zenon, <1>1, <2>1 DEF LockInv, GuardsNest, Nests
  <2> QED BY <2>1, <2>2, Stack, LockFacts
<1>3. /\ held' \in [LockThreads -> Seq({"read", "write"})]
      /\ \A u \in LockThreads \ {t} : held'[u] = held[u]
      /\ Len(held'[t]) = 1 /\ held'[t][1] = "write"
  <2>1. /\ held' \in [LockThreads -> Seq({"read", "write"})]
        /\ \A u \in LockThreads \ {t} : held'[u] = held[u]
        /\ Len(held'[t]) = Len(held[t]) + 1
        /\ held'[t][Len(held[t]) + 1] = "write"
    BY Zenon, <1>1, Pushed
  <2>2. Len(held[t]) + 1 = 1
    BY <1>2
  <2> QED BY <2>1, <2>2
<1>4. LockLocals'
  BY <1>1, <1>3 DEF LockInv, LockLocals
<1>5. WriteGuards = {<<t, 0>>}
  <2>1. <<t, 0>> \in WriteGuards
    BY <1>2, GuardsOf
  <2>2. ASSUME NEW g \in WriteGuards PROVE g = <<t, 0>>
    <3>1. g[1] = t
      BY <2>1 DEF LockInv, OneWriter
    <3>2. PICK i \in 0 .. MaxDepth : g = <<t, i>>
      BY <3>1, GuardsOf
    <3>3. i # 0 => i \in 1 .. MaxDepth /\ ~(i <= Len(held[t]))
      BY <1>2, LockFacts
    <3> QED BY <3>2, <3>3, GuardsOf
  <2> QED BY <2>1, <2>2
<1>a. OthersKeep(t) /\ (\A u \in LockThreads : GuardsNow(u))
  BY Zenon, <1>1, <1>3, OthersKeepGuards
<1>6. WriteGuards' = {<<t, 1>>}
  <2>1. ASSUME NEW u \in LockThreads, NEW i \in 0 .. MaxDepth
        PROVE  <<u, i>> \in WriteGuards' <=> <<u, i>> \in {<<t, 1>>}
    <3>1. CASE u # t
      <4>1. <<u, i>> # <<t, 1>> /\ <<u, i>> # <<t, 0>>
        BY <3>1
      <4> QED BY Zenon, <1>5, <1>a, <3>1, <4>1 DEF OthersKeep
    <3>2. CASE u = t /\ i = 0
      <4>1. <<t, 0>> # <<t, 1>>
        OBVIOUS
      <4> QED BY Zenon, <1>2, <1>a, <3>2, <4>1 DEF GuardsNow
    <3>3. CASE u = t /\ i # 0
      <4>1. i \in 1 .. MaxDepth /\ (i <= 1 <=> i = 1)
        BY <3>3, LockFacts
      <4>2. <<t, i>> \in WriteGuards' <=> i <= Len(held'[t]) /\ held'[t][i] = "write"
        BY Zenon, <1>a, <4>1 DEF GuardsNow
      <4>3. <<t, i>> = <<t, 1>> <=> i = 1
        OBVIOUS
      <4> QED BY <1>3, <3>3, <4>1, <4>2, <4>3
    <3> QED BY <3>1, <3>2, <3>3
  <2>2. /\ WriteGuards' \subseteq LockThreads \X (0 .. MaxDepth)
        /\ {<<t, 1>>} \subseteq LockThreads \X (0 .. MaxDepth)
    BY <1>2, LockFacts DEF WriteGuards
  <2> QED BY <2>1, <2>2, SameWriteGuards
<1>7. Cardinality(WriteGuards) = 1 /\ Cardinality(WriteGuards') = 1
  BY Zenon, <1>5, <1>6, FS_Singleton
<1>8. ReadGuards = {} /\ ReadGuards' = {}
  <2>1. ReadGuards = {}
    BY <1>5 DEF LockInv, CountsGuards
  <2>2. ASSUME NEW u \in LockThreads, NEW i \in 1 .. MaxDepth
        PROVE  <<u, i>> \notin ReadGuards'
    <3>1. /\ u # t => (<<u, i>> \in ReadGuards' <=> <<u, i>> \in ReadGuards)
          /\ <<u, i>> \in ReadGuards' => held'[u][1] = "read"
      BY Zenon, <1>a DEF OthersKeep, GuardsNow
    <3>2. held'[t][1] = "write"
      BY Zenon, <1>3
    <3> QED BY Zenon, <2>1, <3>1, <3>2
  <2>3. ReadGuards' \subseteq LockThreads \X (1 .. MaxDepth)
    BY DEF ReadGuards
  <2> QED BY <2>1, <2>2, <2>3
<1>9. Queued' = Queued \ {t} /\ t \in Queued
  BY <1>1 DEF Queued
<1>10. Cardinality(Queued') = Cardinality(Queued) - 1
  BY Zenon, <1>9, GuardsFinite, FS_RemoveElement
<1>11. GuardsNest'
  <2>1. Nests(t)'
    BY <1>1, <1>2, <1>3 DEF Nests
  <2>2. \A u \in LockThreads \ {t} : Nests(u)'
    BY Zenon, <1>1, <1>3, OthersKeepGuards DEF LockInv, GuardsNest
  <2> QED BY <2>1, <2>2 DEF GuardsNest
<1>12. Trusted'
  <2>1. ASSUME NEW u \in LockThreads, lock_pc'[u] = "sign" PROVE lock_num' = -1
    BY <1>1, <2>1 DEF LockInv, Trusted
  <2>2. ASSUME NEW u \in LockThreads, write_thread_id' = u
        PROVE  \/ lock_pc'[u] = "unsign"
               \/ (\E g \in WriteGuards' : g[1] = u) /\ lock_num' = -Cardinality(WriteGuards')
    <3>1. CASE lock_pc[u] = "unsign"
      BY <1>1, <3>1
    <3>2. CASE (\E g \in WriteGuards : g[1] = u) /\ lock_num = -Cardinality(WriteGuards)
      BY <1>1, <1>5, <1>6, <1>7, <3>2
    <3> QED BY Zenon, <1>1, <2>2, <3>1, <3>2 DEF LockInv, Trusted
  <2> QED BY <2>1, <2>2 DEF Trusted
<1>13. OneWriter'
  BY <1>6 DEF OneWriter
<1>14. CountsGuards'
  BY Zenon, <1>1, <1>5, <1>6, <1>7, <1>8, <1>10 DEF LockInv, CountsGuards
<1> QED BY <1>4, <1>11, <1>12, <1>13, <1>14 DEF LockInv

\* What a guard's destructor does to the sets of guards: the topmost goes.
LEMMA Popping ==
  ASSUME LockInv, NEW t \in LockThreads, NEW g \in {"read", "write"}, Pop(t, g),
         lock_pc[t] = "run", lock_pc'[t] \in {"run", "unsign"}, seen' = seen,
         \A u \in LockThreads \ {t} : lock_pc'[u] = lock_pc[u]
  PROVE  /\ GuardsNest' /\ Len(held[t]) \in 1 .. MaxDepth
         /\ WriteGuards' = WriteGuards \ {<<t, Len(held[t])>>}
         /\ ReadGuards' = ReadGuards \ {<<t, Len(held[t])>>}
<1> DEFINE n == Len(held[t])
<1>1. /\ held' \in [LockThreads -> Seq({"read", "write"})]
      /\ \A u \in LockThreads \ {t} : held'[u] = held[u]
      /\ n \in Nat /\ n > 0 /\ held[t][n] = g
      /\ Len(held'[t]) = n - 1
      /\ \A i \in 1 .. n - 1 : held'[t][i] = held[t][i]
  BY Zenon, Popped
<1>2. n \in 1 .. MaxDepth
  BY <1>1, LockFacts DEF LockInv, GuardsNest, Nests
<1>3. ~Entered(t) /\ ~Entered(t)'
  BY DEF Entered
<1> HIDE DEF n
<1>4. GuardsNest'
  <2>1. ASSUME NEW i \in 1 .. n - 1, held'[t][1] = "read" PROVE held'[t][i] = "read"
    <3>1. 1 \in 1 .. n - 1 /\ i \in 1 .. n
      BY <1>1
    <3>2. held[t][1] = "read"
      BY <1>1, <2>1, <3>1
    <3>3. held[t][i] = "read"
      BY Zenon, <3>1, <3>2 DEF LockInv, GuardsNest, Nests, n
    <3> QED BY <1>1, <3>3
  <2>2. n - 1 <= MaxDepth
    BY <1>2, LockFacts
  <2>3. Nests(t)'
    BY Zenon, <1>1, <1>3, <2>1, <2>2 DEF Nests
  <2>4. \A u \in LockThreads \ {t} : Nests(u)'
    BY Zenon, <1>1, OthersKeepGuards DEF LockInv, GuardsNest
  <2> QED BY <2>3, <2>4 DEF GuardsNest
<1>a. OthersKeep(t) /\ (\A u \in LockThreads : GuardsNow(u))
  BY Zenon, <1>1, OthersKeepGuards
<1>5. WriteGuards' = WriteGuards \ {<<t, n>>}
  <2>1. ASSUME NEW u \in LockThreads, NEW i \in 0 .. MaxDepth
        PROVE  <<u, i>> \in WriteGuards' <=> <<u, i>> \in WriteGuards \ {<<t, n>>}
    <3>1. CASE u # t
      <4>1. <<u, i>> # <<t, n>>
        BY <3>1
      <4> QED BY Zenon, <1>a, <3>1, <4>1 DEF OthersKeep
    <3>2. CASE u = t /\ i = 0
      BY Zenon, <1>3, <1>a, <3>2, GuardsOf DEF GuardsNow
    <3>3. CASE u = t /\ i # 0
      <4>1. i \in 1 .. MaxDepth /\ (i <= n - 1 <=> i <= n /\ i # n)
            /\ (i <= n - 1 => i \in 1 .. n - 1)
        BY <1>2, <3>3, LockFacts
      <4>2. <<t, i>> \in WriteGuards' <=> i <= n - 1 /\ held'[t][i] = "write"
        BY Zenon, <1>1, <1>a, <4>1 DEF GuardsNow
      <4>3. <<t, i>> \in WriteGuards <=> i <= n /\ held[t][i] = "write"
        BY Zenon, <4>1, GuardsOf DEF n
      <4> QED BY Zenon, <1>1, <3>3, <4>1, <4>2, <4>3
    <3> QED BY <3>1, <3>2, <3>3
  <2>2. /\ WriteGuards' \subseteq LockThreads \X (0 .. MaxDepth)
        /\ WriteGuards \ {<<t, n>>} \subseteq LockThreads \X (0 .. MaxDepth)
    BY Zenon DEF WriteGuards
  <2> QED BY <2>1, <2>2, SameWriteGuards
<1>6. ReadGuards' = ReadGuards \ {<<t, n>>}
  <2>1. ASSUME NEW u \in LockThreads, NEW i \in 1 .. MaxDepth
        PROVE  <<u, i>> \in ReadGuards' <=> <<u, i>> \in ReadGuards \ {<<t, n>>}
    <3>1. CASE u # t
      <4>1. <<u, i>> # <<t, n>>
        BY <3>1
      <4> QED BY Zenon, <1>a, <3>1, <4>1 DEF OthersKeep
    <3>2. CASE u = t
      <4>1. /\ i <= n - 1 <=> i <= n /\ i # n
            /\ i <= n - 1 => 1 \in 1 .. n - 1
        BY <1>2, LockFacts
      <4>2. <<t, i>> \in ReadGuards' <=> i <= n - 1 /\ held'[t][1] = "read"
        BY Zenon, <1>1, <1>a DEF GuardsNow
      <4>3. <<t, i>> \in ReadGuards <=> i <= n /\ held[t][1] = "read"
        BY Zenon, GuardsOf DEF n
      <4> QED BY Zenon, <1>1, <3>2, <4>1, <4>2, <4>3
    <3> QED BY <3>1, <3>2
  <2>2. /\ ReadGuards' \subseteq LockThreads \X (1 .. MaxDepth)
        /\ ReadGuards \subseteq LockThreads \X (1 .. MaxDepth)
    BY Zenon DEF ReadGuards
  <2> QED BY <2>1, <2>2
<1> QED BY <1>2, <1>4, <1>5, <1>6 DEF n

\* ReadUnlock: of a reader, or of the writer's nested read guard.
LEMMA ReadUnlocking ==
  ASSUME LockInv, NEW t \in LockThreads, ReadUnlock(t)
  PROVE  LockInv'
<1> DEFINE n == Len(held[t])
<1>1. /\ lock_num' = IF write_thread_id = t THEN lock_num ELSE lock_num - 1
      /\ write_lock_wait_num' = write_lock_wait_num
      /\ write_thread_id' = write_thread_id /\ seen' = seen /\ Pop(t, "read")
      /\ lock_pc[t] = "run" /\ lock_pc' = lock_pc
  BY DEF ReadUnlock, Step, LockInv, LockLocals
<1>2. /\ GuardsNest' /\ n \in 1 .. MaxDepth
      /\ WriteGuards' = WriteGuards \ {<<t, n>>}
      /\ ReadGuards' = ReadGuards \ {<<t, n>>}
  BY Zenon, <1>1, Popping
<1>3. held[t][n] = "read" /\ held' \in [LockThreads -> Seq({"read", "write"})]
  BY Zenon, <1>1, Popped
<1>4. LockLocals'
  BY <1>1, <1>3 DEF LockInv, LockLocals
<1>5. WriteGuards' = WriteGuards
  <2>1. <<t, n>> \notin WriteGuards
    BY Zenon, <1>2, <1>3, GuardsOf
  <2> QED BY <1>2, <2>1
<1>6. Queued' = Queued
  BY <1>1 DEF Queued
<1>7. OneWriter'
  BY <1>5 DEF LockInv, OneWriter
<1>8. ~Entered(t) /\ lock_pc[t] # "unsign"
  BY <1>1 DEF Entered
<1>9. /\ Cardinality(WriteGuards') = Cardinality(WriteGuards)
      /\ Cardinality(Queued') = Cardinality(Queued)
  BY <1>5, <1>6
<1>10. CASE WriteGuards # {}
  <2>1. ReadGuards = {} /\ ReadGuards' = {} /\ lock_num <= -Cardinality(WriteGuards)
    BY <1>2, <1>10 DEF LockInv, CountsGuards
  <2>2. lock_num' <= -Cardinality(WriteGuards')
    BY <1>1, <1>5, <2>1, GuardsFinite DEF LockInv, LockLocals
  <2>3. <<t, 1>> \in WriteGuards
    <3>1. 1 \in 1 .. MaxDepth /\ n \in 1 .. n /\ 1 \in 1 .. n /\ 1 <= n
      BY <1>2, LockFacts
    <3>2. <<t, 1>> \notin ReadGuards
      BY <2>1
    <3>3. held[t][1] # "read"
      BY <3>1, <3>2, GuardsOf
    <3>4. held[t][1] \in {"read", "write"}
      BY <3>1 DEF LockInv, LockLocals
    <3> QED BY Zenon, <3>1, <3>3, <3>4, GuardsOf
  <2>4. \A g \in WriteGuards : g[1] = t
    BY <2>3 DEF LockInv, OneWriter
  <2>5. Trusted'
    <3>1. ASSUME NEW u \in LockThreads, lock_pc'[u] = "sign" PROVE lock_num' = -1
      <4>1. <<u, 0>> \in WriteGuards /\ u # t
        BY Zenon, <1>1, <3>1, GuardsOf DEF Entered
      <4> QED BY <2>4, <4>1
    <3>2. ASSUME NEW u \in LockThreads, write_thread_id' = u
          PROVE  \/ lock_pc'[u] = "unsign"
                 \/ (\E g \in WriteGuards' : g[1] = u) /\ lock_num' = -Cardinality(WriteGuards')
      <4>1. CASE lock_pc[u] = "unsign"
        BY <1>1, <4>1
      <4>2. CASE (\E g \in WriteGuards : g[1] = u) /\ lock_num = -Cardinality(WriteGuards)
        <5>1. u = t
          BY <2>4, <4>2
        <5>2. lock_num' = lock_num
          BY <1>1, <3>2, <5>1
        <5> QED BY <1>5, <4>2, <5>2
      <4> QED BY Zenon, <1>1, <3>2, <4>1, <4>2 DEF LockInv, Trusted
    <3> QED BY <3>1, <3>2 DEF Trusted
  <2>6. CountsGuards'
    BY Zenon, <1>1, <1>5, <1>6, <1>10, <2>1, <2>2 DEF LockInv, CountsGuards
  <2> QED BY <1>2, <1>4, <1>7, <2>5, <2>6 DEF LockInv
<1>11. CASE WriteGuards = {}
  <2>1. held[t][1] = "read"
    <3>1. 1 \in 1 .. MaxDepth /\ n \in 1 .. n /\ 1 \in 1 .. n /\ 1 <= n
      BY <1>2, LockFacts
    <3>2. held[t][1] # "write"
      BY Zenon, <1>11, <3>1, GuardsOf
    <3>3. held[t][1] \in {"read", "write"}
      BY <3>1 DEF LockInv, LockLocals
    <3> QED BY <3>2, <3>3
  <2>2. <<t, n>> \in ReadGuards
    BY <1>2, <2>1, GuardsOf
  <2>3. lock_num = Cardinality(ReadGuards)
    BY <1>11, <2>2 DEF LockInv, CountsGuards
  <2>4. \A u \in LockThreads : write_thread_id = u => lock_pc[u] = "unsign"
    BY <1>11 DEF LockInv, Trusted
  <2>5. lock_num' = lock_num - 1
    BY <1>1, <1>8, <2>4
  <2>6. Cardinality(ReadGuards') = Cardinality(ReadGuards) - 1
    BY Zenon, <1>2, <2>2, GuardsFinite, FS_RemoveElement
  <2>7. lock_num' = Cardinality(ReadGuards')
    BY <2>3, <2>5, <2>6
  <2>8. CountsGuards'
    BY <1>1, <1>5, <1>6, <1>11, <2>7 DEF LockInv, CountsGuards
  <2>9. \A u \in LockThreads : lock_pc'[u] # "sign"
    BY <1>1, <1>11, GuardsOf DEF Entered
  <2>10. Trusted'
    BY <1>1, <2>4, <2>9 DEF Trusted
  <2> QED BY <1>2, <1>4, <1>7, <2>8, <2>10 DEF LockInv
<1> QED BY <1>10, <1>11

\* WriteUnlock: the writer's last guard, or a nested one.
LEMMA WriteUnlocking ==
  ASSUME LockInv, NEW t \in LockThreads, WriteUnlock(t)
  PROVE  LockInv'
<1> DEFINE n == Len(held[t])
<1>1. /\ lock_num' = lock_num + 1
      /\ write_lock_wait_num' = write_lock_wait_num
      /\ write_thread_id' = write_thread_id /\ seen' = seen /\ Pop(t, "write")
      /\ lock_pc[t] = "run"
      /\ lock_pc'[t] = IF lock_num = -1 THEN "unsign" ELSE "run"
      /\ lock_pc' \in [LockThreads -> LockPCs]
      /\ \A u \in LockThreads \ {t} : lock_pc'[u] = lock_pc[u]
  BY DEF WriteUnlock, Step, WRITE_EXCLUSIVE, LockInv,
     LockLocals, LockPCs
<1>2. /\ GuardsNest' /\ n \in 1 .. MaxDepth
      /\ WriteGuards' = WriteGuards \ {<<t, n>>}
      /\ ReadGuards' = ReadGuards \ {<<t, n>>}
  BY Zenon, <1>1, Popping
<1>3. held[t][n] = "write" /\ held' \in [LockThreads -> Seq({"read", "write"})]
  BY Zenon, <1>1, Popped
<1>4. LockLocals'
  BY <1>1, <1>3 DEF LockInv, LockLocals
<1>5. <<t, n>> \in WriteGuards
  BY <1>2, <1>3, GuardsOf
<1>6. Queued' = Queued
  BY <1>1 DEF Queued
<1>7. OneWriter' /\ \A g \in WriteGuards : g[1] = t
  BY <1>2, <1>5 DEF LockInv, OneWriter
<1>8. ReadGuards' = {} /\ lock_num <= -Cardinality(WriteGuards)
  BY <1>2, <1>5 DEF LockInv, CountsGuards
<1>9. /\ Cardinality(WriteGuards') = Cardinality(WriteGuards) - 1
      /\ Cardinality(WriteGuards) \in Nat
  BY Zenon, <1>2, <1>5, GuardsFinite, FS_RemoveElement
<1>10. Cardinality({}) = 0
  BY FS_EmptySet
<1>11. lock_num' <= -Cardinality(WriteGuards') /\ lock_num' \in Int
  BY <1>1, <1>8, <1>9 DEF LockInv, LockLocals
<1>12. CountsGuards'
  <2>1. CASE WriteGuards' = {}
    <3>1. lock_num' <= 0
      BY <1>10, <1>11, <2>1
    <3>2. lock_num' = Cardinality(ReadGuards') \/ lock_num' < 0
      BY <1>8, <1>10, <1>11, <3>1
    <3> QED BY Zenon, <1>1, <1>6, <1>8, <2>1, <3>2 DEF LockInv, CountsGuards
  <2>2. CASE WriteGuards' # {}
    BY Zenon, <1>1, <1>6, <1>8, <1>11, <2>2 DEF LockInv, CountsGuards
  <2> QED BY <2>1, <2>2
<1>13. Trusted'
  <2>1. ASSUME NEW u \in LockThreads, lock_pc'[u] = "sign" PROVE lock_num' = -1
    <3>1. u # t
      BY <1>1, <2>1
    <3>2. <<u, 0>> \in WriteGuards
      BY <1>1, <2>1, <3>1, GuardsOf DEF Entered
    <3> QED BY <1>7, <3>1, <3>2
  <2>2. ASSUME NEW u \in LockThreads, write_thread_id' = u
        PROVE  \/ lock_pc'[u] = "unsign"
               \/ (\E g \in WriteGuards' : g[1] = u) /\ lock_num' = -Cardinality(WriteGuards')
    <3>1. CASE lock_pc[u] = "unsign"
      BY <1>1, <3>1
    <3>2. CASE (\E g \in WriteGuards : g[1] = u) /\ lock_num = -Cardinality(WriteGuards)
      <4>1. u = t
        BY <1>7, <3>2
      <4>2. CASE lock_num = -1
        BY <1>1, <4>1, <4>2
      <4>3. CASE lock_num # -1
        <5>1. Cardinality(WriteGuards') # 0 /\ lock_num' = -Cardinality(WriteGuards')
          <6>1. lock_num' = lock_num + 1
            BY Zenon, <1>1
          <6> QED BY <1>9, <3>2, <4>3, <6>1
        <5>2. WriteGuards' # {}
          BY <1>10, <5>1
        <5> QED BY <1>2, <1>7, <4>1, <5>1, <5>2
      <4> QED BY <4>2, <4>3
    <3> QED BY Zenon, <1>1, <2>2, <3>1, <3>2 DEF LockInv, Trusted
  <2> QED BY <2>1, <2>2 DEF Trusted
<1> QED BY <1>2, <1>4, <1>7, <1>12, <1>13 DEF LockInv

\* The guards counted are those of the writer and of the readers.
LEMMA GuardsAreHeld ==
  ASSUME LockInv
  PROVE  /\ \A t \in LockThreads : t \in Writers <=> \E g \in WriteGuards : g[1] = t
         /\ Readers # {} => ReadGuards # {}
<1>1. ASSUME NEW t \in LockThreads, t \in Writers PROVE \E g \in WriteGuards : g[1] = t
  <2>1. CASE Entered(t)
    <3>1. <<t, 0>> \in WriteGuards
      BY <2>1, GuardsOf
    <3> QED BY <3>1
  <2>2. CASE held[t] # <<>> /\ held[t][1] = "write"
    <3>1. 1 \in 1 .. MaxDepth /\ 1 <= Len(held[t])
      BY <2>2, Stack, LockFacts
    <3>2. <<t, 1>> \in WriteGuards
      BY <2>2, <3>1, GuardsOf
    <3> QED BY <3>2
  <2> QED BY <1>1, <2>1, <2>2 DEF Writers, Entered
<1>2. ASSUME NEW t \in LockThreads, NEW g \in WriteGuards, g[1] = t PROVE t \in Writers
  <2>1. PICK i \in 0 .. MaxDepth : g = <<t, i>>
    BY <1>2, GuardsOf
  <2>2. CASE i = 0
    BY <2>1, <2>2, GuardsOf DEF Writers, Entered
  <2>3. CASE i # 0
    <3>1. i \in 1 .. MaxDepth
      BY <2>3, LockFacts
    <3>2. i <= Len(held[t]) /\ held[t][i] = "write"
      BY <2>1, <3>1, GuardsOf
    <3>3. i \in 1 .. Len(held[t]) /\ 1 \in 1 .. Len(held[t])
      BY <3>1, <3>2, Stack, LockFacts
    <3>4. held[t][1] # "read"
      BY <3>2, <3>3 DEF LockInv, GuardsNest, Nests
    <3>5. held[t][1] \in {"read", "write"} /\ held[t] # <<>>
      BY <3>3, Stack DEF LockInv, LockLocals
    <3> QED BY <3>4, <3>5 DEF Writers
  <2> QED BY <2>2, <2>3
<1>3. ASSUME NEW t \in Readers PROVE ReadGuards # {}
  <2>1. t \in LockThreads /\ held[t] # <<>> /\ held[t][1] = "read"
    BY DEF Readers
  <2>2. 1 \in 1 .. MaxDepth /\ 1 <= Len(held[t])
    BY <2>1, Stack, LockFacts
  <2>3. <<t, 1>> \in ReadGuards
    BY <2>1, <2>2, GuardsOf
  <2> QED BY <2>3
<1> QED BY <1>1, <1>2, <1>3

\* Every step preserves the invariant.
LEMMA LockStep == LockInv /\ [LockNext]_lockVars => LockInv'
<1> SUFFICES ASSUME LockInv, [LockNext]_lockVars PROVE LockInv'
  OBVIOUS
<1>1. CASE UNCHANGED lockVars
  <2>1. /\ WriteGuards' = WriteGuards /\ ReadGuards' = ReadGuards /\ Queued' = Queued
        /\ LockLocals' /\ GuardsNest'
    BY Zenon, <1>1 DEF lockVars, counters, WriteGuards, ReadGuards, Queued,
       LockInv, LockLocals, GuardsNest,
                Nests, Entered
  <2> QED BY Zenon, <1>1, <2>1 DEF lockVars, counters, LockInv, OneWriter,
             CountsGuards, Trusted
<1>2. CASE LockNext
  <2>1. PICK t \in LockThreads :
          \/ StartRead(t) \/ StartWrite(t)
          \/ ReadStep(t) \/ EnterRead(t) \/ WriteStep(t) \/ Unlock(t)
    BY <1>2 DEF LockNext
  <2> QED BY Zenon, <2>1, Quiet, TakingAgain, Entering, Arriving, Excluding, Signing,
             Leaving,
             Unsigning,
             ReadUnlocking, WriteUnlocking DEF ReadStep, WriteStep,
             Unlock
<1> QED BY <1>1, <1>2

\* For any finite set of threads and any depth of nesting: a writer is alone with
\* all its guards, although WriteUnlock erases write_thread_id_ only after it has
\* freed the lock, and nobody passes for the writer who is not.
THEOREM WriterIsAlone == LockSpec => []WriterAlone
<1>1. ASSUME LockInv PROVE WriterAlone
  <2>1. LockTypeOK
    BY Zenon, <1>1, GuardsFinite DEF LockInv, LockLocals, GuardsNest, Nests, CountsGuards,
       LockTypeOK
  <2>2. Exclusion
    <3> SUFFICES ASSUME NEW t \in Writers
                 PROVE  Writers = {t} /\ Readers = {}
      BY DEF Exclusion
    <3>1. t \in LockThreads /\ Writers \subseteq LockThreads
      BY DEF Writers
    <3>2. \E g \in WriteGuards : g[1] = t
      BY <1>1, <3>1, GuardsAreHeld
    <3>3. \A u \in Writers : u = t
      BY <1>1, <3>1, <3>2, GuardsAreHeld DEF LockInv, OneWriter
    <3>4. Readers = {}
      BY <1>1, <3>2, GuardsAreHeld DEF LockInv, CountsGuards
    <3> QED BY <3>3, <3>4
  <2>3. OnlyWriterIsTrusted
    BY <1>1, GuardsAreHeld DEF OnlyWriterIsTrusted, LockInv, Trusted
  <2> QED BY <2>1, <2>2, <2>3 DEF WriterAlone
<1> QED BY <1>1, LockBegins, LockStep, PTL DEF LockSpec

-----------------------------------------------------------------------------
(***************************************************************************)
(* AtomicRWLock.  Its guards do not nest, so a thread is a reader or an    *)
(* owner by its place in the code alone.                                   *)
(***************************************************************************)
CONSTANT AtomicWriteFirst
VARIABLES rw_num, rw_wait_num, rw_pc, rw_seen

Atomic == INSTANCE AtomicRWLock WITH
  Threads <- LockThreads, WriteFirst <- AtomicWriteFirst, lock_num <- rw_num,
  write_lock_wait_num <- rw_wait_num, pc <- rw_pc, seen <- rw_seen

ASSUME AtomicAssumption == Atomic!LockAssumption

\* The guards of AtomicRWLock: a write guard is alone, and the two counters are
\* what the guards and the waiting writers make of them.
LockIsSafe ==
  Atomic!TypeOK /\ Atomic!Exclusion /\ Atomic!CountsHolders /\ Atomic!CountsQueue

\* the two counters, in terms of the threads' places in the code
CountsHolders ==
  rw_num = IF Atomic!Owners # {} THEN -1 ELSE Cardinality(Atomic!Readers)
CountsQueue == rw_wait_num = Cardinality(Atomic!Queued)

\* The counters are stated with this module's notion of Cardinality.
LEMMA SameCounts ==
  (CountsHolders => Atomic!CountsHolders) /\ (CountsQueue => Atomic!CountsQueue)
BY DEF CountsHolders, Atomic!CountsHolders, CountsQueue, Atomic!CountsQueue,
   Cardinality, Atomic!Cardinality,
   Atomic!WRITE_EXCLUSIVE, IsFiniteSet, Atomic!IsFiniteSet

\* The threads are finite in number.
LEMMA FiniteLockThreads == IsFiniteSet(LockThreads)
BY AtomicAssumption DEF Atomic!LockAssumption, Atomic!IsFiniteSet, IsFiniteSet

\* a reader reaches its CAS only with a copy that is not negative
SeenFree ==
  \A t \in LockThreads : rw_pc[t] = "enter" => rw_seen[t] >= Atomic!RW_LOCK_FREE

\* one owner, and no reader beside it
OneOwner == \A t, u \in Atomic!Owners : t = u
NoReaderWithOwner == Atomic!Owners = {} \/ Atomic!Readers = {}

\* the types of the counters and of the threads' locals
HolderLocals ==
  /\ rw_num \in Int
  /\ rw_wait_num \in Int
  /\ rw_pc \in [LockThreads -> Atomic!PCs]
  /\ rw_seen \in [LockThreads -> Int]

\* the inductive invariant of AtomicRWLock
HolderInv ==
  /\ HolderLocals /\ SeenFree /\ OneOwner /\ NoReaderWithOwner
  /\ CountsHolders /\ CountsQueue

USE DEF Atomic!RW_LOCK_FREE, Atomic!WRITE_EXCLUSIVE, Atomic!PCs

\* The sets of readers, owners and queued writers are finite.
LEMMA FiniteHolders ==
  /\ IsFiniteSet(Atomic!Readers) /\ IsFiniteSet(Atomic!Owners) /\ IsFiniteSet(Atomic!Queued)
  /\ Cardinality(Atomic!Readers) \in Nat /\ Cardinality(Atomic!Queued) \in Nat
  /\ Cardinality(Atomic!Readers) = 0 <=> Atomic!Readers = {}
  /\ Cardinality(Atomic!Queued) = 0 <=> Atomic!Queued = {}
<1>1. /\ Atomic!Readers \subseteq LockThreads
      /\ Atomic!Owners \subseteq LockThreads
      /\ Atomic!Queued \subseteq LockThreads
  BY DEF Atomic!Readers, Atomic!Owners, Atomic!Queued
<1>2. /\ IsFiniteSet(Atomic!Readers) /\ IsFiniteSet(Atomic!Owners)
      /\ IsFiniteSet(Atomic!Queued)
  BY <1>1, FiniteLockThreads, FS_Subset
<1> QED BY <1>2, FS_CardinalityType, FS_EmptySet

\* A free lock satisfies the invariant.
LEMMA InitHolders == Atomic!Init => HolderInv
<1> SUFFICES ASSUME Atomic!Init PROVE HolderInv
  OBVIOUS
<1>1. Atomic!Readers = {} /\ Atomic!Owners = {} /\ Atomic!Queued = {}
  BY DEF Atomic!Init, Atomic!Readers, Atomic!Owners, Atomic!Queued
<1>2. Cardinality({}) = 0
  BY FS_EmptySet
<1> QED BY <1>1, <1>2 DEF Atomic!Init, HolderInv, HolderLocals, SeenFree, OneOwner,
           NoReaderWithOwner, CountsHolders, CountsQueue

\* Steps of ReadLock and WriteLock before they take effect.
LEMMA AsksFirst ==
  ASSUME HolderInv, NEW t \in LockThreads,
         \/ Atomic!StartRead(t) \/ Atomic!StartWrite(t) \/ Atomic!LoadNum(t)
         \/ Atomic!TestNum(t) \/ Atomic!RetryRead(t)
  PROVE  HolderInv'
<1>1. HolderLocals'
  BY Zenon DEF HolderInv, HolderLocals, Atomic!StartRead, Atomic!StartWrite, Atomic!LoadNum,
     Atomic!TestNum, Atomic!RetryRead, Atomic!Goto
<1>2. /\ rw_num' = rw_num /\ rw_wait_num' = rw_wait_num
      /\ rw_pc[t] \in {"out", "load", "test", "enter"}
      /\ rw_pc'[t] \in {"load", "arrive", "test", "enter"}
      /\ \A u \in LockThreads \ {t} : rw_pc'[u] = rw_pc[u] /\ rw_seen'[u] = rw_seen[u]
  BY Zenon DEF HolderInv, HolderLocals, Atomic!StartRead, Atomic!StartWrite, Atomic!LoadNum,
     Atomic!TestNum, Atomic!RetryRead, Atomic!Goto
<1>3. /\ Atomic!Readers' = Atomic!Readers /\ Atomic!Owners' = Atomic!Owners
      /\ Atomic!Queued' = Atomic!Queued
  BY <1>2 DEF Atomic!Readers, Atomic!Owners, Atomic!Queued
<1>4. rw_pc'[t] = "enter" => rw_seen'[t] >= 0
  BY DEF HolderInv, HolderLocals, Atomic!StartRead, Atomic!StartWrite, Atomic!LoadNum,
     Atomic!TestNum, Atomic!RetryRead, Atomic!Goto, Atomic!MustWait
<1>5. SeenFree'
  BY <1>2, <1>4 DEF HolderInv, SeenFree
<1> QED BY <1>1, <1>2, <1>3, <1>5
        DEF HolderInv, OneOwner, NoReaderWithOwner, CountsHolders, CountsQueue

\* A reader enters only when nobody owns the lock, and is counted.
LEMMA ReaderEnters ==
  ASSUME HolderInv, NEW t \in LockThreads, Atomic!EnterRead(t)
  PROVE  HolderInv'
<1>1. /\ rw_pc[t] = "enter" /\ rw_num = rw_seen[t] /\ rw_num' = rw_num + 1
      /\ rw_wait_num' = rw_wait_num /\ rw_pc'[t] = "reading"
      /\ \A u \in LockThreads \ {t} : rw_pc'[u] = rw_pc[u] /\ rw_seen'[u] = rw_seen[u]
  BY DEF Atomic!EnterRead, Atomic!Goto, HolderInv, HolderLocals
<1>2. HolderLocals'
  BY DEF Atomic!EnterRead, Atomic!Goto, HolderInv, HolderLocals
<1>3. rw_num >= 0 /\ rw_num \in Int
  BY <1>1 DEF HolderInv, SeenFree, HolderLocals
<1>4. Atomic!Owners = {} /\ rw_num = Cardinality(Atomic!Readers)
  BY <1>3 DEF HolderInv, CountsHolders
<1>5. /\ Atomic!Owners' = {} /\ Atomic!Queued' = Atomic!Queued
      /\ Atomic!Readers' = Atomic!Readers \cup {t} /\ t \notin Atomic!Readers
  BY <1>1, <1>4 DEF Atomic!Owners, Atomic!Queued, Atomic!Readers
<1>6. Cardinality(Atomic!Readers') = Cardinality(Atomic!Readers) + 1
  BY Zenon, <1>5, FiniteHolders, FS_AddElement
<1>7. SeenFree'
  BY <1>1 DEF HolderInv, SeenFree
<1> QED BY Zenon, <1>1, <1>2, <1>4, <1>5, <1>6, <1>7
        DEF HolderInv, OneOwner, NoReaderWithOwner, CountsHolders, CountsQueue

\* A reader leaves.
LEMMA ReaderLeaves ==
  ASSUME HolderInv, NEW t \in LockThreads, Atomic!ReadUnlock(t)
  PROVE  HolderInv'
<1>1. /\ rw_pc[t] = "reading" /\ rw_num' = rw_num - 1 /\ rw_pc'[t] = "out"
      /\ rw_wait_num' = rw_wait_num /\ rw_seen' = rw_seen
      /\ \A u \in LockThreads \ {t} : rw_pc'[u] = rw_pc[u]
  BY DEF Atomic!ReadUnlock, Atomic!Goto, HolderInv, HolderLocals
<1>2. HolderLocals'
  BY DEF Atomic!ReadUnlock, Atomic!Goto, HolderInv, HolderLocals
<1>3. t \in Atomic!Readers /\ Atomic!Owners = {}
  BY <1>1 DEF Atomic!Readers, HolderInv, NoReaderWithOwner
<1>4. /\ Atomic!Owners' = {} /\ Atomic!Queued' = Atomic!Queued
      /\ Atomic!Readers' = Atomic!Readers \ {t}
  BY <1>1, <1>3 DEF Atomic!Owners, Atomic!Queued, Atomic!Readers
<1>5. Cardinality(Atomic!Readers') = Cardinality(Atomic!Readers) - 1
  BY Zenon, <1>3, <1>4, FiniteHolders, FS_RemoveElement
<1>6. SeenFree'
  BY <1>1 DEF HolderInv, SeenFree
<1> QED BY <1>1, <1>2, <1>3, <1>4, <1>5, <1>6
        DEF HolderInv, OneOwner, NoReaderWithOwner, CountsHolders, CountsQueue

\* A writer arrives.
LEMMA WriterArrives ==
  ASSUME HolderInv, NEW t \in LockThreads, Atomic!Arrive(t)
  PROVE  HolderInv'
<1>1. /\ rw_pc[t] = "arrive" /\ rw_pc'[t] = "exclude" /\ rw_num' = rw_num /\ rw_seen' = rw_seen
      /\ rw_wait_num' = rw_wait_num + 1
      /\ \A u \in LockThreads \ {t} : rw_pc'[u] = rw_pc[u]
  BY DEF Atomic!Arrive, Atomic!Goto, HolderInv, HolderLocals
<1>2. HolderLocals'
  BY DEF Atomic!Arrive, Atomic!Goto, HolderInv, HolderLocals
<1>3. /\ Atomic!Owners' = Atomic!Owners /\ Atomic!Readers' = Atomic!Readers
      /\ Atomic!Queued' = Atomic!Queued \cup {t} /\ t \notin Atomic!Queued
  BY <1>1 DEF Atomic!Owners, Atomic!Queued, Atomic!Readers
<1>4. Cardinality(Atomic!Queued') = Cardinality(Atomic!Queued) + 1
  BY Zenon, <1>3, FiniteHolders, FS_AddElement
<1>5. SeenFree'
  BY <1>1 DEF HolderInv, SeenFree
<1> QED BY <1>1, <1>2, <1>3, <1>4, <1>5
        DEF HolderInv, OneOwner, NoReaderWithOwner, CountsHolders, CountsQueue

\* A writer takes the free lock.
LEMMA WriterEnters ==
  ASSUME HolderInv, NEW t \in LockThreads, Atomic!Exclude(t)
  PROVE  HolderInv'
<1>1. /\ rw_pc[t] = "exclude" /\ rw_pc'[t] = "leave" /\ rw_num = 0 /\ rw_num' = -1
      /\ rw_seen' = rw_seen /\ rw_wait_num' = rw_wait_num
      /\ \A u \in LockThreads \ {t} : rw_pc'[u] = rw_pc[u]
  BY DEF Atomic!Exclude, Atomic!Goto, HolderInv, HolderLocals
<1>2. HolderLocals'
  BY DEF Atomic!Exclude, Atomic!Goto, HolderInv, HolderLocals
<1>3. Atomic!Owners = {} /\ Cardinality(Atomic!Readers) = 0
  BY <1>1 DEF HolderInv, CountsHolders
<1>4. Atomic!Readers = {}
  BY <1>3, FiniteHolders
<1>5. Atomic!Owners' = {t} /\ Atomic!Readers' = {} /\ Atomic!Queued' = Atomic!Queued
  BY <1>1, <1>3, <1>4 DEF Atomic!Owners, Atomic!Queued, Atomic!Readers
<1>6. SeenFree'
  BY <1>1 DEF HolderInv, SeenFree
<1> QED BY <1>1, <1>2, <1>5, <1>6
        DEF HolderInv, OneOwner, NoReaderWithOwner, CountsHolders, CountsQueue

\* The owner is no longer counted as waiting.
LEMMA WriterLeavesQueue ==
  ASSUME HolderInv, NEW t \in LockThreads, Atomic!LeaveQueue(t)
  PROVE  HolderInv'
<1>1. /\ rw_pc[t] = "leave" /\ rw_pc'[t] = "writing" /\ rw_num' = rw_num /\ rw_seen' = rw_seen
      /\ rw_wait_num' = rw_wait_num - 1
      /\ \A u \in LockThreads \ {t} : rw_pc'[u] = rw_pc[u]
  BY DEF Atomic!LeaveQueue, Atomic!Goto, HolderInv, HolderLocals
<1>2. HolderLocals'
  BY DEF Atomic!LeaveQueue, Atomic!Goto, HolderInv, HolderLocals
<1>3. /\ Atomic!Owners' = Atomic!Owners /\ Atomic!Readers' = Atomic!Readers
      /\ Atomic!Queued' = Atomic!Queued \ {t} /\ t \in Atomic!Queued
  BY <1>1 DEF Atomic!Owners, Atomic!Queued, Atomic!Readers
<1>4. Cardinality(Atomic!Queued') = Cardinality(Atomic!Queued) - 1
  BY Zenon, <1>3, FiniteHolders, FS_RemoveElement
<1>5. SeenFree'
  BY <1>1 DEF HolderInv, SeenFree
<1> QED BY <1>1, <1>2, <1>3, <1>4, <1>5
        DEF HolderInv, OneOwner, NoReaderWithOwner, CountsHolders, CountsQueue

\* The owner leaves the lock free.
LEMMA WriterLeaves ==
  ASSUME HolderInv, NEW t \in LockThreads, Atomic!WriteUnlock(t)
  PROVE  HolderInv'
<1>1. /\ rw_pc[t] = "writing" /\ rw_pc'[t] = "out" /\ rw_num' = rw_num + 1
      /\ rw_seen' = rw_seen /\ rw_wait_num' = rw_wait_num
      /\ \A u \in LockThreads \ {t} : rw_pc'[u] = rw_pc[u]
  BY DEF Atomic!WriteUnlock, Atomic!Goto, HolderInv, HolderLocals
<1>2. HolderLocals'
  BY DEF Atomic!WriteUnlock, Atomic!Goto, HolderInv, HolderLocals
<1>3. t \in Atomic!Owners
  BY <1>1 DEF Atomic!Owners
<1>4. Atomic!Owners = {t} /\ Atomic!Readers = {} /\ rw_num = -1
  BY <1>3 DEF HolderInv, OneOwner, NoReaderWithOwner, CountsHolders
<1>5. Atomic!Owners' = {} /\ Atomic!Readers' = {} /\ Atomic!Queued' = Atomic!Queued
  BY <1>1, <1>4 DEF Atomic!Owners, Atomic!Queued, Atomic!Readers
<1>6. SeenFree'
  BY <1>1 DEF HolderInv, SeenFree
<1>7. Cardinality(Atomic!Readers') = 0
  BY <1>5, FS_EmptySet
<1> QED BY <1>1, <1>2, <1>4, <1>5, <1>6, <1>7
        DEF HolderInv, OneOwner, NoReaderWithOwner, CountsHolders, CountsQueue

\* Every step preserves the invariant.
LEMMA NextHolders == HolderInv /\ [Atomic!Next]_(Atomic!vars) => HolderInv'
<1> SUFFICES ASSUME HolderInv, [Atomic!Next]_(Atomic!vars) PROVE HolderInv'
  OBVIOUS
<1>1. CASE UNCHANGED Atomic!vars
  BY Zenon, <1>1 DEF Atomic!vars, HolderInv, HolderLocals, SeenFree, OneOwner,
     NoReaderWithOwner,
     CountsHolders, CountsQueue, Atomic!Owners, Atomic!Readers, Atomic!Queued
<1>2. ASSUME NEW t \in LockThreads,
             Atomic!StartRead(t) \/ Atomic!StartWrite(t) \/ Atomic!ReadStep(t) \/ Atomic!WriteStep(t)
      PROVE  HolderInv'
  BY Zenon, <1>2, AsksFirst, ReaderEnters, ReaderLeaves, WriterArrives, WriterEnters,
     WriterLeavesQueue,
     WriterLeaves DEF Atomic!ReadStep, Atomic!WriteStep
<1> QED BY <1>1, <1>2 DEF Atomic!Next

\* The invariant holds in every reachable state of the lock.
THEOREM Holders == Atomic!Spec => []HolderInv
  BY InitHolders, NextHolders, PTL DEF Atomic!Spec

\* For any finite set of threads: a write guard excludes every other guard,
\* lock_num_ counts the guards that are alive and never drops below
\* WRITE_EXCLUSIVE, and write_lock_wait_num_ counts the writers that are
\* queued and never wraps.
THEOREM AtomicLockIsSafe == Atomic!Spec => []LockIsSafe
<1>1. HolderInv => Atomic!TypeOK
  BY FiniteHolders DEF HolderInv, HolderLocals, CountsHolders, CountsQueue,
     Atomic!TypeOK
<1>2. HolderInv => Atomic!Exclusion
  BY DEF HolderInv, OneOwner, NoReaderWithOwner, Atomic!Exclusion
<1>3. HolderInv => CountsHolders /\ CountsQueue
  BY DEF HolderInv
<1> QED BY <1>1, <1>2, <1>3, SameCounts, Holders, PTL DEF LockIsSafe
=============================================================================
