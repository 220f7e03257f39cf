------------------------- MODULE BoundedQueueProofs -------------------------
(***************************************************************************)
(* Proofs about BoundedQueue, for every size and any number of threads.    *)
(***************************************************************************)
EXTENDS BoundedQueue, SequenceTheorems, TLAPS

-----------------------------------------------------------------------------
(***************************************************************************)
(* Arithmetic of the ring.                                                 *)
(***************************************************************************)

\* A multiple of P strictly between -P and P is zero.
LEMMA SmallMultiple ==
  ASSUME NEW P \in Nat, P > 0, NEW k \in Int, -P < k * P, k * P < P
  PROVE  k = 0
<1>1. CASE k >= 1
  <2>1. k * P >= P
    BY <1>1, Z3
  <2> QED BY <2>1
<1>2. CASE k <= -1
  <2>1. k * P <= -P
    BY <1>2, Z3
  <2> QED BY <2>1
<1> QED BY <1>1, <1>2

\* GetIndex maps a ticket to a slot of pool_.
LEMMA IndexInRing ==
  ASSUME NEW n \in Nat
  PROVE  GetIndex(n) \in Slots
<1> DEFINE P == pool_size
           d == n \div P
<1>1. P \in Nat /\ P > 0
  BY SizeAssumption DEF pool_size
<1>2. d \in Int /\ d * P <= n /\ n < d * P + P
  BY <1>1, Z3
<1>3. d * P \in Int
  BY <1>1, <1>2
<1> HIDE DEF d
<1>4. n - d * P \in Int /\ 0 <= n - d * P /\ n - d * P <= P - 1
  BY <1>1, <1>2, <1>3
<1> QED BY <1>1, <1>4 DEF GetIndex, Slots, d

\* Two tickets less than a lap apart share a slot only if they are the same.
LEMMA IndexApart ==
  ASSUME NEW i \in Nat, NEW j \in Nat, i - j < pool_size, j - i < pool_size,
         GetIndex(i) = GetIndex(j)
  PROVE  i = j
<1> DEFINE P == pool_size
           a == i \div P
           b == j \div P
<1>1. P \in Nat /\ P > 0
  BY SizeAssumption DEF pool_size
<1>2. a \in Int /\ b \in Int
  BY <1>1
<1>3. i - a * P = j - b * P
  BY DEF GetIndex
<1> HIDE DEF P, a, b
<1>4. i - j = (a - b) * P
  BY <1>1, <1>2, <1>3, Z3
<1>5. -P < (a - b) * P /\ (a - b) * P < P
  BY <1>1, <1>2, <1>4 DEF P
<1>6. a - b = 0
  BY <1>1, <1>2, <1>5, SmallMultiple
<1> QED BY <1>1, <1>2, <1>4, <1>6

\* A ticket one lap later has the same slot.
LEMMA IndexLap ==
  ASSUME NEW n \in Nat
  PROVE  GetIndex(n + pool_size) = GetIndex(n)
<1> DEFINE P == pool_size
           a == (n + P) \div P
           b == n \div P
<1>1. P \in Nat /\ P > 0
  BY SizeAssumption DEF pool_size
<1>2. a \in Int /\ a * P <= n + P /\ n + P < a * P + P
  BY <1>1, Z3
<1>3. b \in Int /\ b * P <= n /\ n < b * P + P
  BY <1>1, Z3
<1> HIDE DEF P, a, b
<1>4. (a - b - 1) * P = a * P - b * P - P
  BY <1>1, <1>2, <1>3, Z3
<1>5. -P < (a - b - 1) * P /\ (a - b - 1) * P < P
  BY <1>1, <1>2, <1>3, <1>4
<1>6. a - b - 1 = 0
  BY <1>1, <1>2, <1>3, <1>5, SmallMultiple
<1>7. a * P - b * P = P
  BY <1>1, <1>2, <1>3, <1>4, <1>6
<1>8. n + P - a * P = n - b * P
  BY <1>1, <1>2, <1>3, <1>7
<1>9. GetIndex(n + P) = n + P - a * P
  BY <1>1 DEF GetIndex, P, a
<1>10. GetIndex(n) = n - b * P
  BY <1>1 DEF GetIndex, P, b
<1>11. GetIndex(n + P) = GetIndex(n)
  BY <1>8, <1>9, <1>10
<1> QED BY <1>11 DEF P

-----------------------------------------------------------------------------
(***************************************************************************)
(* The inductive invariant.                                                *)
(***************************************************************************)
Histories ==
  /\ Len(claimed) = tail - 1
  /\ Len(taken) = head
  /\ \A i \in 1 .. head : taken[i] = claimed[i]

\* the steps of Enqueue belong to an Enqueue call, whose element is a value
EnqueuePCs == {"load_tail", "full", "claim", "write", "writing", "commit", "notify"}
DequeuePCs == {"load_head", "empty", "copy", "take"}
Caller(t) ==
  /\ pc[t] \in EnqueuePCs => call[t].op = "Enqueue"
  /\ pc[t] \in DequeuePCs => call[t].op = "Dequeue"
  /\ pc[t] # "idle" /\ call[t].op = "Enqueue" => elem[t] \in Values

Callers == \A t \in Threads : Caller(t)

\* an enqueuer's copy of tail_ is not ahead of it, and if it is current after
\* the full test then there is room
Claimant(t) ==
  /\ pc[t] \in {"full", "claim"} => old[t] <= tail
  /\ pc[t] = "claim" /\ old[t] = tail => SizeOf < Size

Claimants == \A t \in Threads : Claimant(t)

\* a claimed ticket that is not committed belongs to one writer
Tickets ==
  \A t \in Threads : Writing(t) =>
    commit <= old[t] /\ old[t] < tail /\ claimed[old[t]] = elem[t]

TicketsApart ==
  \A t, u \in Threads : Writing(t) /\ Writing(u) /\ old[t] = old[u] => t = u

\* a written slot keeps its element until the ticket is taken
Filled ==
  \A t \in Threads : pc[t] = "commit" => pool[GetIndex(old[t])] = elem[t]

Committed ==
  \A i \in head + 1 .. commit - 1 : pool[GetIndex(i)] = claimed[i]

\* a dequeuer's copy of head_ is not ahead of it, and if it is current when
\* the CAS comes then the element it copied is the next one
Taker(t) ==
  /\ pc[t] \in {"empty", "copy", "take"} => old[t] <= head
  /\ pc[t] \in {"copy", "take"} => old[t] + 1 < commit
  /\ pc[t] = "take" /\ old[t] = head => elem[t] = claimed[head + 1]

Takers == \A t \in Threads : Taker(t)

IInv ==
  /\ TypeOK /\ WithinRing /\ Histories /\ Callers /\ Claimants
  /\ Tickets /\ TicketsApart /\ Filled /\ Committed /\ Takers

\* Append seen through lengths and positions.
LEMMA AppendAt ==
  ASSUME NEW S, NEW s \in Seq(S), NEW e \in S, NEW n \in Nat, Len(s) = n
  PROVE  /\ Append(s, e) \in Seq(S)
         /\ Len(Append(s, e)) = n + 1
         /\ Append(s, e)[n + 1] = e
         /\ \A i \in 1 .. n : Append(s, e)[i] = s[i]
  BY AppendProperties

\* The definitions that type the locals of a thread.
USE SizeAssumption, JunkAssumption DEF Elements, Calls, NoCall, PCs, EnqueuePCs, DequeuePCs,
    Goto, Forget, Return, Writing, SizeOf, shared, locals
USE DEF Caller, Claimant, Taker

\* A queue after Init satisfies the invariant.
LEMMA InitIInv == Init => IInv
  BY DEF Init, IInv, TypeOK, WithinRing, Histories, Callers, Claimants, Tickets,
     TicketsApart, Filled, Committed, Takers, Slots, pool_size

-----------------------------------------------------------------------------
(***************************************************************************)
(* Steps that leave the ring and its counters alone.  The invariant relates *)
(* each thread to the ring, so it is enough to look at the threads T that  *)
(* move, none of which is a writer afterwards.                             *)
(***************************************************************************)
LocalTypes ==
  /\ break \in {"no", "set", "notified"}
  /\ pc \in [Threads -> PCs]
  /\ call \in [Threads -> Calls]
  /\ elem \in [Threads -> Elements]
  /\ old \in [Threads -> Nat]

Local(t) == ~Writing(t) /\ Caller(t) /\ Claimant(t) /\ Taker(t)

\* Frame rule for steps on the locals of the threads T.
LEMMA Frame ==
  ASSUME IInv, NEW T \in SUBSET Threads, UNCHANGED shared, LocalTypes',
         \A u \in Threads \ T : /\ pc'[u] = pc[u] /\ call'[u] = call[u]
                                /\ elem'[u] = elem[u] /\ old'[u] = old[u],
         \A u \in T : Local(u)'
  PROVE  IInv'
<1>1. TypeOK'
  BY DEF IInv, TypeOK, LocalTypes
<1>2. (WithinRing /\ Histories /\ Committed)'
  BY DEF IInv, WithinRing, Histories, Committed
<1>3. Callers'
  BY DEF IInv, Callers, Local
<1>4. Claimants'
  BY DEF IInv, Claimants, Local
<1>5. Takers'
  BY DEF IInv, Takers, Local
<1>6. \A u \in Threads : Writing(u)' => u \notin T
  BY DEF Local
<1>7. (Tickets /\ TicketsApart)'
  BY <1>6 DEF IInv, Tickets, TicketsApart
<1>8. Filled'
  BY <1>6 DEF IInv, Filled
<1> QED BY <1>1, <1>2, <1>3, <1>4, <1>5, <1>7, <1>8 DEF IInv

\* What the invariant says of one thread.
LEMMA OfThread ==
  ASSUME IInv, NEW t \in Threads
  PROVE  /\ LocalTypes /\ head \in Nat /\ tail \in Nat /\ commit \in Nat
         /\ pc[t] \in PCs /\ call[t] \in Calls /\ elem[t] \in Elements /\ old[t] \in Nat
         /\ head < commit /\ commit <= tail /\ SizeOf <= Size
         /\ Caller(t) /\ Claimant(t) /\ Taker(t)
  BY DEF IInv, TypeOK, LocalTypes, WithinRing, Callers, Claimants, Takers

\* Frame for a step of one thread.
LEMMA FrameOne ==
  ASSUME IInv, NEW t \in Threads, UNCHANGED shared, LocalTypes',
         \A u \in Threads \ {t} : /\ pc'[u] = pc[u] /\ call'[u] = call[u]
                                  /\ elem'[u] = elem[u] /\ old'[u] = old[u],
         Local(t)'
  PROVE  IInv'
<1> DEFINE T == {t}
<1>1. T \in SUBSET Threads /\ \A u \in T : Local(u)'
  OBVIOUS
<1>2. \A u \in Threads \ T : /\ pc'[u] = pc[u] /\ call'[u] = call[u]
                             /\ elem'[u] = elem[u] /\ old'[u] = old[u]
  OBVIOUS
<1> HIDE DEF T, Local, IInv
<1> QED BY <1>1, <1>2, Frame

\* A thread that returns or fails leaves the invariant alone.
LEMMA ReturnStep ==
  ASSUME IInv, NEW t \in Threads, Return(t), UNCHANGED <<shared, break>>
  PROVE  IInv'
<1>1. LocalTypes'
  BY OfThread DEF LocalTypes
<1>2. Local(t)' /\ \A u \in Threads \ {t} : /\ pc'[u] = pc[u] /\ call'[u] = call[u]
                                            /\ elem'[u] = elem[u] /\ old'[u] = old[u]
  BY OfThread DEF LocalTypes, Local
<1> QED BY <1>1, <1>2, FrameOne

\* A step that only moves a thread within its call.
LEMMA MoveStep ==
  ASSUME IInv, NEW t \in Threads, NEW p \in PCs, pc' = [pc EXCEPT ![t] = p],
         p \notin {"write", "writing", "commit"},
         p \in EnqueuePCs => call[t].op = "Enqueue",
         p \in DequeuePCs => call[t].op = "Dequeue",
         p \notin {"full", "empty", "take"}, pc[t] # "idle",
         p = "claim" => old[t] <= tail /\ (old[t] = tail => SizeOf < Size),
         p = "copy" => old[t] <= head /\ old[t] + 1 < commit,
         UNCHANGED <<shared, break, locals>>
  PROVE  IInv'
<1>1. LocalTypes'
  BY OfThread DEF LocalTypes
<1>2. Local(t)'
  BY OfThread DEF LocalTypes, Local
<1>3. \A u \in Threads \ {t} : pc'[u] = pc[u]
  BY OfThread DEF LocalTypes
<1> QED BY <1>1, <1>2, <1>3, FrameOne

\* A step that loads head_ or tail_ and moves to the test of it.
LEMMA LoadStep ==
  ASSUME IInv, NEW t \in Threads, UNCHANGED <<shared, break, call, elem>>,
         \/ /\ pc[t] \in EnqueuePCs /\ Goto(t, "full")
            /\ old' = [old EXCEPT ![t] = tail]
         \/ /\ pc[t] \in DequeuePCs /\ Goto(t, "empty")
            /\ old' = [old EXCEPT ![t] = head]
  PROVE  IInv'
<1>1. LocalTypes'
  BY OfThread DEF LocalTypes
<1>2. Local(t)'
  BY OfThread DEF LocalTypes, Local
<1>3. \A u \in Threads \ {t} : pc'[u] = pc[u] /\ old'[u] = old[u]
  BY OfThread DEF LocalTypes
<1> QED BY <1>1, <1>2, <1>3, FrameOne

\* The place a call starts from.
LEMMA EntryOf ==
  ASSUME NEW op \in {"Enqueue", "Dequeue"}
  PROVE  Entry(op) = IF op = "Enqueue" THEN "load_tail" ELSE "load_head"
  BY DEF Entry

\* Starting a call.
LEMMA StartStep ==
  ASSUME IInv, NEW t \in Threads, NEW c \in Calls, NEW v \in Values, Start(t, c, v)
  PROVE  IInv'
<1> DEFINE p == IF c.wait THEN "break" ELSE Entry(c.op)
           e == IF c.op = "Enqueue" THEN v ELSE Junk
<1>1. /\ call' = [call EXCEPT ![t] = c] /\ elem' = [elem EXCEPT ![t] = e]
      /\ pc' = [pc EXCEPT ![t] = p] /\ UNCHANGED <<shared, break, old>>
  BY DEF Start
<1>2. /\ p \in {"break", "load_tail", "load_head"} /\ e \in Elements
      /\ c.op = "Enqueue" => p # "load_head" /\ e \in Values
      /\ c.op = "Dequeue" => p # "load_tail"
      /\ c.op \in {"Enqueue", "Dequeue"}
  BY DEF Entry
<1> HIDE DEF p, e
<1>3. LocalTypes'
  BY <1>1, <1>2, OfThread DEF LocalTypes
<1>4. pc'[t] = p /\ call'[t] = c /\ elem'[t] = e
  BY <1>1, OfThread DEF LocalTypes
<1>5. Local(t)'
  BY <1>2, <1>4 DEF Local
<1>6. \A u \in Threads \ {t} : /\ pc'[u] = pc[u] /\ call'[u] = call[u]
                               /\ elem'[u] = elem[u] /\ old'[u] = old[u]
  BY <1>1, OfThread DEF LocalTypes
<1> QED BY <1>1, <1>3, <1>5, <1>6, FrameOne

\* The tests of the flag, of a full and of an empty queue.
LEMMA Tests ==
  ASSUME IInv, NEW t \in Threads, CheckBreak(t) \/ CheckFull(t) \/ CheckEmpty(t)
  PROVE  IInv'
<1>1. CASE CheckBreak(t)
  <2>1. CASE break = "no"
    <3>1. /\ pc[t] = "break" /\ pc' = [pc EXCEPT ![t] = Entry(call[t].op)]
          /\ UNCHANGED <<shared, break, locals>>
      BY <1>1, <2>1 DEF CheckBreak
    <3>2. /\ call[t].op \in {"Enqueue", "Dequeue"}
          /\ Entry(call[t].op) \in {"load_tail", "load_head"}
          /\ Entry(call[t].op) = "load_tail" <=> call[t].op = "Enqueue"
      BY OfThread DEF Entry
    <3> QED BY <3>1, <3>2, MoveStep
  <2>2. CASE break # "no"
    BY <1>1, <2>2, ReturnStep DEF CheckBreak
  <2> QED BY <2>1, <2>2
<1>2. ASSUME pc[t] \in {"full", "empty"}, Failed(t), UNCHANGED <<shared, break>>
      PROVE  IInv'
  <2>1. CASE call[t].wait
    BY <1>2, <2>1, MoveStep DEF Failed
  <2>2. CASE ~call[t].wait
    BY <1>2, <2>2, ReturnStep DEF Failed
  <2> QED BY <2>1, <2>2
<1>3. CASE CheckFull(t)
  <2>1. CASE LooksFull(t)
    BY <1>2, <1>3, <2>1 DEF CheckFull
  <2>2. CASE ~LooksFull(t)
    <3>1. Goto(t, "claim") /\ UNCHANGED <<shared, break, locals>> /\ pc[t] = "full"
      BY <1>3, <2>2 DEF CheckFull
    <3>2. ASSUME old[t] = tail PROVE SizeOf < Size
      <4>1. SizeOf = Size => old[t] + 1 = head + pool_size
        BY <3>2, OfThread DEF pool_size
      <4>2. GetIndex(head + pool_size) = GetIndex(head)
        BY IndexLap, OfThread
      <4>3. GetIndex(old[t] + 1) # GetIndex(head)
        BY <2>2 DEF LooksFull
      <4>4. SizeOf # Size
        BY <4>1, <4>2, <4>3
      <4> QED BY <4>4, OfThread
    <3>3. call[t].op = "Enqueue" /\ old[t] <= tail
      BY <3>1, OfThread
    <3> QED BY <3>1, <3>2, <3>3, MoveStep
  <2> QED BY <2>1, <2>2
<1>4. CASE CheckEmpty(t)
  <2>1. CASE LooksEmpty(t)
    BY <1>2, <1>4, <2>1 DEF CheckEmpty
  <2>2. CASE ~LooksEmpty(t)
    <3>1. Goto(t, "copy") /\ UNCHANGED <<shared, break, locals>> /\ pc[t] = "empty"
      BY <1>4, <2>2 DEF CheckEmpty
    <3>2. call[t].op = "Dequeue" /\ old[t] <= head /\ old[t] + 1 < commit
      BY <2>2, <3>1, OfThread DEF LooksEmpty
    <3> QED BY <3>1, <3>2, MoveStep
  <2> QED BY <2>1, <2>2
<1> QED BY <1>1, <1>3, <1>4

\* The other local steps of a thread.
LEMMA LocalSteps ==
  ASSUME IInv, NEW t \in Threads,
         \/ LoadTail(t) \/ RetryClaim(t) \/ LoadHead(t) \/ RetryTake(t)
         \/ EmptyWait(t) \/ SpuriousWakeup(t) \/ Timeout(t)
  PROVE  IInv'
<1>1. CASE LoadTail(t) \/ RetryClaim(t) \/ LoadHead(t) \/ RetryTake(t)
  BY <1>1, LoadStep DEF LoadTail, RetryClaim, LoadHead, RetryTake
<1>2. CASE EmptyWait(t)
  BY <1>2, MoveStep DEF EmptyWait
<1>3. CASE SpuriousWakeup(t)
  BY <1>3, MoveStep DEF SpuriousWakeup
<1>4. CASE Timeout(t)
  BY <1>4, ReturnStep DEF Timeout
<1> QED BY <1>1, <1>2, <1>3, <1>4

\* The notifications only move threads to the test of the flag or out of the
\* queue.
LEMMA NotifySteps ==
  ASSUME IInv, SetBreak \/ NotifyAll \/ \E t \in Threads : NotifyOne(t)
  PROVE  IInv'
<1>0. LocalTypes
  BY DEF IInv, TypeOK, LocalTypes
<1>1. CASE SetBreak
  <2>1. LocalTypes' /\ UNCHANGED <<shared, pc, locals>>
    BY <1>0, <1>1 DEF SetBreak, LocalTypes
  <2> DEFINE T == {}
  <2>2. T \in SUBSET Threads /\ \A u \in T : Local(u)'
    OBVIOUS
  <2> HIDE DEF T
  <2> QED BY <2>1, <2>2, Frame
<1>2. CASE NotifyAll
  <2>1. LocalTypes' /\ UNCHANGED <<shared, locals>>
    BY <1>0, <1>2 DEF NotifyAll, LocalTypes
  <2>2. \A u \in Threads \ Blocked : pc'[u] = pc[u]
    BY <1>2 DEF NotifyAll, Blocked
  <2>3. \A u \in Blocked : pc[u] = "blocked" /\ pc'[u] = "break" /\ Caller(u)
    BY <1>2, OfThread DEF NotifyAll, Blocked
  <2>4. \A u \in Blocked : Local(u)'
    BY <2>1, <2>3 DEF Local
  <2>5. Blocked \in SUBSET Threads
    BY DEF Blocked
  <2> QED BY <2>1, <2>2, <2>4, <2>5, Frame
<1>3. ASSUME NEW t \in Threads, NotifyOne(t)
      PROVE  IInv'
  <2>1. CASE Blocked = {}
    BY <1>3, <2>1, ReturnStep DEF NotifyOne
  <2>2. ASSUME NEW w \in Blocked, pc' = [pc EXCEPT ![t] = "idle", ![w] = "break"]
        PROVE  IInv'
    <3>1. w \in Threads /\ pc[w] = "blocked" /\ pc[t] = "notify" /\ w # t
      BY <1>3 DEF Blocked, NotifyOne
    <3>2. Forget(t) /\ UNCHANGED <<shared, break>>
      BY <1>3 DEF NotifyOne
    <3>3. LocalTypes'
      BY <1>0, <2>2, <3>1, <3>2 DEF LocalTypes
    <3>4. Local(t)'
      BY <1>0, <2>2, <3>1 DEF Local, LocalTypes
    <3>5. Local(w)'
      BY <1>0, <2>2, <3>1, <3>2, OfThread DEF Local, LocalTypes
    <3> DEFINE T == {t, w}
    <3>6. \A u \in Threads \ T : /\ pc'[u] = pc[u] /\ call'[u] = call[u]
                                      /\ elem'[u] = elem[u] /\ old'[u] = old[u]
      BY <1>0, <2>2, <3>1, <3>2 DEF LocalTypes
    <3>7. T \in SUBSET Threads /\ \A u \in T : Local(u)'
      BY <3>1, <3>4, <3>5
    <3> HIDE DEF T
    <3> QED BY <3>2, <3>3, <3>6, <3>7, Frame
  <2> QED BY <1>3, <2>1, <2>2 DEF NotifyOne
<1> QED BY <1>1, <1>2, <1>3

-----------------------------------------------------------------------------
(***************************************************************************)
(* Steps on the ring.                                                      *)
(***************************************************************************)

\* A successful CAS on tail_ appends the caller's element to the tickets.
LEMMA ClaimStep ==
  ASSUME IInv, NEW t \in Threads, ClaimTail(t)
  PROVE  IInv'
<1>0. /\ pc[t] = "claim" /\ tail = old[t] /\ tail' = tail + 1
      /\ claimed' = Append(claimed, elem[t])
      /\ pc' = [pc EXCEPT ![t] = "write"]
      /\ UNCHANGED <<head, commit, pool, taken, break, call, elem, old>>
  BY DEF ClaimTail
<1>1. /\ tail \in Nat /\ head \in Nat /\ commit \in Nat /\ tail >= 1
      /\ elem[t] \in Values /\ SizeOf < Size /\ head < commit /\ commit <= tail
  BY <1>0, OfThread
<1>2. claimed \in Seq(Values) /\ Len(claimed) = tail - 1
  BY DEF IInv, TypeOK, Histories
<1>y. tail - 1 \in Nat /\ (tail - 1) + 1 = tail
  BY <1>1
<1>3. claimed' \in Seq(Values)
  BY <1>0, <1>1, <1>2
<1>4. /\ Len(claimed') = tail
      /\ claimed'[tail] = elem[t]
      /\ \A i \in 1 .. tail - 1 : claimed'[i] = claimed[i]
  <2> HIDE DEF SizeOf
  <2>1. /\ Len(Append(claimed, elem[t])) = (tail - 1) + 1
        /\ Append(claimed, elem[t])[(tail - 1) + 1] = elem[t]
        /\ \A i \in 1 .. tail - 1 : Append(claimed, elem[t])[i] = claimed[i]
    BY <1>1, <1>2, <1>y, AppendAt
  <2> QED BY ONLY <2>1, <1>0, <1>y, Zenon
<1>5. /\ pc[t] = "claim" /\ old[t] = tail /\ tail' = tail + 1
      /\ pc' = [pc EXCEPT ![t] = "write"]
      /\ head' = head /\ commit' = commit /\ pool' = pool /\ taken' = taken
      /\ break' = break /\ call' = call /\ elem' = elem /\ old' = old
  BY <1>0
<1>6. TypeOK'
  BY <1>1, <1>3, <1>5 DEF IInv, TypeOK
<1>7. WithinRing'
  BY <1>1, <1>5 DEF IInv, WithinRing
<1>8. Histories'
  <2>1. \A i \in 1 .. head : claimed'[i] = claimed[i]
    BY <1>1, <1>4
  <2>2. Len(claimed') = tail' - 1
    BY <1>1, <1>4, <1>5
  <2> QED BY <1>5, <2>1, <2>2 DEF IInv, Histories
<1>9. Callers'
  BY <1>5 DEF IInv, TypeOK, Callers
<1>10. Claimants'
  BY <1>1, <1>5 DEF IInv, TypeOK, Claimants
<1>11. Tickets'
  <2>1. ASSUME NEW u \in Threads, Writing(u), u # t
        PROVE  commit <= old[u] /\ old[u] < tail' /\ claimed'[old[u]] = elem[u]
    <3>1. /\ old[u] \in Nat /\ commit <= old[u] /\ old[u] < tail
          /\ claimed[old[u]] = elem[u]
      BY <2>1 DEF IInv, TypeOK, Tickets
    <3>2. old[u] \in 1 .. tail - 1
      BY <1>1, <3>1
    <3> QED BY <1>1, <1>4, <1>5, <3>1, <3>2
  <2>2. commit <= old[t] /\ old[t] < tail' /\ claimed'[old[t]] = elem[t]
    BY <1>1, <1>4, <1>5
  <2> QED BY <1>5, <2>1, <2>2 DEF IInv, TypeOK, Tickets
<1>12. TicketsApart'
  BY <1>1, <1>5 DEF IInv, TypeOK, Tickets, TicketsApart
<1>13. Filled'
  BY <1>5 DEF IInv, TypeOK, Filled
<1>14. Committed'
  <2>1. \A i \in head + 1 .. commit - 1 : claimed'[i] = claimed[i]
    BY <1>1, <1>4
  <2> QED BY <1>5, <2>1 DEF IInv, Committed
<1>15. Takers'
  <2>1. ASSUME NEW u \in Threads, pc[u] = "take", old[u] = head
        PROVE  claimed'[head + 1] = claimed[head + 1]
    <3>1. head + 1 < commit
      BY <2>1 DEF IInv, Takers
    <3>2. head + 1 \in 1 .. tail - 1
      BY <1>1, <3>1
    <3> QED BY <1>4, <3>2
  <2> QED BY <1>5, <2>1 DEF IInv, TypeOK, Takers
<1> QED BY <1>6, <1>7, <1>8, <1>9, <1>10, <1>11, <1>12, <1>13, <1>14, <1>15 DEF IInv

\* A writer's slot is not the slot of a committed element or of another writer.
LEMMA SlotOfWriter ==
  ASSUME IInv, NEW t \in Threads, Writing(t)
  PROVE  /\ old[t] \in Nat /\ GetIndex(old[t]) \in Slots
         /\ \A i \in head + 1 .. commit - 1 : GetIndex(i) # GetIndex(old[t])
         /\ \A u \in Threads \ {t} :
              Writing(u) => GetIndex(old[u]) # GetIndex(old[t])
<1>1. /\ head \in Nat /\ commit \in Nat /\ tail \in Nat /\ old[t] \in Nat
      /\ head < commit /\ tail - head - 1 <= Size
      /\ commit <= old[t] /\ old[t] < tail
  BY DEF IInv, TypeOK, WithinRing, Tickets
<1>2. ASSUME NEW i \in head + 1 .. commit - 1
      PROVE  GetIndex(i) # GetIndex(old[t])
  <2>1. /\ i \in Nat /\ i # old[t]
        /\ i - old[t] < pool_size /\ old[t] - i < pool_size
    BY <1>1 DEF pool_size
  <2> QED BY <1>1, <2>1, IndexApart
<1>3. ASSUME NEW u \in Threads \ {t}, Writing(u)
      PROVE  GetIndex(old[u]) # GetIndex(old[t])
  <2>1. /\ old[u] \in Nat /\ old[u] # old[t]
        /\ commit <= old[u] /\ old[u] < tail
    BY <1>3 DEF IInv, TypeOK, Tickets, TicketsApart
  <2>2. old[u] - old[t] < pool_size /\ old[t] - old[u] < pool_size
    BY <1>1, <2>1 DEF pool_size
  <2> QED BY <1>1, <2>1, <2>2, IndexApart
<1>4. GetIndex(old[t]) \in Slots
  BY <1>1, IndexInRing
<1> QED BY <1>1, <1>2, <1>3, <1>4

\* Assigning the claimed slot, in two steps.
LEMMA WriteSteps ==
  ASSUME IInv, NEW t \in Threads, BeginWrite(t) \/ EndWrite(t)
  PROVE  IInv'
<1> USE DEF BeginWrite, EndWrite
<1>1. /\ Writing(t) /\ pc[t] # "commit" /\ Writing(t)'
      /\ pc' \in [Threads -> PCs] /\ pc'[t] \in {"writing", "commit"}
      /\ \A u \in Threads \ {t} : pc'[u] = pc[u]
      /\ UNCHANGED <<head, tail, commit, claimed, taken, break, locals>>
  BY DEF IInv, TypeOK
<1>2. /\ GetIndex(old[t]) \in Slots
      /\ pool \in [Slots -> Elements] /\ elem[t] \in Elements
      /\ pc'[t] = "commit" <=> EndWrite(t)
  BY <1>1, SlotOfWriter DEF IInv, TypeOK
<1>3. /\ \A i \in Slots \ {GetIndex(old[t])} : pool'[i] = pool[i]
      /\ pc'[t] = "commit" => pool'[GetIndex(old[t])] = elem[t]
      /\ pool' \in [Slots -> Elements]
  BY <1>2
<1> HIDE DEF BeginWrite, EndWrite
<1>4. TypeOK'
  BY <1>1, <1>3 DEF IInv, TypeOK
<1>5. (WithinRing /\ Histories)'
  BY <1>1 DEF IInv, WithinRing, Histories
<1>6. (Callers /\ Claimants /\ Takers)'
  <2>1. Callers'
    BY <1>1 DEF IInv, Callers
  <2>2. Claimants'
    BY <1>1 DEF IInv, Claimants
  <2>3. Takers'
    BY <1>1 DEF IInv, Takers
  <2> QED BY <2>1, <2>2, <2>3
<1>7. (Tickets /\ TicketsApart)'
  BY <1>1 DEF IInv, TypeOK, Tickets, TicketsApart
<1>8. Filled'
  <2>1. ASSUME NEW u \in Threads, pc'[u] = "commit", u # t
        PROVE  pool'[GetIndex(old[u])] = elem[u]
    <3>1. pc[u] = "commit" /\ Writing(u) /\ GetIndex(old[u]) \in Slots
      BY <1>1, <2>1, SlotOfWriter DEF IInv, TypeOK
    <3>2. GetIndex(old[u]) # GetIndex(old[t])
      BY <1>1, <2>1, <3>1, SlotOfWriter
    <3> QED BY <1>3, <3>1, <3>2 DEF IInv, Filled
  <2> QED BY <1>1, <1>3, <2>1 DEF Filled
<1>9. Committed'
  <2>1. ASSUME NEW i \in head + 1 .. commit - 1
        PROVE  pool'[GetIndex(i)] = claimed[i]
    <3>1. i \in Nat
      BY DEF IInv, TypeOK
    <3>2. GetIndex(i) \in Slots /\ GetIndex(i) # GetIndex(old[t])
      BY <1>1, <3>1, IndexInRing, SlotOfWriter
    <3> QED BY <1>3, <3>2 DEF IInv, Committed
  <2> QED BY <1>1, <2>1 DEF Committed
<1> QED BY <1>4, <1>5, <1>6, <1>7, <1>8, <1>9 DEF IInv

\* Committing a ticket makes its element available.
LEMMA CommitStep ==
  ASSUME IInv, NEW t \in Threads, CommitTicket(t)
  PROVE  IInv'
<1>1. /\ pc[t] = "commit" /\ commit = old[t] /\ commit' = commit + 1
      /\ pc' = [pc EXCEPT ![t] = "notify"]
      /\ UNCHANGED <<head, tail, pool, claimed, taken, break, locals>>
  BY DEF CommitTicket
<1>2. /\ head \in Nat /\ tail \in Nat /\ commit \in Nat
      /\ head < commit /\ commit < tail
  BY <1>1 DEF IInv, TypeOK, WithinRing, Tickets
<1>3. (TypeOK /\ WithinRing)'
  BY <1>1, <1>2 DEF IInv, TypeOK, WithinRing
<1>4. (Histories /\ Callers /\ Claimants /\ TicketsApart /\ Filled)'
  <2>1. Histories'
    BY <1>1 DEF IInv, Histories
  <2>2. (Callers /\ Claimants)'
    BY <1>1 DEF IInv, TypeOK, Callers, Claimants
  <2>3. (TicketsApart /\ Filled)'
    BY <1>1 DEF IInv, TypeOK, TicketsApart, Filled
  <2> QED BY <2>1, <2>2, <2>3
<1>5. Tickets'
  <2>1. ASSUME NEW u \in Threads, Writing(u)' PROVE Writing(u) /\ u # t
    BY <1>1, <2>1 DEF IInv, TypeOK
  <2>2. ASSUME NEW u \in Threads, Writing(u), u # t
        PROVE  commit + 1 <= old[u] /\ old[u] < tail /\ claimed[old[u]] = elem[u]
    <3>1. /\ commit <= old[u] /\ old[u] < tail /\ claimed[old[u]] = elem[u]
          /\ old[u] # old[t]
      BY <1>1, <2>2 DEF IInv, Tickets, TicketsApart
    <3>2. old[u] \in Nat
      BY DEF IInv, TypeOK
    <3> QED BY <1>1, <1>2, <3>1, <3>2
  <2> QED BY <1>1, <2>1, <2>2 DEF Tickets
<1>6. Committed'
  <2>1. pool[GetIndex(commit)] = claimed[commit]
    BY <1>1 DEF IInv, Filled, Tickets
  <2>2. \A i \in head + 1 .. commit : i = commit \/ i \in head + 1 .. commit - 1
    BY <1>2
  <2>3. commit' - 1 = commit
    BY <1>1, <1>2
  <2> QED BY <1>1, <2>1, <2>2, <2>3 DEF IInv, Committed
<1>7. Takers'
  <2>1. ASSUME NEW u \in Threads PROVE Taker(u)'
    <3>1. pc'[u] = pc[u] \/ pc'[u] = "notify"
      BY <1>1 DEF IInv, TypeOK
    <3>2. old[u] \in Nat /\ Taker(u)
      BY OfThread
    <3> QED BY <1>1, <1>2, <3>1, <3>2
  <2> QED BY <2>1 DEF Takers
<1> QED BY <1>3, <1>4, <1>5, <1>6, <1>7 DEF IInv

\* A dequeuer copies the slot it saw committed: if head_ has not moved, the
\* slot still holds the element of ticket head_ + 1.
LEMMA CopyStep ==
  ASSUME IInv, NEW t \in Threads, CopySlot(t)
  PROVE  IInv'
<1>1. /\ pc[t] = "copy" /\ pc' = [pc EXCEPT ![t] = "take"]
      /\ elem' = [elem EXCEPT ![t] = pool[GetIndex(old[t] + 1)]]
      /\ UNCHANGED <<shared, break, call, old>>
  BY DEF CopySlot
<1>2. old[t] + 1 \in Nat /\ old[t] <= head /\ old[t] + 1 < commit
  <2>1. old[t] \in Nat /\ Taker(t)
    BY DEF IInv, TypeOK, Takers
  <2> QED BY <1>1, <2>1
<1>3. pool[GetIndex(old[t] + 1)] \in Elements
  BY <1>2, IndexInRing DEF IInv, TypeOK
<1>4. TypeOK'
  BY <1>1, <1>3 DEF IInv, TypeOK
<1>5. (WithinRing /\ Histories /\ Committed /\ Claimants /\ TicketsApart)'
  BY <1>1 DEF IInv, TypeOK, WithinRing, Histories, Committed, Claimants, TicketsApart
<1>6. (Callers /\ Tickets /\ Filled)'
  BY <1>1 DEF IInv, TypeOK, Callers, Tickets, Filled
<1>7. old[t] = head => pool[GetIndex(old[t] + 1)] = claimed[head + 1]
  <2>1. old[t] = head => head + 1 \in head + 1 .. commit - 1
    BY <1>2 DEF IInv, TypeOK
  <2> QED BY <2>1 DEF IInv, Committed
<1>8. Takers'
  BY <1>1, <1>2, <1>7 DEF IInv, TypeOK, Takers
<1> QED BY <1>4, <1>5, <1>6, <1>7, <1>8 DEF IInv

\* A successful CAS on head_ hands out the next element.
LEMMA TakeStep ==
  ASSUME IInv, NEW t \in Threads, TakeHead(t)
  PROVE  IInv'
<1>1. /\ pc[t] = "take" /\ old[t] = head /\ head' = head + 1
      /\ taken' = Append(taken, elem[t]) /\ Return(t)
      /\ UNCHANGED <<tail, commit, pool, claimed, break>>
  BY DEF TakeHead
<1>2. /\ head \in Nat /\ tail \in Nat /\ commit \in Nat
      /\ head + 1 < commit /\ commit <= tail
      /\ elem[t] = claimed[head + 1]
  BY <1>1 DEF IInv, TypeOK, WithinRing, Takers
<1>3. elem[t] \in Values
  <2>1. claimed \in Seq(Values) /\ Len(claimed) = tail - 1
    BY DEF IInv, TypeOK, Histories
  <2>2. head + 1 \in 1 .. tail - 1
    BY <1>2
  <2> QED BY <1>2, <2>1, <2>2
<1>4. taken \in Seq(Values) /\ Len(taken) = head
  BY DEF IInv, TypeOK, Histories
<1>5. /\ taken' \in Seq(Values) /\ Len(taken') = head + 1
      /\ taken'[head + 1] = elem[t]
      /\ \A i \in 1 .. head : taken'[i] = taken[i]
  <2>1. /\ Append(taken, elem[t]) \in Seq(Values)
        /\ Len(Append(taken, elem[t])) = head + 1
        /\ Append(taken, elem[t])[head + 1] = elem[t]
        /\ \A i \in 1 .. head : Append(taken, elem[t])[i] = taken[i]
    BY ONLY <1>2, <1>3, <1>4, AppendAt
  <2> QED BY ONLY <1>1, <2>1, Zenon
<1>6. /\ pc[t] = "take" /\ old[t] = head /\ head' = head + 1
      /\ Return(t) /\ UNCHANGED <<tail, commit, pool, claimed, break>>
  BY <1>1
<1>7. /\ LocalTypes /\ LocalTypes'
      /\ pc'[t] = "idle"
      /\ \A u \in Threads \ {t} : /\ pc'[u] = pc[u] /\ call'[u] = call[u]
                                  /\ elem'[u] = elem[u] /\ old'[u] = old[u]
  <2>1. LocalTypes
    BY OfThread
  <2>2. LocalTypes'
    BY <1>6, <2>1 DEF LocalTypes
  <2>3. pc'[t] = "idle" /\ \A u \in Threads \ {t} : pc'[u] = pc[u]
    BY <1>6, <2>1 DEF LocalTypes
  <2>4. \A u \in Threads \ {t} : /\ call'[u] = call[u] /\ elem'[u] = elem[u]
                                 /\ old'[u] = old[u]
    BY <1>6, <2>1 DEF LocalTypes
  <2> QED BY <2>1, <2>2, <2>3, <2>4
<1>8. /\ head' = head + 1 /\ tail' = tail /\ commit' = commit
      /\ pool' = pool /\ claimed' = claimed
  BY <1>6
<1>9. TypeOK'
  <2>1. head' \in Nat /\ taken' \in Seq(Values)
    BY <1>2, <1>5, <1>8
  <2>2. TypeOK
    BY DEF IInv
  <2> QED BY <1>7, <1>8, <2>1, <2>2 DEF TypeOK, LocalTypes
<1>10. WithinRing'
  BY <1>2, <1>8 DEF IInv, WithinRing
<1>11. Histories'
  <2>1. \A i \in 1 .. head + 1 : i = head + 1 \/ i \in 1 .. head
    BY <1>2
  <2> QED BY <1>2, <1>5, <1>8, <2>1 DEF IInv, Histories
<1>12. Callers'
  BY <1>7 DEF IInv, Callers
<1>13. (TicketsApart /\ Tickets /\ Filled)'
  <2>1. \A u \in Threads : Writing(u)' =>
          Writing(u) /\ pc'[u] = pc[u] /\ old'[u] = old[u] /\ elem'[u] = elem[u]
    BY <1>7
  <2>2. TicketsApart'
    BY <2>1 DEF IInv, TicketsApart
  <2>3. Tickets'
    BY <1>8, <2>1 DEF IInv, Tickets
  <2>4. Filled'
    BY <1>8, <2>1 DEF IInv, Filled
  <2> QED BY <2>2, <2>3, <2>4
<1>14. Claimants'
  <2>1. ASSUME NEW u \in Threads \ {t} PROVE Claimant(u)'
    <3>1. old[u] \in Nat /\ Claimant(u)
      BY OfThread
    <3>2. pc'[u] = pc[u] /\ old'[u] = old[u]
      BY <1>7
    <3> QED BY <1>2, <1>8, <3>1, <3>2
  <2>2. Claimant(t)'
    BY <1>7
  <2> QED BY <2>1, <2>2 DEF Claimants
<1>15. Committed'
  <2>1. \A i \in head' + 1 .. commit - 1 : i \in head + 1 .. commit - 1
    BY <1>2, <1>8
  <2> QED BY <1>8, <2>1 DEF IInv, Committed
<1>16. Takers'
  <2>1. ASSUME NEW u \in Threads \ {t} PROVE Taker(u)'
    <3>1. old[u] \in Nat /\ Taker(u)
      BY OfThread
    <3>2. pc'[u] = pc[u] /\ old'[u] = old[u] /\ elem'[u] = elem[u]
      BY <1>7
    <3>3. /\ pc[u] \in {"empty", "copy", "take"} => old[u] <= head + 1 /\ old[u] # head + 1
          /\ pc[u] \in {"copy", "take"} => old[u] + 1 < commit
      BY <1>2, <3>1
    <3> QED BY <1>8, <3>2, <3>3
  <2> QED BY <1>7, <2>1 DEF Takers
<1> QED BY <1>9, <1>10, <1>11, <1>12, <1>13, <1>14, <1>15, <1>16 DEF IInv

\* Every step of every thread preserves the invariant.
LEMMA NextIInv == IInv /\ [Next]_vars => IInv'
<1> SUFFICES ASSUME IInv, [Next]_vars PROVE IInv'
  OBVIOUS
<1>1. CASE UNCHANGED vars
  <2> DEFINE T == {}
  <2>1. T \in SUBSET Threads /\ \A u \in T : Local(u)'
    OBVIOUS
  <2>2. LocalTypes' /\ UNCHANGED <<shared, pc, locals>>
    BY <1>1 DEF vars, IInv, TypeOK, LocalTypes
  <2> HIDE DEF T
  <2> QED BY <2>1, <2>2, Frame
<1>2. ASSUME NEW t \in Threads, EnqueueStep(t) PROVE IInv'
  BY <1>2, LocalSteps, Tests, ClaimStep, WriteSteps, CommitStep, NotifySteps
     DEF EnqueueStep
<1>3. ASSUME NEW t \in Threads, DequeueStep(t) PROVE IInv'
  BY <1>3, LocalSteps, Tests, CopyStep, TakeStep DEF DequeueStep
<1>4. ASSUME NEW t \in Threads, WaitStep(t) PROVE IInv'
  BY <1>4, LocalSteps, Tests DEF WaitStep
<1> QED BY <1>1, <1>2, <1>3, <1>4, StartStep, NotifySteps DEF Next

-----------------------------------------------------------------------------
(***************************************************************************)
(* The theorems.                                                           *)
(***************************************************************************)

\* The invariant holds in every reachable state of the queue.
THEOREM Invariance == Spec => []IInv
  BY InitIInv, NextIInv, PTL DEF Spec

\* bounded_queue.h keeps its counters, ring and locals well typed, and the
\* elements Dequeue hands out are never junk.
THEOREM Typed == Spec => []TypeOK
<1>1. IInv => TypeOK
  BY DEF IInv
<1> QED BY <1>1, Invariance, PTL

\* The index test of Enqueue keeps the tickets within one lap of the ring.
THEOREM Bounded == Spec => []WithinRing
<1>1. IInv => WithinRing
  BY DEF IInv
<1> QED BY <1>1, Invariance, PTL

\* What the invariant says of the counters and of the tickets.
LEMMA QueueTypes ==
  ASSUME IInv
  PROVE  /\ head \in Nat /\ commit \in Nat /\ tail \in Nat
         /\ head < commit /\ commit <= tail /\ tail - head - 1 <= Size
         /\ claimed \in Seq(Values) /\ Len(claimed) = tail - 1
  BY DEF IInv, TypeOK, WithinRing, Histories

\* Dequeue hands out the elements of Enqueue in ticket order, each once.
THEOREM Fifo == Spec => []TakenInOrder
<1>1. ASSUME IInv PROVE TakenInOrder
  <2>1. /\ claimed \in Seq(Values) /\ taken \in Seq(Values) /\ head \in Nat
        /\ tail \in Nat /\ head <= tail - 1 /\ tail >= 1
        /\ Len(claimed) = tail - 1 /\ Len(taken) = head
        /\ \A i \in 1 .. head : taken[i] = claimed[i]
    <3>1. head \in Nat /\ tail \in Nat /\ head <= tail - 1 /\ tail >= 1
      BY <1>1, QueueTypes
    <3>2. taken \in Seq(Values) /\ Len(taken) = head
      BY <1>1 DEF IInv, TypeOK, Histories
    <3>3. \A i \in 1 .. head : taken[i] = claimed[i]
      BY <1>1 DEF IInv, Histories
    <3> QED BY <1>1, <3>1, <3>2, <3>3, QueueTypes
  <2>2. \A i \in 1 .. head : claimed[i] \in Values
    BY <2>1
  <2> DEFINE s == SubSeq(claimed, 1, head)
  <2>3. /\ s \in Seq(Values) /\ Len(s) = IF 1 <= head THEN head - 1 + 1 ELSE 0
        /\ \A i \in 1 .. head - 1 + 1 : s[i] = claimed[1 + i - 1]
    <3>1. 1 \in Int /\ head \in Int
      BY <2>1
    <3> QED BY ONLY <2>2, <3>1, SubSeqProperties
  <2> HIDE DEF s
  <2>4. Len(s) = head /\ \A i \in 1 .. head : s[i] = claimed[i]
    BY <2>1, <2>3
  <2>5. taken = s
    BY <2>1, <2>3, <2>4, SeqEqual
  <2> QED BY <2>5 DEF TakenInOrder, s
<1> QED BY <1>1, Invariance, PTL

\* Two enqueuers never write one slot, and none writes over an element that
\* is committed and not taken.
THEOREM Exclusive == Spec => []WritersApart
<1>1. ASSUME IInv PROVE WritersApart
  BY <1>1, SlotOfWriter DEF WritersApart
<1> QED BY <1>1, Invariance, PTL

\* Dequeue's false is true at the moment of its test.
THEOREM EmptyAnswer == Spec => []EmptyAnswerIsCurrent
<1>1. ASSUME IInv, NEW t \in Threads, pc[t] = "empty", LooksEmpty(t)
      PROVE  head + 1 = commit
  <2>1. old[t] \in Nat /\ Taker(t) /\ head \in Nat /\ commit \in Nat /\ head < commit
    BY <1>1 DEF IInv, TypeOK, WithinRing, Takers
  <2> QED BY <1>1, <2>1 DEF LooksEmpty
<1>2. IInv => EmptyAnswerIsCurrent
  BY <1>1 DEF EmptyAnswerIsCurrent
<1> QED BY <1>2, Invariance, PTL

\* Enqueue's false is true, or the caller's copy of tail_ is stale.
THEOREM FullAnswer == Spec => []FullAnswerIsCurrentOrRaced
<1>1. ASSUME IInv PROVE FullAnswerIsCurrentOrRaced
  <2>1. ASSUME NEW t \in Threads, LooksFull(t), old[t] = tail, SizeOf < Size
        PROVE  FALSE
    <3> DEFINE n == tail + 1
    <3>1. /\ head \in Nat /\ n \in Nat /\ n # head
          /\ n - head < pool_size /\ head - n < pool_size
      BY <1>1, <2>1 DEF IInv, TypeOK, WithinRing, pool_size
    <3>2. GetIndex(n) = GetIndex(head)
      BY <2>1 DEF LooksFull
    <3> HIDE DEF n
    <3> QED BY <3>1, <3>2, IndexApart
  <2>2. SizeOf \in Int /\ SizeOf <= Size
    BY <1>1 DEF IInv, TypeOK, WithinRing
  <2>3. SizeOf = Size \/ SizeOf < Size
    BY <2>2
  <2> QED BY <2>1, <2>3 DEF FullAnswerIsCurrentOrRaced
<1> QED BY <1>1, Invariance, PTL

\* For every size and any threads the ring is a bounded first-in-first-out
\* queue whose slots are written by one thread at a time.
THEOREM Safe == Spec => []RingIsQueue
  BY Typed, Bounded, Fifo, Exclusive, PTL DEF RingIsQueue

\* For every size and any threads: a Dequeue that fails found nothing
\* committed, an Enqueue that fails found the ring full or was overtaken.
THEOREM Honest == Spec => []HonestAnswers
  BY EmptyAnswer, FullAnswer, PTL DEF HonestAnswers

\* A subsequence depends only on the elements between its bounds.
LEMMA SubSeqSame ==
  ASSUME NEW s, NEW r, NEW m \in Int, NEW n \in Int,
         \A i \in m .. n : s[i] = r[i]
  PROVE  SubSeq(s, m, n) = SubSeq(r, m, n)
<1> DEFINE S == {s[i] : i \in m .. n}
           a == SubSeq(s, m, n)
           b == SubSeq(r, m, n)
<1>1. (\A i \in m .. n : s[i] \in S) /\ (\A i \in m .. n : r[i] \in S)
  OBVIOUS
<1> HIDE DEF S
<1>2. /\ a \in Seq(S) /\ Len(a) = IF m <= n THEN n - m + 1 ELSE 0
      /\ \A i \in 1 .. n - m + 1 : a[i] = s[m + i - 1]
  BY <1>1, SubSeqProperties
<1>3. /\ b \in Seq(S) /\ Len(b) = IF m <= n THEN n - m + 1 ELSE 0
      /\ \A i \in 1 .. n - m + 1 : b[i] = r[m + i - 1]
  BY <1>1, SubSeqProperties
<1> HIDE DEF a, b
<1>4. Len(a) = Len(b) /\ \A i \in 1 .. Len(a) : a[i] = b[i]
  <2>1. ASSUME NEW i \in 1 .. n - m + 1 PROVE s[m + i - 1] = r[m + i - 1]
    <3>1. m + i - 1 \in m .. n
      OBVIOUS
    <3> QED BY <3>1
  <2>2. \A i \in 1 .. n - m + 1 : a[i] = b[i]
    BY <1>2, <1>3, <2>1
  <2>3. Len(a) = Len(b) /\ 1 .. Len(a) \subseteq 1 .. n - m + 1
    BY <1>2, <1>3
  <2> QED BY <2>2, <2>3
<1>5. a = b
  BY <1>2, <1>3, <1>4, SeqEqual
<1> QED BY <1>5 DEF a, b

\* The ring implements a bounded FIFO queue whose Enqueue takes effect when
\* commit_ moves and whose Dequeue takes effect when head_ moves.
THEOREM Refinement == Spec => ImplementsFifo
<1> DEFINE Q == SubSeq(claimed, head + 1, commit - 1)
<1>1. Init => Q = << >>
  BY SubSeqEmpty DEF Init
<1>2. ASSUME IInv, IInv', [Next]_vars PROVE [Abstract!Next]_Q
  <2>1. CASE UNCHANGED <<head, commit, claimed>>
    BY <2>1
  <2>t. /\ head \in Nat /\ commit \in Nat /\ tail \in Nat
        /\ head < commit /\ commit <= tail /\ tail - head - 1 <= Size
        /\ claimed \in Seq(Values) /\ Len(claimed) = tail - 1
    BY <1>2, QueueTypes
  <2>v. \A i \in head + 1 .. commit - 1 : claimed[i] \in Values
    BY <2>t
  <2>q. /\ Q \in Seq(Values)
        /\ Len(Q) = commit - 1 - head
        /\ \A i \in 1 .. commit - 1 - head : Q[i] = claimed[head + i]
    <3>1. /\ head + 1 \in Int /\ commit - 1 \in Int
          /\ (commit - 1) - (head + 1) + 1 = commit - 1 - head
          /\ \A i \in 1 .. commit - 1 - head : (head + 1) + i - 1 = head + i
      BY <2>t
    <3>2. /\ Q \in Seq(Values)
          /\ Len(Q) = IF head + 1 <= commit - 1
                        THEN (commit - 1) - (head + 1) + 1 ELSE 0
          /\ \A i \in 1 .. (commit - 1) - (head + 1) + 1 :
               Q[i] = claimed[(head + 1) + i - 1]
      BY <2>v, <3>1, SubSeqProperties
    <3> HIDE DEF Q
    <3>3. Len(Q) = commit - 1 - head
      BY ONLY <2>t, <3>1, <3>2
    <3>4. \A i \in 1 .. commit - 1 - head : Q[i] = claimed[head + i]
      BY ONLY <3>1, <3>2
    <3> QED BY <3>2, <3>3, <3>4
  <2>2. CASE \E t \in Threads : ClaimTail(t)
    <3> PICK t \in Threads : ClaimTail(t)
      BY <2>2
    <3>1. /\ claimed' = Append(claimed, elem[t]) /\ head' = head /\ commit' = commit
          /\ elem[t] \in Values
      BY <1>2 DEF ClaimTail, IInv, Callers
    <3>2. \A i \in 1 .. tail - 1 : claimed'[i] = claimed[i]
      <4>1. tail - 1 \in Nat
        BY <2>t
      <4> QED BY <2>t, <3>1, <4>1, AppendAt
    <3>3. \A i \in head + 1 .. commit - 1 : claimed'[i] = claimed[i]
      BY <2>t, <3>2
    <3>4. Q' = Q
      BY <2>t, <3>1, <3>3, SubSeqSame
    <3> QED BY <3>4
  <2>3. CASE \E t \in Threads : CommitTicket(t)
    <3> PICK t \in Threads : CommitTicket(t)
      BY <2>3
    <3>1. /\ commit' = commit + 1 /\ head' = head /\ claimed' = claimed
          /\ commit < tail
      BY <1>2 DEF CommitTicket, IInv, Tickets
    <3>2. /\ head + 1 \in 1 .. Len(claimed) /\ commit \in head + 1 .. Len(claimed)
          /\ commit' - 1 = commit
      BY <2>t, <3>1
    <3>3. SubSeq(claimed, head + 1, commit) = Q \o <<claimed[commit]>>
      BY <2>t, <3>2, SubSeqRecursiveSecond
    <3>4. claimed[commit] \in Values
      BY <2>t, <3>2
    <3>5. Q' = Append(Q, claimed[commit])
      BY <2>q, <3>1, <3>2, <3>3, <3>4, AppendIsConcat
    <3>6. Len(Q) < Size
      BY <2>t, <2>q, <3>1
    <3> QED BY <3>4, <3>5, <3>6 DEF Abstract!Next, Abstract!Put
  <2>4. CASE \E t \in Threads : TakeHead(t)
    <3> PICK t \in Threads : TakeHead(t)
      BY <2>4
    <3>1. /\ head' = head + 1 /\ commit' = commit /\ claimed' = claimed
          /\ head + 1 < commit
      BY <1>2 DEF TakeHead, IInv, Takers
    <3>2. /\ head + 1 \in 1 .. Len(claimed)
          /\ commit - 1 \in head + 1 .. Len(claimed)
      BY <2>t, <3>1
    <3>3. Tail(Q) = SubSeq(claimed, (head + 1) + 1, commit - 1)
      BY <2>t, <3>2, HeadTailOfSubSeq
    <3>4. Q' = Tail(Q)
      BY <3>1, <3>3
    <3>5. Q # << >>
      BY <2>t, <2>q, <3>1
    <3> QED BY <3>4, <3>5 DEF Abstract!Next, Abstract!Get
  <2>5. ASSUME UNCHANGED shared PROVE [Abstract!Next]_Q
    BY <2>1, <2>5
  <2>6. ASSUME NEW t \in Threads, EnqueueStep(t) PROVE [Abstract!Next]_Q
    <3>1. CASE BeginWrite(t) \/ EndWrite(t)
      BY <2>1, <3>1 DEF BeginWrite, EndWrite
    <3>2. CASE LoadTail(t) \/ CheckFull(t) \/ RetryClaim(t) \/ NotifyOne(t)
      BY <2>5, <3>2 DEF LoadTail, CheckFull, RetryClaim, NotifyOne
    <3> QED BY <2>2, <2>3, <2>6, <3>1, <3>2 DEF EnqueueStep
  <2>7. ASSUME NEW t \in Threads, DequeueStep(t) PROVE [Abstract!Next]_Q
    <3>1. CASE LoadHead(t) \/ CheckEmpty(t) \/ CopySlot(t) \/ RetryTake(t)
      BY <2>5, <3>1 DEF LoadHead, CheckEmpty, CopySlot, RetryTake
    <3> QED BY <2>4, <2>7, <3>1 DEF DequeueStep
  <2>8. ASSUME NEW t \in Threads,
               WaitStep(t) \/ \E c \in Calls, v \in Values : Start(t, c, v)
        PROVE  [Abstract!Next]_Q
    BY <2>5, <2>8
       DEF WaitStep, CheckBreak, EmptyWait, SpuriousWakeup, Timeout, Start
  <2>9. CASE SetBreak \/ NotifyAll \/ UNCHANGED vars
    BY <2>5, <2>9 DEF SetBreak, NotifyAll, vars
  <2> QED BY <1>2, <2>6, <2>7, <2>8, <2>9 DEF Next
<1> QED BY <1>1, <1>2, Invariance, PTL DEF Spec, ImplementsFifo, Abstract!Spec, Abstract!Init
=============================================================================
