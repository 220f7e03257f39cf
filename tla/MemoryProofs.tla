---------------------------- MODULE MemoryProofs ----------------------------
(***************************************************************************)
(* Proofs about memory: the object pool of cyber/base, the nodes of the    *)
(* distance map of planning's grid search, and the notification ring and   *)
(* the segments of transport/shm.                                          *)
(*                                                                         *)
(* For any threads and any finite set of nodes: CCObjectPool keeps its     *)
(* types, its list is the stack of free nodes, every object has one owner, *)
(* and it implements ObjectPool.                                           *)
(*                                                                         *)
(* OneOwner is not inductive.  That the node taken is free needs the list  *)
(* to be the stack (ListIsStack); that the new head is the node below it   *)
(* needs Current: while the counter is the one a thread has loaded, the    *)
(* head and its next field are what the thread has read.                   *)
(***************************************************************************)
EXTENDS CCObjectPool, GridSearch, FiniteSetTheorems, TLAPS

\* What the locals of a thread say of the shared list.
Current ==
    \A t \in Threads :
        /\ old[t].count <= free_head.count
        /\ pc[t] # "idle" /\ old[t].count = free_head.count => old[t] = free_head
        /\ pc[t] = "get_cas" /\ old[t] = free_head => new[t] = next[old[t].node]
        /\ pc[t] = "put_cas" => next[new[t]] = old[t].node

\* the inductive invariant of the pool
IInv == TypeOK /\ OneOwner /\ ListIsStack /\ Current

----------------------------------------------------------------------------
\* The empty stack.
LEMMA EmptySequence == \A s \in Seq(Nodes) : Len(s) \in Nat /\ (s = <<>> <=> Len(s) = 0)
  OBVIOUS

\* Pushing a node.
LEMMA Pushing ==
    ASSUME NEW s \in Seq(Nodes), NEW n \in Nodes
    PROVE  /\ Append(s, n) \in Seq(Nodes)
           /\ Append(s, n) # <<>>
           /\ Len(Append(s, n)) = Len(s) + 1
           /\ DOMAIN Append(s, n) = 1 .. Len(s) + 1
           /\ DOMAIN s = 1 .. Len(s)
           /\ \A i \in 1 .. Len(s) : Append(s, n)[i] = s[i]
           /\ Append(s, n)[Len(s) + 1] = n
           /\ s # <<>> => Len(s) \in 1 .. Len(s)
           /\ s = <<>> => Len(s) = 0
  <1>1. /\ Append(s, n) \in Seq(Nodes)
        /\ Len(Append(s, n)) = Len(s) + 1
        /\ DOMAIN Append(s, n) = 1 .. Len(s) + 1
        /\ DOMAIN s = 1 .. Len(s)
        /\ \A i \in 1 .. Len(s) : Append(s, n)[i] = s[i]
        /\ Append(s, n)[Len(s) + 1] = n
    OBVIOUS
  <1>2. Append(s, n) # <<>>
    BY <1>1, EmptySequence
  <1>3. s # <<>> => Len(s) \in 1 .. Len(s)
    OBVIOUS
  <1>4. s = <<>> => Len(s) = 0
    OBVIOUS
  <1>5. QED
    BY <1>1, <1>2, <1>3, <1>4

\* Popping the top node.
LEMMA Popping ==
    ASSUME NEW s \in Seq(Nodes), s # <<>>
    PROVE  /\ SubSeq(s, 1, Len(s) - 1) \in Seq(Nodes)
           /\ Len(SubSeq(s, 1, Len(s) - 1)) = Len(s) - 1
           /\ DOMAIN SubSeq(s, 1, Len(s) - 1) = 1 .. Len(s) - 1
           /\ DOMAIN s = 1 .. Len(s)
           /\ Len(s) \in 1 .. Len(s)
           /\ \A i \in 1 .. Len(s) - 1 : SubSeq(s, 1, Len(s) - 1)[i] = s[i]
           /\ SubSeq(s, 1, Len(s) - 1) = <<>> <=> Len(s) = 1
  <1>1. Len(s) \in Nat \ {0} /\ DOMAIN s = 1 .. Len(s) /\ Len(s) \in 1 .. Len(s)
    OBVIOUS
  <1> DEFINE r == SubSeq(s, 1, Len(s) - 1)
  <1>2. /\ r \in Seq(Nodes) /\ Len(r) = Len(s) - 1 /\ DOMAIN r = 1 .. Len(s) - 1
    BY <1>1
  <1>3. \A i \in 1 .. Len(s) - 1 : r[i] = s[i]
    BY <1>1
  <1>4. r = <<>> <=> Len(r) = 0
    <2> HIDE DEF r
    <2> QED BY Zenon, <1>2, EmptySequence
  <1>5. QED
    BY <1>1, <1>2, <1>3, <1>4

\* The arena is a stack of all nodes.
LEMMA ArenaIsStack ==
    ASSUME NEW a \in Arenas
    PROVE  a \in Seq(Nodes) /\ DOMAIN a = 1 .. Len(a)
  <1>1. Cardinality(Nodes) \in Nat
    BY NodesAssumption, FS_CardinalityType
  <1>2. a \in [1 .. Cardinality(Nodes) -> Nodes]
    BY DEF Arenas
  <1>3. QED
    BY <1>1, <1>2

\* A new pool satisfies the invariant.
LEMMA InitIInv == Init => IInv
  <1> SUFFICES ASSUME Init PROVE IInv
    OBVIOUS
  <1>1. stack \in Seq(Nodes) /\ DOMAIN stack = 1 .. Len(stack)
    BY ArenaIsStack DEF Init
  <1>2. Top(stack) \in Nodes \cup {Null}
    BY <1>1 DEF Top
  <1>3. TypeOK
    BY Zenon, <1>1, <1>2 DEF Init, TypeOK, NoHead
  <1>4. OneOwner
    BY DEF Init, OneOwner, Releasing
  <1>5. ListIsStack
    BY Zenon, <1>1 DEF Init, ListIsStack, Arenas
  <1>6. Current
    BY DEF Init, Current, NoHead
  <1>7. QED
    BY <1>3, <1>4, <1>5, <1>6 DEF IInv

----------------------------------------------------------------------------
\* Every step preserves the invariant.
LEMMA NextIInv == IInv /\ [Next]_vars => IInv'
  <1> SUFFICES ASSUME IInv, [Next]_vars PROVE IInv'
    OBVIOUS
  <1> USE NodesAssumption
  <1>0. TypeOK /\ OneOwner /\ ListIsStack /\ Current
    BY DEF IInv
  <1>1. ASSUME NEW t \in Threads, LoadForGet(t) PROVE IInv'
    <2>1. TypeOK'
      BY Zenon, <1>0, <1>1 DEF TypeOK, LoadForGet, Goto
    <2>2. OneOwner'
      BY <1>0, <1>1 DEF TypeOK, OneOwner, LoadForGet, Goto, Releasing, Free
    <2>3. ListIsStack'
      BY Zenon, <1>0, <1>1 DEF ListIsStack, LoadForGet, Top, Below
    <2>4. Current'
      BY <1>0, <1>1 DEF TypeOK, Current, LoadForGet, Goto
    <2>5. QED
      BY <2>1, <2>2, <2>3, <2>4 DEF IInv
  <1>2. ASSUME NEW t \in Threads, ReadNext(t) PROVE IInv'
    <2>1. TypeOK'
      BY Zenon, <1>0, <1>2 DEF TypeOK, ReadNext, Goto
    <2>2. OneOwner'
      BY <1>0, <1>2 DEF TypeOK, OneOwner, ReadNext, Goto, Releasing, Free
    <2>3. ListIsStack'
      BY Zenon, <1>0, <1>2 DEF ListIsStack, ReadNext, Top, Below
    <2>4. Current'
      BY Zenon, <1>0, <1>2 DEF TypeOK, Current, ReadNext, Goto
    <2>5. QED
      BY <2>1, <2>2, <2>3, <2>4 DEF IInv
  <1>3. ASSUME NEW t \in Threads, TakeHead(t) PROVE IInv'
    <2> DEFINE n == old[t].node
    <2>1. /\ n \in Nodes /\ free_head.node = n /\ stack # <<>> /\ stack \in Seq(Nodes)
          /\ n = stack[Len(stack)] /\ new[t] = Below(stack, Len(stack)) /\ old[t] = free_head
      <3>1. n \in Nodes /\ free_head = old[t] /\ stack \in Seq(Nodes)
        BY Zenon, <1>0, <1>3 DEF TypeOK, TakeHead, Unchanged
      <3>2. stack # <<>> /\ n = stack[Len(stack)]
        BY <1>0, <3>1 DEF ListIsStack, Top
      <3>3. Len(stack) \in DOMAIN stack
        BY <3>1, <3>2, Popping
      <3>4. new[t] = next[n]
        BY Zenon, <1>0, <1>3, <3>1 DEF Current, TakeHead
      <3>5. next[stack[Len(stack)]] = Below(stack, Len(stack))
        BY <1>0, <3>3 DEF ListIsStack
      <3>6. QED
        BY Zenon, <3>1, <3>2, <3>4, <3>5
    <2>2. /\ stack' \in Seq(Nodes) /\ Len(stack') = Len(stack) - 1
          /\ DOMAIN stack' = 1 .. Len(stack) - 1 /\ DOMAIN stack = 1 .. Len(stack)
          /\ Len(stack) \in 1 .. Len(stack)
          /\ \A i \in 1 .. Len(stack) - 1 : stack'[i] = stack[i]
          /\ stack' = <<>> <=> Len(stack) = 1
      BY Zenon, <2>1, <1>3, Popping DEF TakeHead
    <2>3. n \in Free /\ Free' \subseteq Free /\ n \notin Free'
      BY <1>0, <2>1, <2>2 DEF Free, ListIsStack
    <2>4. TypeOK'
      <3>1. handles' \in [Nodes -> Nat] /\ result' \in [Threads -> Nodes \cup {Null}]
        BY <1>0, <1>3, <2>1 DEF TypeOK, TakeHead
      <3>2. free_head' \in [count : Nat, node : Nodes \cup {Null}]
        BY <1>0, <1>3, <2>1 DEF TypeOK, TakeHead
      <3>3. pc' \in [Threads -> {"idle", "get_next", "get_cas", "put_next", "put_cas"}]
        BY Zenon, <1>0, <1>3 DEF TypeOK, TakeHead, Goto
      <3>4. \A u \in Threads : /\ pc'[u] \in {"get_next", "get_cas"} => old'[u].node # Null
                               /\ pc'[u] \in {"put_next", "put_cas"} => new'[u] # Null
        BY Zenon, <1>0, <1>3 DEF TypeOK, TakeHead, Goto
      <3>5. /\ next' \in [Nodes -> Nodes \cup {Null}]
            /\ old' \in [Threads -> [count : Nat, node : Nodes \cup {Null}]]
            /\ new' \in [Threads -> Nodes \cup {Null}]
        BY Zenon, <1>0, <1>3 DEF TypeOK, TakeHead
      <3>6. stack' \in Seq(Nodes)
        BY <2>2
      <3>7. QED
        BY Zenon, <3>1, <3>2, <3>3, <3>4, <3>5, <3>6 DEF TypeOK
    <2>5. OneOwner'
      BY <1>0, <1>3, <2>1, <2>3 DEF TypeOK, OneOwner, TakeHead, Goto, Releasing
    <2>6. ListIsStack'
      <3>1. free_head'.node = new[t] /\ next' = next
        BY Zenon, <1>3 DEF TakeHead
      <3>2. free_head'.node = Top(stack')
        BY <2>1, <2>2, <3>1 DEF Top, Below
      <3>3. ASSUME NEW i \in DOMAIN stack' PROVE next'[stack'[i]] = Below(stack', i)
        BY <1>0, <2>2, <3>1, <3>3 DEF ListIsStack, Below
      <3>4. ASSUME NEW i \in DOMAIN stack', NEW j \in DOMAIN stack', stack'[i] = stack'[j]
            PROVE  i = j
        BY <1>0, <2>2, <3>4 DEF ListIsStack
      <3>5. QED
        BY <3>2, <3>3, <3>4 DEF ListIsStack
    <2>7. Current'
      BY <1>0, <1>3, <2>1 DEF TypeOK, Current, TakeHead, Goto
    <2>8. QED
      BY <2>4, <2>5, <2>6, <2>7 DEF IInv
  <1>4. ASSUME NEW t \in Threads, RetryGet(t) PROVE IInv'
    <2>1. TypeOK'
      BY Zenon, <1>0, <1>4 DEF TypeOK, RetryGet, Goto
    <2>2. OneOwner'
      BY <1>0, <1>4 DEF TypeOK, OneOwner, RetryGet, Goto, Releasing, Free
    <2>3. ListIsStack'
      BY Zenon, <1>0, <1>4 DEF ListIsStack, RetryGet, Top, Below
    <2>4. Current'
      BY <1>0, <1>4 DEF TypeOK, Current, RetryGet, Goto
    <2>5. QED
      BY <2>1, <2>2, <2>3, <2>4 DEF IInv
  <1>5. ASSUME NEW t \in Threads, NEW n \in Nodes, LoadForRelease(t, n) PROVE IInv'
    <2>1. TypeOK'
      BY <1>0, <1>5 DEF TypeOK, LoadForRelease, Goto
    <2>2. OneOwner'
      BY <1>0, <1>5 DEF TypeOK, OneOwner, LoadForRelease, Goto, Releasing, Free
    <2>3. ListIsStack'
      BY Zenon, <1>0, <1>5 DEF ListIsStack, LoadForRelease, Top, Below
    <2>4. Current'
      BY <1>0, <1>5 DEF TypeOK, Current, LoadForRelease, Goto
    <2>5. QED
      BY <2>1, <2>2, <2>3, <2>4 DEF IInv
  <1>6. ASSUME NEW t \in Threads, WriteNext(t) PROVE IInv'
    <2>1. new[t] \in Nodes /\ Releasing(t) /\ new[t] \notin Free
      BY Zenon, <1>0, <1>6 DEF TypeOK, OneOwner, WriteNext, Releasing
    <2>2. TypeOK'
      BY Zenon, <1>0, <1>6 DEF TypeOK, WriteNext, Goto
    <2>3. OneOwner'
      BY <1>0, <1>6 DEF TypeOK, OneOwner, WriteNext, Goto, Releasing, Free
    <2>4. ListIsStack'
      <3>1. \A i \in DOMAIN stack : stack[i] # new[t]
        BY <2>1 DEF Free
      <3>2. \A i \in DOMAIN stack : next'[stack[i]] = next[stack[i]]
        BY <1>0, <1>6, <3>1 DEF WriteNext, TypeOK
      <3>3. QED
        BY Zenon, <1>0, <1>6, <3>2 DEF ListIsStack, WriteNext, Top, Below
    <2>5. Current'
      <3>1. free_head.node # Null => free_head.node \in Free
        <4>1. free_head.node # Null => stack # <<>> /\ free_head.node = stack[Len(stack)]
          BY <1>0 DEF ListIsStack, Top
        <4>2. stack # <<>> => Len(stack) \in DOMAIN stack
          BY Zenon, <1>0, Popping DEF TypeOK
        <4>3. QED
          BY <4>1, <4>2 DEF Free
      <3>2. \A n \in Nodes : n # new[t] => next'[n] = next[n]
        BY Zenon, <1>0, <1>6 DEF WriteNext, TypeOK
      <3>3. next'[new[t]] = old[t].node
        BY Zenon, <1>0, <1>6, <2>1 DEF WriteNext, TypeOK
      <3>4. \A u \in Threads : u # t /\ Releasing(u) => new[u] # new[t]
        BY Zenon, <1>0, <2>1 DEF OneOwner
      <3>5. \A u \in Threads : pc'[u] = IF u = t THEN "put_cas" ELSE pc[u]
        BY Zenon, <1>0, <1>6 DEF WriteNext, Goto, TypeOK
      <3>6. \A u \in Threads : pc[u] = "get_cas" /\ old[u] = free_head =>
                next'[old[u].node] = next[old[u].node]
        BY Zenon, <1>0, <2>1, <3>1, <3>2 DEF TypeOK
      <3>7. \A u \in Threads : u # t /\ pc[u] = "put_cas" => next'[new[u]] = next[new[u]]
        BY Zenon, <1>0, <3>2, <3>4 DEF TypeOK, Releasing
      <3>8. QED
        BY <1>0, <1>6, <3>3, <3>5, <3>6, <3>7 DEF Current, WriteNext
    <2>6. QED
      BY <2>2, <2>3, <2>4, <2>5 DEF IInv
  <1>7. ASSUME NEW t \in Threads, PutHead(t) PROVE IInv'
    <2>1. /\ new[t] \in Nodes /\ Releasing(t) /\ new[t] \notin Free /\ handles[new[t]] = 0
          /\ stack \in Seq(Nodes) /\ old[t] = free_head /\ next[new[t]] = free_head.node
      BY Zenon, <1>0, <1>7 DEF TypeOK, OneOwner, PutHead, Releasing, Unchanged, Current
    <2>2. /\ stack' \in Seq(Nodes) /\ stack' # <<>> /\ Len(stack') = Len(stack) + 1
          /\ DOMAIN stack' = 1 .. Len(stack) + 1 /\ DOMAIN stack = 1 .. Len(stack)
          /\ \A i \in 1 .. Len(stack) : stack'[i] = stack[i]
          /\ stack'[Len(stack) + 1] = new[t]
          /\ stack # <<>> => Len(stack) \in 1 .. Len(stack)
          /\ stack = <<>> => Len(stack) = 0
      BY <1>7, <2>1, Pushing DEF PutHead
    <2>3. Free' = Free \cup {new[t]}
      BY <2>1, <2>2 DEF Free
    <2>4. TypeOK'
      BY <1>0, <1>7, <2>1, <2>2 DEF TypeOK, PutHead, Goto
    <2>5. OneOwner'
      BY <1>0, <1>7, <2>1, <2>3 DEF TypeOK, OneOwner, PutHead, Goto, Releasing
    <2>6. ListIsStack'
      <3>1. free_head'.node = new[t] /\ next' = next
        BY Zenon, <1>7 DEF PutHead
      <3>2. free_head'.node = Top(stack')
        BY <2>2, <3>1 DEF Top
      <3>3. ASSUME NEW i \in DOMAIN stack' PROVE next'[stack'[i]] = Below(stack', i)
        <4>1. CASE i = Len(stack) + 1
          BY <1>0, <2>1, <2>2, <3>1, <4>1 DEF ListIsStack, Below, Top
        <4>2. CASE i # Len(stack) + 1
          BY <1>0, <2>1, <2>2, <3>1, <3>3, <4>2 DEF ListIsStack, Below
        <4>3. QED
          BY <4>1, <4>2
      <3>4. ASSUME NEW i \in DOMAIN stack', NEW j \in DOMAIN stack', stack'[i] = stack'[j]
            PROVE  i = j
        BY <1>0, <2>1, <2>2, <3>4 DEF ListIsStack, Free
      <3>5. QED
        BY <3>2, <3>3, <3>4 DEF ListIsStack
    <2>7. Current'
      BY <1>0, <1>7, <2>1 DEF TypeOK, Current, PutHead, Goto
    <2>8. QED
      BY <2>4, <2>5, <2>6, <2>7 DEF IInv
  <1>8. ASSUME NEW t \in Threads, RetryPut(t) PROVE IInv'
    <2>1. TypeOK'
      BY Zenon, <1>0, <1>8 DEF TypeOK, RetryPut, Goto
    <2>2. OneOwner'
      BY <1>0, <1>8 DEF TypeOK, OneOwner, RetryPut, Goto, Releasing, Free
    <2>3. ListIsStack'
      BY Zenon, <1>0, <1>8 DEF ListIsStack, RetryPut, Top, Below
    <2>4. Current'
      BY <1>0, <1>8 DEF TypeOK, Current, RetryPut, Goto
    <2>5. QED
      BY <2>1, <2>2, <2>3, <2>4 DEF IInv
  <1>9. CASE UNCHANGED vars
    <2>1. TypeOK'
      BY Zenon, <1>0, <1>9 DEF vars, TypeOK
    <2>2. OneOwner'
      BY Zenon, <1>0, <1>9 DEF vars, OneOwner, Releasing, Free
    <2>3. ListIsStack'
      BY Zenon, <1>0, <1>9 DEF vars, ListIsStack, Top, Below
    <2>4. Current'
      BY Zenon, <1>0, <1>9 DEF vars, Current
    <2>5. QED
      BY <2>1, <2>2, <2>3, <2>4 DEF IInv
  <1>10. QED
    BY Zenon, <1>1, <1>2, <1>3, <1>4, <1>5, <1>6, <1>7, <1>8, <1>9 DEF Next

\* The invariant holds in every reachable state of the pool.
LEMMA Invariance == Spec => []IInv
  BY InitIInv, NextIInv, PTL DEF Spec

\* For any threads and nodes: FindFreeHead never follows a null pointer,
\* GetObject never hands out an object that is in use, no object is released
\* into the list twice, and the list from free_head_ is the stack of the free
\* nodes, none of them lost or shared.
THEOREM Safe == Spec => []PoolIsStack
  BY Invariance, PTL DEF IInv, PoolIsStack

----------------------------------------------------------------------------
\* A new pool maps to a new ObjectPool.
LEMMA InitPool == Init => Pool!Init
  <1> SUFFICES ASSUME Init PROVE Pool!Init
    OBVIOUS
  <1>1. Free = Nodes
    BY ArenaIsStack DEF Init, Arenas, Free
  <1>2. QED
    BY <1>1 DEF Init, Pool!Init

\* The stack is empty when free_head_ is null.
LEMMA NullIsEmpty == IInv /\ free_head.node = Null => Free = {}
  <1> SUFFICES ASSUME IInv, free_head.node = Null PROVE stack = <<>>
    BY DEF Free
  <1>1. stack # <<>> => Len(stack) \in DOMAIN stack /\ stack[Len(stack)] \in Nodes
    BY Popping DEF IInv, TypeOK
  <1>2. QED
    BY <1>1, NodesAssumption DEF IInv, ListIsStack, Top

\* Every step of the pool maps to one of ObjectPool, or to none.
LEMMA NextPool == IInv /\ [Next]_vars => [Pool!Next]_<<Free, result>>
  <1> SUFFICES ASSUME IInv, [Next]_vars PROVE [Pool!Next]_<<Free, result>>
    OBVIOUS
  <1> USE DEF IInv
  <1>1. ASSUME NEW t \in Threads, LoadForGet(t)
        PROVE  Pool!Refuse(t) \/ UNCHANGED <<Free, result>>
    BY Zenon, <1>1, NullIsEmpty DEF LoadForGet, Free, Pool!Refuse
  <1>2. ASSUME NEW t \in Threads, TakeHead(t) PROVE Pool!Take(t)
    <2> DEFINE n == old[t].node
    <2>1. n \in Nodes /\ stack \in Seq(Nodes) /\ free_head.node = n
      BY Zenon, <1>2 DEF TakeHead, TypeOK, Unchanged
    <2>2. stack # <<>> /\ n = stack[Len(stack)]
      BY <2>1, NodesAssumption DEF ListIsStack, Top
    <2>3. /\ DOMAIN stack' = 1 .. Len(stack) - 1 /\ DOMAIN stack = 1 .. Len(stack)
          /\ Len(stack) \in 1 .. Len(stack)
          /\ \A i \in 1 .. Len(stack) - 1 : stack'[i] = stack[i]
      BY Zenon, <1>2, <2>1, <2>2, Popping DEF TakeHead
    <2>4. Len(stack) \in Nat
      BY <2>1
    <2>5. Free' = Free \ {n}
      BY <2>2, <2>3, <2>4 DEF ListIsStack, Free
    <2>6. n \in Free
      BY <2>2, <2>3 DEF Free
    <2>7. result' = [result EXCEPT ![t] = n]
      BY Zenon, <1>2 DEF TakeHead
    <2>8. QED
      BY Zenon, <2>5, <2>6, <2>7 DEF Pool!Take
  <1>3. ASSUME NEW t \in Threads, RetryGet(t)
        PROVE  Pool!Refuse(t) \/ UNCHANGED <<Free, result>>
    BY Zenon, <1>3, NullIsEmpty DEF RetryGet, Free, Pool!Refuse
  <1>4. ASSUME NEW t \in Threads, PutHead(t) PROVE Pool!Put
    <2>1. new[t] \in Nodes /\ new[t] \notin Free /\ stack \in Seq(Nodes)
      BY Zenon, <1>4 DEF TypeOK, OneOwner, PutHead, Releasing
    <2>2. /\ DOMAIN stack' = 1 .. Len(stack) + 1 /\ DOMAIN stack = 1 .. Len(stack)
          /\ \A i \in 1 .. Len(stack) : stack'[i] = stack[i]
          /\ stack'[Len(stack) + 1] = new[t]
      BY Zenon, <1>4, <2>1, Pushing DEF PutHead
    <2>3. Len(stack) \in Nat
      BY <2>1
    <2>4. Free' = Free \cup {new[t]}
      BY <2>2, <2>3 DEF Free
    <2>5. result' = result
      BY <1>4 DEF PutHead
    <2>6. QED
      BY <2>1, <2>4, <2>5 DEF Pool!Put
  <1>5. ASSUME NEW t \in Threads, ReadNext(t) \/ WriteNext(t) \/ RetryPut(t)
        PROVE  UNCHANGED <<Free, result>>
    BY Zenon, <1>5 DEF ReadNext, WriteNext, RetryPut, Free
  <1>6. ASSUME NEW t \in Threads, NEW n \in Nodes, LoadForRelease(t, n)
        PROVE  UNCHANGED <<Free, result>>
    BY <1>6 DEF LoadForRelease, Free
  <1>7. CASE UNCHANGED vars
    BY <1>7 DEF vars, Free
  <1>8. QED
    BY Zenon, <1>1, <1>2, <1>3, <1>4, <1>5, <1>6, <1>7 DEF Next, Pool!Next

\* For any threads and nodes the pool implements ObjectPool: every GetObject
\* takes a free object or is refused when there is none, at one moment of the
\* call, and every ReleaseObject puts its object back at one moment.
THEOREM Refinement == Spec => ImplementsPool
  <1>1. Init => Pool!Init
    BY InitPool
  <1>2. IInv /\ [Next]_vars => [Pool!Next]_<<Free, result>>
    BY NextPool
  <1>3. QED
    BY <1>1, <1>2, Invariance, PTL DEF Spec, ImplementsPool, Pool!Spec

-----------------------------------------------------------------------------
(***************************************************************************)
(* GridSearch.                                                             *)
(***************************************************************************)
Queued(c) == \E e \in open_pq : e[1] = c

\* What a cell that was met, in the map or in the queue, satisfies.
Sound(c) ==
    /\ cost[c] <= path_cost[c]
    /\ c = end_node => cost[c] = 0
    /\ c # end_node =>
         /\ pre_node[c] \in dp_map /\ c \in Neighbours(pre_node[c]) /\ c \notin near
         /\ cost[c] >= cost[pre_node[c]] + StepCost(pre_node[c], c)

\* The inductive invariant.  The queue holds the cells that were met and are not
\* in the map, each at its path cost, which is no less than that of any cell in
\* the map: this order makes up for the path costs that are not lowered.
GridInv ==
    /\ GridTypeOK
    /\ \A c \in Grid : c \in open_set <=> c \in dp_map \/ Queued(c)
    /\ \A c \in dp_map : ~Queued(c)
    /\ grid_pc = "idle" => open_pq = {}
    /\ grid_pc = "search" => plans > 0
    /\ plans > 0 => end_node \in open_set
    /\ \A e \in open_pq : e[2] = path_cost[e[1]]
    /\ \A c \in dp_map : \A e \in open_pq : path_cost[c] <= e[2]
    /\ \A c \in open_set : Sound(c)
    /\ WayIsShort

\* A step of the search costs something, and leads into the grid.
LEMMA StepCostIsPositive == \A c, d : StepCost(c, d) \in Nat /\ StepCost(c, d) > 0
  BY DEF StepCost

\* Neighbours are cells of the grid other than the cell.
LEMMA NeighboursInGrid == \A c : \A d \in Neighbours(c) : d \in Grid /\ d # c
  BY DEF Neighbours

\* GenerateDpMap begins with a map and nodes of its own.
LEMMA GenerateKeepsInv == GridInv /\ GenerateDpMap => GridInv'
<1> SUFFICES ASSUME GridInv, GenerateDpMap PROVE GridInv'
  OBVIOUS
<1>1. PICK p \in Plans : /\ end_node' = p[1] /\ near' = p[2]
                         /\ open_set' = {p[1]} /\ open_pq' = {<<p[1], 0>>}
  BY DEF GenerateDpMap
<1>2. p[1] \in Grid /\ p[2] \subseteq Grid
  BY <1>1, GridAssumption
<1>3. GridTypeOK'
  BY <1>1, <1>2 DEF GenerateDpMap, GridInv, GridTypeOK
<1>4. (\A c \in Grid : c \in open_set <=> c \in dp_map \/ Queued(c))'
  BY <1>1 DEF GenerateDpMap, Queued
<1>5. (\A e \in open_pq : e[2] = path_cost[e[1]])'
  BY <1>1, <1>2 DEF GenerateDpMap
<1>6. (\A c \in open_set : Sound(c))'
  BY <1>1, <1>2 DEF GenerateDpMap, Sound
<1> QED
  BY <1>1, <1>3, <1>4, <1>5, <1>6 DEF GenerateDpMap, GridInv, GridTypeOK, WayIsShort

\* One turn of the loop, for the node that has the least cost.
LEMMA PopKeepsInv == GridInv /\ Pop => GridInv'
<1> SUFFICES ASSUME GridInv, Pop PROVE GridInv'
  OBVIOUS
<1>1. PICK top \in Tops : Explore(top[1])
  BY DEF Pop
<1> DEFINE cur == top[1]
           open == {c \in Neighbours(cur) : CheckConstraints(c) /\ c \notin dp_map}
           through == [c \in Grid |-> path_cost[cur] + StepCost(cur, c)]
           met == open \ open_set
           cheaper == {c \in open \cap open_set : cost[c] > through[c]}
<1>2. /\ dp_map' = dp_map \cup {cur}
      /\ open_set' = open_set \cup met
      /\ path_cost' = [c \in Grid |-> IF c \in met THEN through[c] ELSE path_cost[c]]
      /\ cost' = [c \in Grid |-> IF c \in met \cup cheaper THEN through[c] ELSE cost[c]]
      /\ pre_node' = [c \in Grid |-> IF c \in met \cup cheaper THEN cur ELSE pre_node[c]]
      /\ open_pq' = {e \in open_pq : e[1] # cur} \cup {<<c, through[c]>> : c \in met}
  BY Zenon, <1>1 DEF Explore
<1>3. UNCHANGED <<grid_pc, end_node, near, plans>> /\ grid_pc = "search"
  BY DEF Pop
<1>4. /\ top \in open_pq /\ cur \in Grid /\ cur \notin dp_map /\ cur \in open_set
      /\ top[2] = path_cost[cur] /\ path_cost[cur] \in Nat
      /\ \A e \in open_pq : path_cost[cur] <= e[2]
  BY Zenon, <1>1 DEF Tops, GridInv, GridTypeOK, Queued
<1>5. \A c \in Grid : through[c] \in Nat /\ through[c] = path_cost[cur] + StepCost(cur, c)
                      /\ through[c] > path_cost[cur]
  BY <1>4, StepCostIsPositive
<1>6. /\ open \subseteq Grid /\ cur \notin open
      /\ \A c \in open : c \in Neighbours(cur) /\ c \notin near /\ c \notin dp_map
      /\ met \subseteq open /\ cheaper \subseteq open /\ cheaper \subseteq open_set
      /\ met \cap open_set = {}
  BY Zenon, NeighboursInGrid DEF CheckConstraints
<1> HIDE DEF cur, open, through, met, cheaper
<1>7. GridTypeOK'
  <2>1. open_pq' \subseteq Grid \X Nat
    BY <1>2, <1>5, <1>6 DEF GridInv, GridTypeOK
  <2> QED
    BY Zenon, <2>1, <1>2, <1>3, <1>4, <1>5, <1>6 DEF GridInv, GridTypeOK
<1>8. \A c \in dp_map' : path_cost'[c] = path_cost[c] /\ cost'[c] = cost[c] /\ c \in Grid
  BY Zenon, <1>2, <1>4, <1>6 DEF GridInv, GridTypeOK
<1>9. \A e \in open_pq' : \/ e \in open_pq /\ e[1] # cur /\ e[1] \notin met
                          \/ e[1] \in met /\ e[2] = through[e[1]]
  BY <1>2, <1>6 DEF GridInv, GridTypeOK, Queued
<1>10. \A c \in Grid : Queued(c)' <=> (Queued(c) /\ c # cur) \/ c \in met
  <2>1. ASSUME NEW c \in Grid, c \in met PROVE Queued(c)'
    <3>1. <<c, through[c]>> \in open_pq'
      BY Zenon, <2>1, <1>2
    <3> QED BY <3>1 DEF Queued
  <2>2. ASSUME NEW c \in Grid, Queued(c), c # cur PROVE Queued(c)'
    BY Zenon, <2>2, <1>2 DEF Queued
  <2>3. ASSUME NEW c \in Grid, Queued(c)' PROVE (Queued(c) /\ c # cur) \/ c \in met
    BY <2>3, <1>9 DEF Queued
  <2> QED BY <2>1, <2>2, <2>3
<1>11. (\A c \in Grid : c \in open_set <=> c \in dp_map \/ Queued(c))'
  BY Zenon, <1>2, <1>4, <1>10 DEF GridInv
<1>12. (\A c \in dp_map : ~Queued(c))'
  BY Zenon, <1>2, <1>4, <1>6, <1>8, <1>10 DEF GridInv
<1>13. (\A e \in open_pq : e[2] = path_cost[e[1]])'
  BY Zenon, <1>2, <1>6, <1>9 DEF GridInv, GridTypeOK
<1>14. (\A c \in dp_map : \A e \in open_pq : path_cost[c] <= e[2])'
  <2> SUFFICES ASSUME NEW c \in dp_map', NEW e \in open_pq' PROVE path_cost[c] <= e[2]
    BY <1>8
  <2>1. path_cost[c] <= path_cost[cur] /\ path_cost[c] \in Nat
    BY Zenon, <1>2, <1>4 DEF GridInv, GridTypeOK
  <2>2. path_cost[cur] <= e[2] /\ e[2] \in Nat
    BY <1>4, <1>5, <1>6, <1>9 DEF GridInv, GridTypeOK
  <2> QED BY <2>1, <2>2, <1>4
<1>15. (\A c \in open_set : Sound(c))'
  <2> SUFFICES ASSUME NEW c \in open_set' PROVE Sound(c)'
    OBVIOUS
  <2>1. c \in Grid
    BY <1>7 DEF GridTypeOK
  <2>2. CASE c \in met
    <3>1. cost'[c] = through[c] /\ path_cost'[c] = through[c] /\ pre_node'[c] = cur
      BY <2>1, <2>2, <1>2
    <3>2. c # end_node
      BY Zenon, <2>2, <1>3, <1>6 DEF GridInv
    <3>3. cost'[cur] <= path_cost[cur] /\ cost'[cur] \in Nat
      BY Zenon, <1>2, <1>4, <1>8 DEF GridInv, GridTypeOK, Sound
    <3>4. through[c] >= cost'[cur] + StepCost(cur, c)
      BY <2>1, <3>3, <1>4, <1>5, StepCostIsPositive
    <3> QED
      BY <2>1, <2>2, <3>1, <3>2, <3>4, <1>2, <1>3, <1>5, <1>6 DEF Sound
  <2>3. CASE c \in cheaper
    <3>1. /\ cost'[c] = through[c] /\ path_cost'[c] = path_cost[c] /\ pre_node'[c] = cur
          /\ cost[c] > through[c] /\ cost[c] \in Nat /\ path_cost[c] \in Nat /\ c \in open_set
      BY Zenon, <2>1, <2>3, <1>2, <1>6 DEF GridInv, GridTypeOK, cheaper
    <3>2. Sound(c)
      BY Zenon, <3>1 DEF GridInv
    <3>3. c # end_node /\ through[c] <= path_cost[c]
      BY <2>1, <3>1, <3>2, <1>5 DEF Sound
    <3>4. cost'[cur] <= path_cost[cur] /\ cost'[cur] \in Nat
      BY Zenon, <1>2, <1>4, <1>8 DEF GridInv, GridTypeOK, Sound
    <3>5. through[c] >= cost'[cur] + StepCost(cur, c)
      BY <2>1, <3>4, <1>4, <1>5, StepCostIsPositive
    <3> QED
      BY Zenon, <2>3, <3>1, <3>3, <3>5, <1>2, <1>3, <1>6 DEF Sound
  <2>4. CASE c \notin met /\ c \notin cheaper
    <3>1. c \in open_set /\ Sound(c)
      BY Zenon, <2>4, <1>2 DEF GridInv
    <3>2. cost'[c] = cost[c] /\ path_cost'[c] = path_cost[c] /\ pre_node'[c] = pre_node[c]
      BY Zenon, <2>1, <2>4, <1>2
    <3>3. c # end_node => cost'[pre_node[c]] = cost[pre_node[c]] /\ pre_node[c] \in dp_map'
      BY Zenon, <3>1, <1>2, <1>8 DEF Sound
    <3> QED
      BY Zenon, <3>1, <3>2, <3>3, <1>3 DEF Sound
  <2> QED BY <2>2, <2>3, <2>4
<1>16. WayIsShort'
  <2> SUFFICES ASSUME NEW d \in dp_map', NEW c \in Neighbours(d), c \notin near
               PROVE  c \in open_set' /\ cost'[c] <= path_cost'[d] + StepCost(d, c)
    BY <1>3 DEF WayIsShort, CheckConstraints
  <2>1. c \in Grid /\ d \in Grid /\ path_cost'[d] = path_cost[d] /\ path_cost[d] \in Nat
    BY Zenon, <1>8, NeighboursInGrid DEF GridInv, GridTypeOK
  <2>2. c \in open_set => cost'[c] <= cost[c] /\ cost'[c] \in Nat /\ cost[c] \in Nat
    BY <2>1, <1>2, <1>5, <1>6 DEF GridInv, GridTypeOK, cheaper
  <2>3. CASE d \in dp_map
    <3>1. c \in open_set /\ cost[c] <= path_cost[d] + StepCost(d, c)
      BY Zenon, <2>1, <2>3 DEF GridInv, WayIsShort, CheckConstraints
    <3> QED
      BY <2>1, <2>2, <3>1, <1>2, StepCostIsPositive
  <2>4. CASE d = cur /\ c \in dp_map
    <3>1. c \in open_set /\ cost[c] <= path_cost[c] /\ path_cost[c] <= path_cost[cur]
          /\ path_cost[c] \in Nat
      BY Zenon, <2>1, <2>4, <1>4 DEF GridInv, GridTypeOK, Sound
    <3> QED
      BY <2>1, <2>2, <2>4, <3>1, <1>2, StepCostIsPositive
  <2>5. CASE d = cur /\ c \notin dp_map
    <3>1. c \in open
      BY <2>1, <2>5 DEF open, CheckConstraints
    <3>2. c \in open_set' /\ cost'[c] <= through[c]
      <4>1. CASE c \in met \cup cheaper
        BY <2>1, <4>1, <1>2, <1>5, <1>6
      <4>2. CASE c \notin met \cup cheaper
        <5>1. c \in open_set /\ ~(cost[c] > through[c]) /\ cost'[c] = cost[c]
          BY Zenon, <2>1, <3>1, <4>2, <1>2 DEF met, cheaper
        <5> QED BY <2>1, <2>2, <5>1, <1>2, <1>5
      <4> QED BY <4>1, <4>2
    <3> QED
      BY <2>1, <2>5, <3>2, <1>5
  <2> QED BY Zenon, <2>3, <2>4, <2>5, <1>2
<1>17. /\ (grid_pc = "idle" => open_pq = {})' /\ (grid_pc = "search" => plans > 0)'
       /\ (plans > 0 => end_node \in open_set)'
  BY Zenon, <1>2, <1>3 DEF GridInv
<1> QED
  BY Zenon, <1>7, <1>11, <1>12, <1>13, <1>14, <1>15, <1>16, <1>17 DEF GridInv

\* For every grid, obstacles and end, and whichever of several cheapest nodes
\* the queue yields: the map of GenerateDpMap answers with distances of ways
\* that exist, of no more than a neighbour offers, and for every cell that can
\* be reached.
THEOREM DistanceMapIsHonest == GridSpec => []DistancesAreHonest
<1>1. GridInit => GridInv
  BY DEF GridInit, GridInv, GridTypeOK, Queued, WayIsShort
<1>2. GridInv /\ [GridNext]_gridVars => GridInv'
  <2> SUFFICES ASSUME GridInv, [GridNext]_gridVars PROVE GridInv'
    OBVIOUS
  <2>1. CASE Finish
    BY Zenon, <2>1 DEF Finish, GridInv, GridTypeOK, Queued, Sound, WayIsShort,
       CheckConstraints
  <2>2. CASE UNCHANGED gridVars
    BY Zenon, <2>2 DEF gridVars, GridInv, GridTypeOK, Queued, Sound, WayIsShort,
       CheckConstraints
  <2> QED
    BY <2>1, <2>2, GenerateKeepsInv, PopKeepsInv DEF GridNext
<1>3. GridInv => DistancesAreHonest
  <2> SUFFICES ASSUME GridInv PROVE DistancesAreHonest
    OBVIOUS
  <2>1. dp_map \subseteq open_set /\ open_set \subseteq Grid
    BY DEF GridInv, GridTypeOK
  <2>2. WayExists
    BY Zenon, <2>1 DEF GridInv, Sound, WayExists, CheckConstraints
  <2>3. grid_pc = "idle" => open_set \subseteq dp_map
    BY <2>1 DEF GridInv, Queued
  <2>4. MapIsComplete
    BY <2>3 DEF GridInv, GridTypeOK, WayIsShort, MapIsComplete, CheckDpMap, Infinity
  <2> QED
    BY <2>2, <2>4 DEF GridInv, DistancesAreHonest
<1> QED
  BY <1>1, <1>2, <1>3, PTL DEF GridSpec

-----------------------------------------------------------------------------
(***************************************************************************)
(* ConditionNotifier, when no thread falls behind by the length of the     *)
(* ring.  A listener that copies a slot has seen the number of its         *)
(* notification there, and the slot is not written again before it has     *)
(* copied: two numbers of one slot are a whole round apart (SlotsApart),   *)
(* and those being written or read are less than a round old.              *)
(***************************************************************************)
CONSTANTS Notifiers, Listeners, kBufLength, MaxSeq
VARIABLES next_seq, infos, seqs, writer, listener

Ring == INSTANCE ConditionNotifier WITH KeepsUp <- TRUE

\* the notifications whose slots are theirs: not older than the ring is long
InWindow(s) == s < next_seq /\ next_seq - s <= kBufLength
SlotOf(s) == s % kBufLength

\* the records of the threads
Places == [pc : {"idle", "info", "seq"}, seq : 0 .. MaxSeq]
Positions == [pc : {"new", "idle", "copy"}, next : 0 .. MaxSeq,
              seq : {-1} \cup (0 .. MaxSeq), info : {-1} \cup (0 .. MaxSeq - 1)]

RingTypes ==
  /\ next_seq \in 0 .. MaxSeq
  /\ infos \in [0 .. kBufLength - 1 -> {-1} \cup (0 .. MaxSeq - 1)]
  /\ seqs \in [0 .. kBufLength - 1 -> 0 .. MaxSeq]
  /\ writer \in [Notifiers -> Places]
  /\ listener \in [Listeners -> Positions]

\* Nobody falls behind by more than the ring, and what a notifier is about to
\* number is in its slot.
WritersInWindow ==
  \A n \in Notifiers :
    /\ writer[n].seq <= next_seq
    /\ writer[n].pc # "idle" => InWindow(writer[n].seq)
    /\ writer[n].pc = "seq" => infos[SlotOf(writer[n].seq)] = writer[n].seq

\* A slot that shows the number of a notification that may be read has its info.
SlotsMatch ==
  \A i \in 0 .. kBufLength - 1 : seqs[i] > 0 =>
    /\ seqs[i] < next_seq /\ SlotOf(seqs[i]) = i
    /\ InWindow(seqs[i]) => infos[i] = seqs[i]

\* A listener that is about to copy still has its notification before it.
ListenersInWindow ==
  \A l \in Listeners :
    /\ listener[l].next <= next_seq
    /\ listener[l].pc # "new" => next_seq - listener[l].next <= kBufLength
    /\ listener[l].pc = "copy" =>
         InWindow(listener[l].next) /\ seqs[SlotOf(listener[l].next)] = listener[l].next
    /\ listener[l].seq > 0 => listener[l].info = listener[l].seq

RingInv == RingTypes /\ WritersInWindow /\ SlotsMatch /\ ListenersInWindow

\* What is assumed of the constants.
RingAssumption == kBufLength \in Nat \ {0} /\ MaxSeq \in Nat

\* A number is whole rounds of the ring and a slot.
LEMMA Rounds ==
  ASSUME NEW K \in Nat \ {0}, NEW s \in Nat
  PROVE  \E k \in Int : s = k * K + (s % K) /\ s % K \in 0 .. K - 1
<1>1. s \div K \in Int /\ s = (s \div K) * K + (s % K) /\ s % K \in 0 .. K - 1
  BY Z3
<1> QED BY Zenon, <1>1

\* A multiple of K strictly between -K and K is zero.
LEMMA NoShortRound ==
  ASSUME NEW K \in Nat, NEW k \in Int, -K < k * K, k * K < K
  PROVE  k * K = 0
<1>1. CASE k >= 1
  <2>1. k * K >= K
    BY <1>1, Z3
  <2> QED BY <2>1
<1>2. CASE k <= -1
  <2>1. k * K <= -K
    BY <1>2, Z3
  <2> QED BY <2>1
<1>3. CASE k = 0
  BY <1>3
<1> QED BY <1>1, <1>2, <1>3

\* No two notifications of the window share a slot.
LEMMA SlotsApart ==
  ASSUME RingAssumption, next_seq \in Nat,
         NEW s \in Nat, NEW t \in Nat, InWindow(s), InWindow(t), SlotOf(s) = SlotOf(t)
  PROVE  s = t
<1> DEFINE K == kBufLength
<1>1. K \in Nat \ {0}
  BY Zenon DEF RingAssumption
<1>2. PICK a \in Int : s = a * K + (s % K) /\ s % K \in 0 .. K - 1
  BY Zenon, <1>1, Rounds
<1>3. PICK b \in Int : t = b * K + (t % K) /\ t % K \in 0 .. K - 1
  BY Zenon, <1>1, Rounds
<1>4. s - t = a * K - b * K /\ a * K \in Int /\ b * K \in Int
  <2>1. s % K = t % K
    BY Zenon DEF SlotOf
  <2>2. a * K \in Int /\ b * K \in Int
    BY <1>1, Z3
  <2> QED BY <1>2, <1>3, <2>1, <2>2
<1>5. (a - b) * K = a * K - b * K
  BY <1>1, Z3
<1>6. -K < s - t /\ s - t < K
  BY <1>1 DEF InWindow
<1>7. (a - b) * K = 0
  BY <1>1, <1>4, <1>5, <1>6, NoShortRound
<1> QED BY <1>4, <1>5, <1>7

\* The slot of a notification is one of the ring.
LEMMA SlotInRing ==
  ASSUME RingAssumption
  PROVE  \A s \in Nat : SlotOf(s) \in 0 .. kBufLength - 1
BY Zenon, Rounds DEF RingAssumption, SlotOf

\* What the steps of a notifier do.
LEMMA NotifierFrame ==
  ASSUME RingAssumption, RingInv, NEW n \in Notifiers
  PROVE  /\ next_seq \in Nat /\ kBufLength \in Nat \ {0} /\ MaxSeq \in Nat
         /\ writer[n].seq \in Nat /\ SlotOf(writer[n].seq) \in 0 .. kBufLength - 1
<1>1. next_seq \in Nat /\ kBufLength \in Nat \ {0} /\ MaxSeq \in Nat /\ writer[n] \in Places
  BY DEF RingAssumption, RingInv, RingTypes
<1>2. writer[n].seq \in Nat
  BY <1>1 DEF Places
<1> QED BY Zenon, <1>1, <1>2, SlotInRing

\* A new ring.
LEMMA RingBegins == RingAssumption /\ Ring!Init => RingInv
<1> SUFFICES ASSUME RingAssumption, Ring!Init PROVE RingInv
  OBVIOUS
<1> USE DEF Ring!Init, Ring!NoInfo, Ring!Slots
<1>1. 0 \in 0 .. MaxSeq /\ 0 <= next_seq /\ next_seq \in 0 .. MaxSeq
  BY DEF RingAssumption
<1>2. writer \in [Notifiers -> Places] /\ listener \in [Listeners -> Positions]
  BY Zenon, <1>1 DEF Places, Positions
<1>3. RingTypes
  BY Zenon, <1>1, <1>2 DEF RingTypes
<1>4. WritersInWindow
  BY Zenon, <1>1 DEF WritersInWindow
<1>5. SlotsMatch
  BY DEF SlotsMatch
<1>6. ListenersInWindow
  BY Zenon, <1>1 DEF ListenersInWindow
<1> QED BY Zenon, <1>3, <1>4, <1>5, <1>6 DEF RingInv

\* Claim: there is room, so whoever was in the window still is.
LEMMA Claiming ==
  ASSUME RingAssumption, RingInv, NEW n \in Notifiers, Ring!Claim(n)
  PROVE  RingInv'
<1>1. /\ next_seq \in Nat /\ next_seq < MaxSeq /\ next_seq' = next_seq + 1
      /\ kBufLength \in Nat \ {0} /\ MaxSeq \in Nat
      /\ UNCHANGED <<infos, seqs, listener>>
  BY Zenon, NotifierFrame DEF Ring!Claim
<1>2. /\ \A m \in Notifiers \ {n} : writer'[m] = writer[m]
      /\ writer'[n] = [pc |-> "info", seq |-> next_seq]
      /\ writer' = [writer EXCEPT ![n] = [pc |-> "info", seq |-> next_seq]]
  BY Zenon DEF Ring!Claim, RingInv, RingTypes
<1>3. Ring!Room
  BY Zenon DEF Ring!Claim
<1>4. RingTypes'
  <2>1. [pc |-> "info", seq |-> next_seq] \in Places
    BY <1>1 DEF Places
  <2> QED BY <1>1, <1>2, <2>1 DEF RingInv, RingTypes
<1>5. WritersInWindow'
  <2>1. ASSUME NEW m \in Notifiers \ {n}
        PROVE  /\ writer'[m].seq <= next_seq'
               /\ writer'[m].pc # "idle" => InWindow(writer[m].seq)'
               /\ writer'[m].pc = "seq" => infos'[SlotOf(writer'[m].seq)] = writer'[m].seq
    <3>1. writer[m].seq \in Nat /\ writer'[m] = writer[m]
      BY Zenon, <1>2, NotifierFrame
    <3>2. /\ writer[m].seq <= next_seq
          /\ writer[m].pc # "idle" => writer[m].seq < next_seq
          /\ writer[m].pc = "seq" => infos[SlotOf(writer[m].seq)] = writer[m].seq
      BY Zenon DEF RingInv, WritersInWindow, InWindow
    <3>3. writer[m].pc # "idle" => next_seq - writer[m].seq < kBufLength
      BY Zenon, <1>3 DEF Ring!Room
    <3> QED BY <1>1, <3>1, <3>2, <3>3 DEF InWindow
  <2>2. /\ writer'[n].seq <= next_seq' /\ InWindow(writer[n].seq)'
        /\ writer'[n].pc = "info"
    BY <1>1, <1>2 DEF InWindow
  <2>3. "info" # "seq"
    OBVIOUS
  <2> QED BY Zenon, <2>1, <2>2, <2>3 DEF WritersInWindow, SlotOf
<1>6. SlotsMatch'
  <2> SUFFICES ASSUME NEW i \in 0 .. kBufLength - 1, seqs[i] > 0
               PROVE  /\ seqs[i] < next_seq' /\ SlotOf(seqs[i]) = i
                      /\ InWindow(seqs[i])' => infos[i] = seqs[i]
    BY Zenon, <1>1 DEF SlotsMatch, SlotOf, InWindow
  <2>1. seqs[i] \in Nat
    BY DEF RingInv, RingTypes
  <2> QED BY <1>1, <2>1 DEF RingInv, SlotsMatch, InWindow
<1>7. ListenersInWindow'
  <2> SUFFICES ASSUME NEW l \in Listeners
               PROVE  /\ listener[l].next <= next_seq'
                      /\ listener[l].pc # "new" => next_seq' - listener[l].next <= kBufLength
                      /\ listener[l].pc = "copy" =>
                           /\ InWindow(listener[l].next)'
                           /\ seqs[SlotOf(listener[l].next)] = listener[l].next
                      /\ listener[l].seq > 0 => listener[l].info = listener[l].seq
    BY Zenon, <1>1 DEF ListenersInWindow, SlotOf, InWindow
  <2>1. listener[l].next \in Nat
    BY DEF RingInv, RingTypes, Positions
  <2>2. listener[l].pc # "new" => next_seq - listener[l].next < kBufLength
    BY Zenon, <1>3 DEF Ring!Room
  <2>3. "copy" # "new"
    OBVIOUS
  <2> QED BY <1>1, <2>1, <2>2, <2>3 DEF RingInv, ListenersInWindow, InWindow
<1> QED BY Zenon, <1>4, <1>5, <1>6, <1>7 DEF RingInv

\* WriteInfo: the slot is that of no other notification of the window.
LEMMA WritingInfo ==
  ASSUME RingAssumption, RingInv, NEW n \in Notifiers, Ring!WriteInfo(n)
  PROVE  RingInv'
<1> DEFINE s == writer[n].seq
           j == SlotOf(s)
<1>1. /\ next_seq \in Nat /\ kBufLength \in Nat \ {0} /\ MaxSeq \in Nat
      /\ s \in Nat /\ j \in 0 .. kBufLength - 1 /\ InWindow(s)
  <2>1. writer[n].pc # "idle"
    BY Zenon DEF Ring!WriteInfo
  <2> QED BY Zenon, <2>1, NotifierFrame DEF RingInv, WritersInWindow
<1>2. /\ UNCHANGED <<next_seq, seqs, listener>>
      /\ infos' = [infos EXCEPT ![j] = s]
      /\ writer' = [writer EXCEPT ![n].pc = "seq"]
  BY Zenon DEF Ring!WriteInfo, SlotOf
<1>3. /\ \A m \in Notifiers \ {n} : writer'[m] = writer[m]
      /\ writer'[n].pc = "seq" /\ writer'[n].seq = s
      /\ writer' \in [Notifiers -> Places]
  BY Zenon, <1>2 DEF RingInv, RingTypes, Places
<1>4. infos'[j] = s /\ \A i \in 0 .. kBufLength - 1 : i # j => infos'[i] = infos[i]
  BY Zenon, <1>1, <1>2 DEF RingInv, RingTypes
<1> HIDE DEF s, j
<1>5. RingTypes'
  <2>1. s \in 0 .. MaxSeq - 1
    BY <1>1 DEF RingInv, RingTypes, InWindow
  <2> QED BY Zenon, <1>1, <1>2, <1>3, <2>1 DEF RingInv, RingTypes
<1>6. ASSUME NEW v \in Nat, InWindow(v), infos[SlotOf(v)] = v
      PROVE  infos'[SlotOf(v)] = v
  <2>1. SlotOf(v) \in 0 .. kBufLength - 1
    BY Zenon, SlotInRing
  <2>2. CASE SlotOf(v) = j
    <3>1. v = s
      BY Zenon, <1>1, <1>6, <2>2, SlotsApart DEF j
    <3> QED BY Zenon, <1>4, <2>2, <3>1
  <2>3. CASE SlotOf(v) # j
    BY Zenon, <1>4, <1>6, <2>1, <2>3
  <2> QED BY Zenon, <2>2, <2>3
<1>7. WritersInWindow'
  <2>1. ASSUME NEW m \in Notifiers \ {n}
        PROVE  /\ writer[m].seq <= next_seq
               /\ writer[m].pc # "idle" => InWindow(writer[m].seq)
               /\ writer[m].pc = "seq" => infos'[SlotOf(writer[m].seq)] = writer[m].seq
    <3>1. writer[m].seq \in Nat
      BY Zenon, NotifierFrame
    <3>2. "seq" # "idle"
      OBVIOUS
    <3> QED BY Zenon, <1>6, <3>1, <3>2 DEF RingInv, WritersInWindow
  <2>2. s <= next_seq
    BY <1>1 DEF InWindow
  <2> QED BY Zenon, <1>1, <1>2, <1>3, <1>4, <2>1, <2>2 DEF WritersInWindow, SlotOf, InWindow, j
<1>8. SlotsMatch'
  <2> SUFFICES ASSUME NEW i \in 0 .. kBufLength - 1, seqs[i] > 0
               PROVE  /\ seqs[i] < next_seq /\ SlotOf(seqs[i]) = i
                      /\ InWindow(seqs[i]) => infos'[i] = seqs[i]
    BY Zenon, <1>2 DEF SlotsMatch, SlotOf, InWindow
  <2>1. seqs[i] \in Nat
    BY DEF RingInv, RingTypes
  <2> QED BY Zenon, <1>6, <2>1 DEF RingInv, SlotsMatch
<1>9. ListenersInWindow'
  BY Zenon, <1>2 DEF RingInv, ListenersInWindow, SlotOf, InWindow
<1> QED BY Zenon, <1>5, <1>7, <1>8, <1>9 DEF RingInv

\* WriteSeq: the info is there, and no listener loses what it is about to copy.
LEMMA WritingSeq ==
  ASSUME RingAssumption, RingInv, NEW n \in Notifiers, Ring!WriteSeq(n)
  PROVE  RingInv'
<1> DEFINE s == writer[n].seq
           j == SlotOf(s)
<1>1. /\ next_seq \in Nat /\ kBufLength \in Nat \ {0} /\ MaxSeq \in Nat
      /\ s \in Nat /\ j \in 0 .. kBufLength - 1 /\ InWindow(s) /\ infos[j] = s
  <2>1. writer[n].pc # "idle" /\ writer[n].pc = "seq"
    BY Zenon DEF Ring!WriteSeq
  <2> QED BY Zenon, <2>1, NotifierFrame DEF RingInv, WritersInWindow
<1>2. /\ UNCHANGED <<next_seq, infos, listener>>
      /\ seqs' = [seqs EXCEPT ![j] = s]
      /\ writer' = [writer EXCEPT ![n].pc = "idle"]
  BY Zenon DEF Ring!WriteSeq, SlotOf
<1>3. /\ \A m \in Notifiers \ {n} : writer'[m] = writer[m]
      /\ writer'[n].pc = "idle" /\ writer'[n].seq = s
      /\ writer' \in [Notifiers -> Places]
  BY Zenon, <1>2 DEF RingInv, RingTypes, Places
<1>4. seqs'[j] = s /\ \A i \in 0 .. kBufLength - 1 : i # j => seqs'[i] = seqs[i]
  BY Zenon, <1>1, <1>2 DEF RingInv, RingTypes
<1> HIDE DEF s, j
<1>5. RingTypes'
  <2>1. s \in 0 .. MaxSeq
    BY <1>1 DEF RingInv, RingTypes, InWindow
  <2> QED BY Zenon, <1>1, <1>2, <1>3, <2>1 DEF RingInv, RingTypes
<1>6. WritersInWindow'
  <2>1. s <= next_seq
    BY <1>1 DEF InWindow
  <2>2. "idle" # "seq"
    OBVIOUS
  <2> QED BY Zenon, <1>1, <1>2, <1>3, <2>1, <2>2 DEF RingInv, WritersInWindow, SlotOf, InWindow
<1>7. SlotsMatch'
  <2> SUFFICES ASSUME NEW i \in 0 .. kBufLength - 1, seqs'[i] > 0
               PROVE  /\ seqs'[i] < next_seq /\ SlotOf(seqs[i])' = i
                      /\ InWindow(seqs[i])' => infos[i] = seqs'[i]
    BY Zenon, <1>2 DEF SlotsMatch
  <2>1. CASE i = j
    BY Zenon, <1>1, <1>2, <1>4, <2>1 DEF InWindow, SlotOf, j
  <2>2. CASE i # j
    BY Zenon, <1>2, <1>4, <2>2 DEF RingInv, SlotsMatch, InWindow, SlotOf
  <2> QED BY Zenon, <2>1, <2>2
<1>8. ListenersInWindow'
  <2>1. ASSUME NEW l \in Listeners, listener[l].pc = "copy"
        PROVE  seqs'[SlotOf(listener[l].next)] = listener[l].next
    <3>1. /\ listener[l].next \in Nat /\ InWindow(listener[l].next)
          /\ seqs[SlotOf(listener[l].next)] = listener[l].next
      BY <2>1 DEF RingInv, RingTypes, Positions, ListenersInWindow
    <3>2. SlotOf(listener[l].next) \in 0 .. kBufLength - 1
      BY Zenon, <3>1, SlotInRing
    <3>3. CASE SlotOf(listener[l].next) = j
      <4>1. listener[l].next = s
        BY Zenon, <1>1, <3>1, <3>3, SlotsApart DEF j
      <4> QED BY Zenon, <1>4, <3>3, <4>1
    <3>4. CASE SlotOf(listener[l].next) # j
      BY Zenon, <1>4, <3>1, <3>2, <3>4
    <3> QED BY Zenon, <3>3, <3>4
  <2> QED BY Zenon, <1>2, <2>1 DEF RingInv, ListenersInWindow, SlotOf, InWindow
<1> QED BY Zenon, <1>5, <1>6, <1>7, <1>8 DEF RingInv

\* The steps of a listener: it joins at the newest notification, and copies the
\* info of the slot that shows the number it waits for.
LEMMA Listening ==
  ASSUME RingAssumption, RingInv, NEW l \in Listeners,
         Ring!Join(l) \/ Ring!Look(l) \/ Ring!Copy(l)
  PROVE  RingInv'
<1>1. UNCHANGED <<next_seq, infos, seqs, writer>>
  BY Zenon DEF Ring!Join, Ring!Look, Ring!Copy
<1>2. /\ next_seq \in 0 .. MaxSeq /\ next_seq \in Nat /\ kBufLength \in Nat \ {0}
      /\ MaxSeq \in Nat /\ listener \in [Listeners -> Positions]
      /\ listener[l] \in Positions /\ listener[l].next \in Nat
      /\ listener[l].next <= next_seq
      /\ listener[l].pc # "new" => next_seq - listener[l].next <= kBufLength
      /\ listener[l].seq > 0 => listener[l].info = listener[l].seq
  BY DEF RingAssumption, RingInv, RingTypes, Positions, ListenersInWindow
<1>3. SlotOf(listener[l].next) \in 0 .. kBufLength - 1
  BY Zenon, <1>2, SlotInRing
<1> DEFINE Good(x) ==
             /\ x.next <= next_seq
             /\ x.pc # "new" => next_seq - x.next <= kBufLength
             /\ x.pc = "copy" => InWindow(x.next) /\ seqs[SlotOf(x.next)] = x.next
             /\ x.seq > 0 => x.info = x.seq
<1>4. PICK x \in Positions : listener' = [listener EXCEPT ![l] = x] /\ Good(x)
  <2>1. CASE Ring!Join(l)
    <3> DEFINE x == [listener[l] EXCEPT !.pc = "idle", !.next = next_seq]
    <3>1. x \in Positions /\ x.pc = "idle" /\ x.next = next_seq /\ x.seq = listener[l].seq
          /\ x.info = listener[l].info
      BY Zenon, <1>2 DEF Positions
    <3>2. listener' = [listener EXCEPT ![l] = x]
      BY Zenon, <1>2, <2>1 DEF Ring!Join
    <3>3. Good(x)
      BY <1>2, <3>1
    <3> QED BY Zenon, <3>1, <3>2, <3>3
  <2>2. CASE Ring!Look(l)
    <3> DEFINE x == [listener[l] EXCEPT !.pc = "copy"]
    <3>1. x \in Positions /\ x.pc = "copy" /\ x.next = listener[l].next
          /\ x.seq = listener[l].seq /\ x.info = listener[l].info
      BY Zenon, <1>2 DEF Positions
    <3>2. listener' = [listener EXCEPT ![l] = x]
      BY Zenon, <1>2, <2>2 DEF Ring!Look
    <3>3. /\ listener[l].pc # "new" /\ next_seq # listener[l].next
          /\ seqs[SlotOf(listener[l].next)] = listener[l].next
      BY Zenon, <2>2 DEF Ring!Look, SlotOf
    <3>4. InWindow(listener[l].next)
      BY <1>2, <3>3 DEF InWindow
    <3>5. Good(x)
      BY Zenon, <1>2, <3>1, <3>3, <3>4
    <3> QED BY Zenon, <3>1, <3>2, <3>5
  <2>3. CASE Ring!Copy(l)
    <3> DEFINE q == listener[l].next
               x == [pc |-> "idle", next |-> q + 1, seq |-> q, info |-> infos[SlotOf(q)]]
    <3>1. listener' = [listener EXCEPT ![l] = x]
      BY Zenon, <1>2, <2>3 DEF Ring!Copy, SlotOf
    <3>2. listener[l].pc = "copy"
      BY Zenon, <2>3 DEF Ring!Copy
    <3>3. InWindow(q) /\ seqs[SlotOf(q)] = q
      BY Zenon, <3>2 DEF RingInv, ListenersInWindow
    <3>4. q > 0 => infos[SlotOf(q)] = q
      BY Zenon, <1>3, <3>3 DEF RingInv, SlotsMatch
    <3>5. infos[SlotOf(q)] \in {-1} \cup (0 .. MaxSeq - 1)
      BY Zenon, <1>3 DEF RingInv, RingTypes
    <3>6. q + 1 <= next_seq /\ next_seq - (q + 1) <= kBufLength /\ q + 1 \in 0 .. MaxSeq
          /\ q \in 0 .. MaxSeq
      BY <1>2, <3>3 DEF InWindow
    <3>7. x \in Positions
      BY Zenon, <3>5, <3>6 DEF Positions
    <3>8. Good(x)
      BY Zenon, <3>4, <3>6
    <3> QED BY Zenon, <3>1, <3>7, <3>8
  <2> QED BY Zenon, <2>1, <2>2, <2>3
<1>5. /\ listener'[l] = x /\ \A k \in Listeners : k # l => listener'[k] = listener[k]
      /\ listener' \in [Listeners -> Positions]
  BY Zenon, <1>2, <1>4
<1>6. RingTypes' /\ WritersInWindow' /\ SlotsMatch'
  BY Zenon, <1>1, <1>5 DEF RingInv, RingTypes, WritersInWindow, SlotsMatch, InWindow, SlotOf
<1>7. ListenersInWindow'
  <2>1. \A k \in Listeners : Good(listener'[k])
    BY Zenon, <1>4, <1>5 DEF RingInv, ListenersInWindow
  <2> QED BY Zenon, <1>1, <2>1 DEF ListenersInWindow, InWindow, SlotOf
<1> QED BY Zenon, <1>6, <1>7 DEF RingInv

\* For any notifiers and listeners and any length of the ring, as long as nobody
\* falls behind by that length: what a listener reads as notification s is
\* notification s, although info and number are stored one after the other.
THEOREM NotificationsAreWhole ==
  ASSUME Ring!LengthAssumption, Ring!MaxSeqAssumption
  PROVE  Ring!Spec => [](Ring!TypeOK /\ Ring!InfoMatchesSeq)
<1>1. RingAssumption
  BY Zenon DEF Ring!LengthAssumption, Ring!MaxSeqAssumption, RingAssumption
<1>2. RingInv /\ [Ring!Next]_(Ring!vars) => RingInv'
  <2> SUFFICES ASSUME RingInv, [Ring!Next]_(Ring!vars) PROVE RingInv'
    OBVIOUS
  <2>1. CASE UNCHANGED Ring!vars
    BY Zenon, <2>1 DEF Ring!vars, RingInv, RingTypes, WritersInWindow, SlotsMatch,
                ListenersInWindow, InWindow, SlotOf
  <2>2. CASE Ring!Next
    BY Zenon, <1>1, <2>2, Claiming, WritingInfo, WritingSeq, Listening
       DEF Ring!Next, Ring!NotifyStep, Ring!ListenStep
  <2> QED BY Zenon, <2>1, <2>2
<1>3. RingInv => Ring!TypeOK /\ Ring!InfoMatchesSeq
  BY <1>1 DEF RingAssumption, RingInv, RingTypes, Places, Positions, WritersInWindow,
         ListenersInWindow, Ring!TypeOK, Ring!InfoMatchesSeq, Ring!Slots, Ring!NoInfo
<1>4. Ring!Init => RingInv
  BY Zenon, <1>1, RingBegins
<1> QED BY <1>2, <1>3, <1>4, PTL DEF Ring!Spec

-----------------------------------------------------------------------------
(***************************************************************************)
(* Segment, established and of one size class, when processes may die.     *)
(* That a block is not shared with a writer is not inductive: the locks    *)
(* must count the readers, and a reader that dies stays counted, so that a *)
(* lock is at least the number of readers in its block (LocksAreHeld).     *)
(***************************************************************************)
CONSTANTS Writers, Readers, BlockNum, MaxSends
VARIABLES key, mem, ep, queue, sends

\* an established segment of one size class, any user of which may die
Steady == INSTANCE Segment WITH
    Classes <- {1}, Blocks <- [c \in {1} |-> BlockNum], Established <- TRUE,
    Faults <- {"Die"}, MaxMems <- 1

\* What is assumed of the constants.
SegmentAssumption ==
  BlockNum \in Nat \ {0} /\ IsFiniteSet(Readers) /\ Writers \cap Readers = {}

Parts == 0 .. BlockNum - 1
Lock == mem[1].lock

\* the Segment objects of writers and of readers: attached to the one memory
Objects(pcs) == [pc : pcs, init : {TRUE}, gen : {1}, conf : {1}, size : {0, 1}, index : Parts]
WriterObject == Objects({"idle", "remap", "grow", "block", "try", "writing", "notify", "dead"})
ReaderObject == Objects({"idle", "remap", "lock", "reading", "dead"})

\* the readers in block i, according to the objects o
Reading(o, i) == {r \in Readers : o[r].pc = "reading" /\ o[r].index = i}

SegmentTypes ==
  /\ key = 1
  /\ mem \in [{1} -> [ceiling : {1}, need_remap : {FALSE}, wrote_num : Nat, refs : {mem[1].refs},
                      lock : [Parts -> Int]]]
  /\ ep \in [Writers \cup Readers -> WriterObject \cup ReaderObject]
  /\ \A w \in Writers : ep[w] \in WriterObject
  /\ \A r \in Readers : ep[r] \in ReaderObject
  /\ queue \in [Readers -> Seq(Parts)]

\* A writer has the lock for itself, and a lock counts the readers in its block,
\* and those who died in it.
LocksAreHeld ==
  /\ \A w \in Writers : ep[w].pc = "writing" => Lock[ep[w].index] = -1
  /\ \A w, v \in Writers :
       w # v /\ ep[w].pc = "writing" /\ ep[v].pc = "writing" => ep[w].index # ep[v].index
  /\ \A i \in Parts :
       /\ Lock[i] >= -1
       /\ Lock[i] = -1 => Reading(ep, i) = {}
       /\ Lock[i] >= 0 => Cardinality(Reading(ep, i)) <= Lock[i]

SegmentInv == SegmentTypes /\ LocksAreHeld

\* It holds at first.
LEMMA SegmentBegins == SegmentAssumption /\ Steady!Init => SegmentInv
<1> SUFFICES ASSUME SegmentAssumption, Steady!Init PROVE SegmentInv
  OBVIOUS
<1>0. BlockNum \in Nat \ {0} /\ 0 \in Parts
  BY DEF SegmentAssumption, Parts
<1>1. ep = [p \in Writers \cup Readers |->
              [pc |-> "idle", init |-> TRUE, gen |-> 1, conf |-> 1, size |-> 0, index |-> 0]]
  BY Zenon DEF Steady!Init, Steady!Detached, Steady!Endpoints
<1>2. \A p \in Writers \cup Readers :
        ep[p] \in WriterObject /\ ep[p] \in ReaderObject /\ ep[p].pc = "idle"
  BY Zenon, <1>0, <1>1 DEF WriterObject, ReaderObject, Objects
<1>3. ep \in [Writers \cup Readers -> WriterObject \cup ReaderObject]
  BY Zenon, <1>1, <1>2
<1>4. PICK n, m : /\ mem = <<m>>
                  /\ m \in [ceiling : {1}, need_remap : {FALSE}, wrote_num : {0}, refs : {n},
                            lock : {[i \in Parts |-> 0]}]
  <2>1. PICK n : mem = <<Steady!State(1, n)>>
    BY Zenon DEF Steady!Init
  <2>2. 0 .. [c \in {1} |-> BlockNum][1] - 1 = Parts
    BY Zenon DEF Parts
  <2>3. Steady!Zero = [ceiling |-> 0, need_remap |-> FALSE, wrote_num |-> 0, refs |-> 0,
                       lock |-> [i \in Parts |-> 0]]
    BY Zenon, <2>2 DEF Steady!Zero, Steady!Indexes, Steady!kRWLockFree
  <2>4. Steady!State(1, n) \in [ceiling : {1}, need_remap : {FALSE}, wrote_num : {0},
                                refs : {n}, lock : {[i \in Parts |-> 0]}]
    BY Zenon, <2>3 DEF Steady!State
  <2> QED BY Zenon, <2>1, <2>4
<1>5. SegmentTypes
  <2>1. /\ mem[1].refs = n
        /\ mem \in [{1} -> [ceiling : {1}, need_remap : {FALSE}, wrote_num : Nat, refs : {n},
                            lock : [Parts -> Int]]]
    <3>1. /\ m.refs = n
          /\ m \in [ceiling : {1}, need_remap : {FALSE}, wrote_num : Nat, refs : {n},
                    lock : [Parts -> Int]]
      <4>1. [i \in Parts |-> 0] \in [Parts -> Int]
        OBVIOUS
      <4>2. {0} \subseteq Nat /\ {[i \in Parts |-> 0]} \subseteq [Parts -> Int]
        BY <4>1
      <4> QED BY Zenon, <1>4, <4>2
    <3>2. <<m>> = [i \in {1} |-> m]
      OBVIOUS
    <3> QED BY Zenon, <1>4, <3>1, <3>2
  <2>2. queue \in [Readers -> Seq(Parts)] /\ key = 1
    BY DEF Steady!Init
  <2> QED BY Zenon, <1>2, <1>3, <2>1, <2>2 DEF SegmentTypes
<1>6. LocksAreHeld
  <2>1. \A i \in Parts : Lock[i] = 0
    BY Zenon, <1>4 DEF Lock
  <2>2. \A i \in Parts : Reading(ep, i) = {}
    BY Zenon, <1>2 DEF Reading
  <2>3. Cardinality({}) = 0
    BY Zenon, FS_EmptySet
  <2>4. \A w \in Writers : ep[w].pc # "writing"
    BY Zenon, <1>2
  <2>5. \A i \in Parts : /\ Lock[i] >= -1
                         /\ Lock[i] = -1 => Reading(ep, i) = {}
                         /\ Lock[i] >= 0 => Cardinality(Reading(ep, i)) <= Lock[i]
    BY <2>1, <2>2, <2>3
  <2> QED BY Zenon, <2>4, <2>5 DEF LocksAreHeld
<1> QED BY Zenon, <1>5, <1>6 DEF SegmentInv

\* the step of p: its object becomes x, the locks lk and the count n
Moves(p, x, lk, n) ==
  /\ p \in Writers \cup Readers /\ x \in WriterObject \cup ReaderObject
  /\ p \in Writers => x \in WriterObject
  /\ p \in Readers => x \in ReaderObject
  /\ ep' = [ep EXCEPT ![p] = x] /\ key' = key /\ queue' \in [Readers -> Seq(Parts)]
  /\ lk \in [Parts -> Int] /\ n \in Nat
  /\ mem' = [mem EXCEPT ![1] = [mem[1] EXCEPT !.lock = lk, !.wrote_num = n]]

\* A step of p moves nobody else.
LEMMA OneMoves ==
  ASSUME SegmentInv, NEW p, NEW x, NEW lk, NEW n, Moves(p, x, lk, n)
  PROVE  /\ SegmentTypes' /\ Lock' = lk /\ ep'[p] = x
         /\ \A q \in Writers \cup Readers : q # p => ep'[q] = ep[q]
<1>0. /\ p \in Writers \cup Readers /\ x \in WriterObject \cup ReaderObject
      /\ p \in Writers => x \in WriterObject
      /\ p \in Readers => x \in ReaderObject
      /\ ep' = [ep EXCEPT ![p] = x] /\ key' = key /\ queue' \in [Readers -> Seq(Parts)]
      /\ lk \in [Parts -> Int] /\ n \in Nat
      /\ mem' = [mem EXCEPT ![1] = [mem[1] EXCEPT !.lock = lk, !.wrote_num = n]]
  BY Zenon DEF Moves
<1>1. /\ ep \in [Writers \cup Readers -> WriterObject \cup ReaderObject] /\ key = 1
      /\ mem \in [{1} -> [ceiling : {1}, need_remap : {FALSE}, wrote_num : Nat, refs : {mem[1].refs},
                      lock : [Parts -> Int]]]
  BY Zenon DEF SegmentInv, SegmentTypes
<1>2. /\ ep' \in [Writers \cup Readers -> WriterObject \cup ReaderObject] /\ ep'[p] = x
      /\ \A q \in Writers \cup Readers : q # p => ep'[q] = ep[q]
  BY Zenon, <1>0, <1>1
<1>3. /\ mem' \in [{1} -> [ceiling : {1}, need_remap : {FALSE}, wrote_num : Nat, refs : {mem[1].refs},
                      lock : [Parts -> Int]]]
      /\ mem'[1].lock = lk
  BY Zenon, <1>0, <1>1
<1>4. /\ \A w \in Writers : ep'[w] \in WriterObject
      /\ \A r \in Readers : ep'[r] \in ReaderObject
  BY Zenon, <1>0, <1>2 DEF SegmentInv, SegmentTypes
<1> QED BY Zenon, <1>0, <1>1, <1>2, <1>3, <1>4 DEF SegmentTypes, Lock

\* the step leaves the memory alone and p outside of any block
Outside(p, x) ==
  /\ p \in Writers \cup Readers /\ x \in WriterObject \cup ReaderObject
  /\ p \in Writers => x \in WriterObject
  /\ p \in Readers => x \in ReaderObject
  /\ x.pc # "writing" /\ x.pc # "reading"
  /\ ep' = [ep EXCEPT ![p] = x] /\ key' = key /\ queue' \in [Readers -> Seq(Parts)]
  /\ mem' = mem

\* It is a step of p that leaves the locks as they are.
LEMMA OutsideMoves ==
  ASSUME SegmentInv, NEW p, NEW x, Outside(p, x)
  PROVE  \E n : Moves(p, x, Lock, n)
<1>1. mem \in [{1} -> [ceiling : {1}, need_remap : {FALSE}, wrote_num : Nat,
                      refs : {mem[1].refs}, lock : [Parts -> Int]]]
  BY Zenon DEF SegmentInv, SegmentTypes
<1>2. mem' = mem
  BY Zenon DEF Outside
<1>3. /\ Lock \in [Parts -> Int] /\ mem[1].wrote_num \in Nat
      /\ mem' = [mem EXCEPT ![1] = [mem[1] EXCEPT !.lock = Lock,
                                                !.wrote_num = mem[1].wrote_num]]
  BY Zenon, <1>1, <1>2 DEF Lock
<1> QED BY Zenon, <1>3 DEF Moves, Outside

\* Such a step keeps the invariant.
LEMMA OutsideKeeps ==
  ASSUME SegmentAssumption, SegmentInv, NEW p, NEW x, Outside(p, x)
  PROVE  SegmentInv'
<1>1. /\ SegmentTypes' /\ Lock' = Lock /\ ep'[p] = x /\ p \in Writers \cup Readers
      /\ \A q \in Writers \cup Readers : q # p => ep'[q] = ep[q]
      /\ x.pc # "writing" /\ x.pc # "reading"
  <2>1. PICK n : Moves(p, x, Lock, n)
    BY Zenon, OutsideMoves
  <2>2. \A lk : Moves(p, x, lk, n) =>
            /\ SegmentTypes' /\ Lock' = lk /\ ep'[p] = x
            /\ \A q \in Writers \cup Readers : q # p => ep'[q] = ep[q]
    BY Zenon, OneMoves
  <2> QED BY Zenon, <2>1, <2>2 DEF Outside
<1>2. \A i \in Parts : /\ Reading(ep', i) \subseteq Reading(ep, i)
                       /\ Cardinality(Reading(ep', i)) \in Nat /\ Cardinality(Reading(ep, i)) \in Nat
                       /\ Cardinality(Reading(ep', i)) <= Cardinality(Reading(ep, i))
  <2> TAKE i \in Parts
  <2>1. Reading(ep', i) \subseteq Reading(ep, i)
    BY Zenon, <1>1 DEF Reading
  <2>2. IsFiniteSet(Reading(ep, i))
    BY Zenon, FS_Subset DEF SegmentAssumption, Reading
  <2>3. IsFiniteSet(Reading(ep', i)) /\ Cardinality(Reading(ep', i)) <= Cardinality(Reading(ep, i))
    BY Zenon, <2>1, <2>2, FS_Subset
  <2> QED BY Zenon, <2>1, <2>2, <2>3, FS_CardinalityType
<1>3. \A w \in Writers : ep'[w].pc = "writing" => ep[w] = ep'[w]
  BY Zenon, <1>1
<1>4. \A i \in Parts :
       /\ Lock[i] >= -1
       /\ Lock[i] = -1 => Reading(ep', i) = {}
       /\ Lock[i] >= 0 => Cardinality(Reading(ep', i)) <= Lock[i]
  <2> TAKE i \in Parts
  <2>1. Lock[i] \in Int
    BY Zenon DEF SegmentInv, SegmentTypes, Lock
  <2>2. /\ Lock[i] >= -1
        /\ Lock[i] = -1 => Reading(ep, i) = {}
        /\ Lock[i] >= 0 => Cardinality(Reading(ep, i)) <= Lock[i]
    BY Zenon DEF SegmentInv, LocksAreHeld
  <2>3. /\ Reading(ep', i) \subseteq Reading(ep, i)
        /\ Cardinality(Reading(ep', i)) \in Nat /\ Cardinality(Reading(ep, i)) \in Nat
        /\ Cardinality(Reading(ep', i)) <= Cardinality(Reading(ep, i))
    BY Zenon, <1>2
  <2> HIDE DEF Lock, Reading
  <2> QED BY <2>1, <2>2, <2>3
<1>5. LocksAreHeld'
  <2>1. \A w \in Writers : ep'[w].pc = "writing" => Lock'[ep'[w].index] = -1
    BY Zenon, <1>1, <1>3 DEF SegmentInv, LocksAreHeld
  <2>2. \A w, v \in Writers :
       w # v /\ ep'[w].pc = "writing" /\ ep'[v].pc = "writing" => ep'[w].index # ep'[v].index
    <3>1. \A w, v \in Writers :
       w # v /\ ep[w].pc = "writing" /\ ep[v].pc = "writing" => ep[w].index # ep[v].index
      BY Zenon DEF SegmentInv, LocksAreHeld
    <3> QED BY Zenon, <1>3, <3>1
  <2>3. \A i \in Parts :
       /\ Lock'[i] >= -1
       /\ Lock'[i] = -1 => Reading(ep', i) = {}
       /\ Lock'[i] >= 0 => Cardinality(Reading(ep', i)) <= Lock'[i]
    BY Zenon, <1>1, <1>4
  <2> QED BY Zenon, <2>1, <2>2, <2>3 DEF LocksAreHeld
<1> QED BY Zenon, <1>1, <1>5 DEF SegmentInv

\* Every step of a writer but taking and giving back a block is outside.
LEMMA WriterOutside ==
  ASSUME SegmentAssumption, SegmentInv, NEW w \in Writers,
         \/ \E c \in {1} : Steady!Transmit(w, c)
         \/ Steady!OpenOrCreate(w) \/ Steady!Build(w) \/ Steady!RemapToWrite(w)
         \/ Steady!Recreate(w) \/ Steady!Remove(w) \/ Steady!NextBlock(w) \/ Steady!Notify(w)
  PROVE  SegmentInv'
<1>1. /\ ep[w] \in WriterObject /\ w \in Writers \cup Readers /\ w \notin Readers /\ key = 1
      /\ ep \in [Writers \cup Readers -> WriterObject \cup ReaderObject]
      /\ queue \in [Readers -> Seq(Parts)]
  BY Zenon DEF SegmentAssumption, SegmentInv, SegmentTypes
<1>2. /\ mem[1].need_remap = FALSE /\ mem[1].wrote_num \in Nat
      /\ BlockNum \in Nat \ {0} /\ [c \in {1} |-> BlockNum][1] = BlockNum
  BY Zenon DEF SegmentAssumption, SegmentInv, SegmentTypes
<1>3. /\ ep[w].pc \in {"idle", "remap", "grow", "block", "try", "writing", "notify", "dead"}
      /\ ep[w].init = TRUE /\ ep[w].gen = 1 /\ ep[w].conf = 1 /\ ep[w].size \in {0, 1}
      /\ ep[w].index \in Parts
  BY Zenon, <1>1 DEF WriterObject, Objects
<1>4. SUFFICES \E x \in WriterObject :
        /\ x.pc # "writing" /\ x.pc # "reading" /\ ep' = [ep EXCEPT ![w] = x]
        /\ key' = key /\ queue' \in [Readers -> Seq(Parts)] /\ mem' = mem
  BY Zenon, <1>1, OutsideKeeps DEF Outside
<1>5. \A x \in {"idle", "remap", "grow", "block", "try", "notify"} :
        LET y == [ep[w] EXCEPT !.pc = x]
        IN  y \in WriterObject /\ y.pc # "writing" /\ y.pc # "reading"
  BY Zenon, <1>1 DEF WriterObject, Objects
<1>6. CASE \E c \in {1} : Steady!Transmit(w, c)
  <2> DEFINE y == [ep[w] EXCEPT !.size = 1, !.pc = "remap"]
  <2>1. y \in WriterObject /\ y.pc = "remap"
    BY Zenon, <1>1 DEF WriterObject, Objects
  <2>2. ep' = [ep EXCEPT ![w] = y] /\ UNCHANGED <<key, mem, queue>>
    BY Zenon, <1>1, <1>3, <1>6 DEF Steady!Transmit
  <2> QED BY Zenon, <1>1, <2>1, <2>2
<1>7. CASE Steady!OpenOrCreate(w) \/ Steady!Build(w) \/ Steady!Remove(w)
  BY Zenon, <1>3, <1>7 DEF Steady!OpenOrCreate, Steady!Build, Steady!Remove
<1>8. CASE Steady!RemapToWrite(w)
  <2>1. ep' = [ep EXCEPT ![w].pc = "grow"] /\ UNCHANGED <<key, mem, queue>>
    BY Zenon, <1>2, <1>3, <1>8 DEF Steady!RemapToWrite, Steady!Goto
  <2>2. ep' = [ep EXCEPT ![w] = [ep[w] EXCEPT !.pc = "grow"]]
    BY Zenon, <1>1, <2>1
  <2> QED BY Zenon, <1>1, <1>5, <2>1, <2>2
<1>9. CASE Steady!Recreate(w)
  <2>0. ep[w].size <= ep[w].conf
    BY <1>3
  <2>1. ep' = [ep EXCEPT ![w].pc = "block"] /\ UNCHANGED <<key, mem, queue>>
    BY Zenon, <2>0, <1>9 DEF Steady!Recreate, Steady!Goto
  <2>2. ep' = [ep EXCEPT ![w] = [ep[w] EXCEPT !.pc = "block"]]
    BY Zenon, <1>1, <2>1
  <2> QED BY Zenon, <1>1, <1>5, <2>1, <2>2
<1>10. CASE Steady!NextBlock(w)
  <2> DEFINE i == mem[1].wrote_num % BlockNum
             y == [ep[w] EXCEPT !.pc = "try", !.index = i]
  <2>1. i \in Parts
    BY <1>2 DEF Parts
  <2>2. y \in WriterObject /\ y.pc = "try"
    BY Zenon, <1>1, <2>1 DEF WriterObject, Objects
  <2>3. ep' = [ep EXCEPT ![w] = y] /\ UNCHANGED <<key, mem, queue>>
    BY Zenon, <1>1, <1>2, <1>3, <1>10 DEF Steady!NextBlock
  <2> QED BY Zenon, <1>1, <2>2, <2>3
<1>11. CASE Steady!Notify(w)
  <2>1. ep' = [ep EXCEPT ![w].pc = "idle"] /\ UNCHANGED <<key, mem>>
    BY Zenon, <1>11 DEF Steady!Notify, Steady!Goto
  <2>2. ep' = [ep EXCEPT ![w] = [ep[w] EXCEPT !.pc = "idle"]]
    BY Zenon, <1>1, <2>1
  <2>3. queue' \in [Readers -> Seq(Parts)]
    BY <1>1, <1>3, <1>11 DEF Steady!Notify
  <2> QED BY Zenon, <1>1, <1>5, <2>1, <2>2, <2>3
<1> QED BY Zenon, <1>6, <1>7, <1>8, <1>9, <1>10, <1>11

\* A writer takes a block that is free: no reader is in it, and no writer.
LEMMA TakingBlock ==
  ASSUME SegmentAssumption, SegmentInv, NEW w \in Writers, Steady!TryLockForWrite(w)
  PROVE  SegmentInv'
<1>1. /\ ep[w] \in WriterObject /\ w \in Writers \cup Readers /\ w \notin Readers
      /\ ep \in [Writers \cup Readers -> WriterObject \cup ReaderObject]
      /\ queue \in [Readers -> Seq(Parts)] /\ UNCHANGED <<key, queue>>
  BY Zenon DEF SegmentAssumption, SegmentInv, SegmentTypes, Steady!TryLockForWrite
<1>2. /\ mem \in [{1} -> [ceiling : {1}, need_remap : {FALSE}, wrote_num : Nat,
                      refs : {mem[1].refs}, lock : [Parts -> Int]]]
      /\ BlockNum \in Nat \ {0} /\ [c \in {1} |-> BlockNum][1] = BlockNum
  BY Zenon DEF SegmentAssumption, SegmentInv, SegmentTypes
<1>3. ep[w].gen = 1 /\ ep[w].conf = 1 /\ ep[w].index \in Parts
  BY Zenon, <1>1 DEF WriterObject, Objects
<1> DEFINE i == ep[w].index
<1>4. \/ /\ Lock[i] = 0
         /\ mem' = [mem EXCEPT ![1].lock[i] = -1, ![1].wrote_num = @ + 1]
         /\ ep' = [ep EXCEPT ![w].pc = "writing"]
      \/ /\ ep' = [ep EXCEPT ![w].index = (i + 1) % BlockNum] /\ mem' = mem
         /\ ep[w].pc = "try"
  BY Zenon, <1>2, <1>3
     DEF Steady!TryLockForWrite, Steady!Goto, Steady!kRWLockFree, Steady!kWriteExclusive, Lock
<1>5. CASE /\ ep' = [ep EXCEPT ![w].index = (i + 1) % BlockNum] /\ mem' = mem
           /\ ep[w].pc = "try"
  <2> DEFINE y == [ep[w] EXCEPT !.index = (i + 1) % BlockNum]
  <2>1. (i + 1) % BlockNum \in Parts
    BY <1>2, <1>3 DEF Parts
  <2>2. y \in WriterObject /\ y.pc = "try"
    BY Zenon, <1>1, <1>5, <2>1 DEF WriterObject, Objects
  <2>3. ep' = [ep EXCEPT ![w] = y]
    BY Zenon, <1>1, <1>5
  <2>4. Outside(w, y)
    BY Zenon, <1>1, <1>5, <2>2, <2>3 DEF Outside
  <2> QED BY Zenon, <2>4, OutsideKeeps
<1>6. CASE /\ Lock[i] = 0
           /\ mem' = [mem EXCEPT ![1].lock[i] = -1, ![1].wrote_num = @ + 1]
           /\ ep' = [ep EXCEPT ![w].pc = "writing"]
  <2> DEFINE y == [ep[w] EXCEPT !.pc = "writing"]
             lk == [Lock EXCEPT ![i] = -1]
  <2>1. y \in WriterObject /\ y.pc = "writing" /\ y.index = i
    BY Zenon, <1>1 DEF WriterObject, Objects
  <2>2. ep' = [ep EXCEPT ![w] = y]
    BY Zenon, <1>1, <1>6
  <2>3. Lock \in [Parts -> Int] /\ lk \in [Parts -> Int] /\ mem[1].wrote_num + 1 \in Nat
    BY <1>2, <1>3 DEF Lock
  <2>4. mem' = [mem EXCEPT ![1] = [mem[1] EXCEPT !.lock = lk, !.wrote_num = mem[1].wrote_num + 1]]
    BY Zenon, <1>2, <1>6 DEF Lock
  <2>5. Moves(w, y, lk, mem[1].wrote_num + 1)
    BY Zenon, <1>1, <2>1, <2>2, <2>3, <2>4 DEF Moves
  <2>6. /\ SegmentTypes' /\ Lock' = lk /\ ep'[w] = y
        /\ \A q \in Writers \cup Readers : q # w => ep'[q] = ep[q]
    BY Zenon, <2>5, OneMoves
  <2>7. \A j \in Parts : Reading(ep', j) = Reading(ep, j)
    BY Zenon, <1>1, <2>6 DEF Reading
  <2>8. lk[i] = -1 /\ \A j \in Parts : j # i => lk[j] = Lock[j]
    BY Zenon, <1>3, <2>3
  <2>9. \A v \in Writers : v # w /\ ep[v].pc = "writing" =>
          ep[v].index # i /\ ep[v].index \in Parts /\ Lock[ep[v].index] = -1
    <3>1. 0 # -1
      OBVIOUS
    <3>2. \A v \in Writers : ep[v].index \in Parts
      BY Zenon DEF SegmentInv, SegmentTypes, WriterObject, Objects
    <3> QED BY Zenon, <1>6, <3>1, <3>2 DEF SegmentInv, LocksAreHeld
  <2>10. Reading(ep, i) = {}
    <3>1. IsFiniteSet(Reading(ep, i))
      BY Zenon, FS_Subset DEF SegmentAssumption, Reading
    <3>2. Cardinality(Reading(ep, i)) <= 0
      <4>1. Lock[i] >= 0
        BY <1>6
      <4> QED BY Zenon, <1>3, <1>6, <4>1 DEF SegmentInv, LocksAreHeld
    <3>3. Cardinality(Reading(ep, i)) \in Nat
      BY Zenon, <3>1, FS_CardinalityType
    <3>4. Cardinality(Reading(ep, i)) = 0
      BY <3>2, <3>3
    <3> QED BY Zenon, <3>1, <3>4, FS_EmptySet
  <2> HIDE DEF i, y, lk
  <2>11. \A v \in Writers : ep'[v].pc = "writing" => lk[ep'[v].index] = -1
    <3> SUFFICES ASSUME NEW v \in Writers, ep'[v].pc = "writing" PROVE lk[ep'[v].index] = -1
      OBVIOUS
    <3>1. CASE v = w
      BY Zenon, <2>1, <2>6, <2>8, <3>1
    <3>2. CASE v # w
      BY Zenon, <2>6, <2>8, <2>9, <3>2
    <3> QED BY Zenon, <3>1, <3>2
  <2>12. \A u, v \in Writers :
       u # v /\ ep'[u].pc = "writing" /\ ep'[v].pc = "writing" => ep'[u].index # ep'[v].index
    <3>1. \A u, v \in Writers :
       u # v /\ ep[u].pc = "writing" /\ ep[v].pc = "writing" => ep[u].index # ep[v].index
      BY Zenon DEF SegmentInv, LocksAreHeld
    <3> SUFFICES ASSUME NEW u \in Writers, NEW v \in Writers, u # v,
                        ep'[u].pc = "writing", ep'[v].pc = "writing"
                 PROVE  ep'[u].index # ep'[v].index
      OBVIOUS
    <3>2. CASE u = w
      BY Zenon, <2>1, <2>6, <2>9, <3>2
    <3>3. CASE v = w
      BY Zenon, <2>1, <2>6, <2>9, <3>3
    <3>4. CASE u # w /\ v # w
      BY Zenon, <2>6, <3>1, <3>4
    <3> QED BY Zenon, <3>2, <3>3, <3>4
  <2>13. \A j \in Parts :
       /\ lk[j] >= -1
       /\ lk[j] = -1 => Reading(ep', j) = {}
       /\ lk[j] >= 0 => Cardinality(Reading(ep', j)) <= lk[j]
    <3>1. -1 >= -1 /\ ~ (-1 >= 0)
      OBVIOUS
    <3> QED BY Zenon, <2>7, <2>8, <2>10, <3>1 DEF SegmentInv, LocksAreHeld
  <2> QED BY Zenon, <2>6, <2>11, <2>12, <2>13 DEF SegmentInv, LocksAreHeld
<1> QED BY Zenon, <1>4, <1>5, <1>6

\* A writer gives back its block, in which there is nobody else.
LEMMA GivingBlock ==
  ASSUME SegmentAssumption, SegmentInv, NEW w \in Writers, Steady!ReleaseWrittenBlock(w)
  PROVE  SegmentInv'
<1>1. /\ ep[w] \in WriterObject /\ w \in Writers \cup Readers /\ w \notin Readers
      /\ ep \in [Writers \cup Readers -> WriterObject \cup ReaderObject]
      /\ queue \in [Readers -> Seq(Parts)] /\ UNCHANGED <<key, queue>>
      /\ ep[w].pc = "writing"
  BY Zenon DEF SegmentAssumption, SegmentInv, SegmentTypes, Steady!ReleaseWrittenBlock
<1>2. mem \in [{1} -> [ceiling : {1}, need_remap : {FALSE}, wrote_num : Nat,
                      refs : {mem[1].refs}, lock : [Parts -> Int]]]
  BY Zenon DEF SegmentInv, SegmentTypes
<1>3. ep[w].gen = 1 /\ ep[w].index \in Parts
  BY Zenon, <1>1 DEF WriterObject, Objects
<1> DEFINE i == ep[w].index
           y == [ep[w] EXCEPT !.pc = "notify"]
           lk == [Lock EXCEPT ![i] = 0]
<1>4. Lock[i] = -1
  BY Zenon, <1>1 DEF SegmentInv, LocksAreHeld
<1>5. y \in WriterObject /\ y.pc = "notify"
  BY Zenon, <1>1 DEF WriterObject, Objects
<1>6. ep' = [ep EXCEPT ![w] = y]
  BY Zenon, <1>1 DEF Steady!ReleaseWrittenBlock, Steady!Goto
<1>7. Lock \in [Parts -> Int] /\ lk \in [Parts -> Int] /\ mem[1].wrote_num \in Nat
  BY <1>2, <1>3 DEF Lock
<1>8. mem' = [mem EXCEPT ![1] = [mem[1] EXCEPT !.lock = lk, !.wrote_num = mem[1].wrote_num]]
  <2>1. mem' = [mem EXCEPT ![1].lock[i] = mem[1].lock[i] + 1]
    BY Zenon, <1>3 DEF Steady!ReleaseWrittenBlock
  <2>2. mem[1].lock[i] + 1 = 0
    BY <1>4 DEF Lock
  <2>3. mem' = [mem EXCEPT ![1].lock[i] = 0]
    BY Zenon, <2>1, <2>2
  <2> HIDE DEF i
  <2> QED BY Zenon, <1>2, <2>3 DEF Lock
<1>9. Moves(w, y, lk, mem[1].wrote_num)
  BY Zenon, <1>1, <1>5, <1>6, <1>7, <1>8 DEF Moves
<1>10. /\ SegmentTypes' /\ Lock' = lk /\ ep'[w] = y
       /\ \A q \in Writers \cup Readers : q # w => ep'[q] = ep[q]
  BY Zenon, <1>9, OneMoves
<1>11. \A j \in Parts : Reading(ep', j) = Reading(ep, j)
  BY Zenon, <1>1, <1>10 DEF Reading
<1>12. lk[i] = 0 /\ \A j \in Parts : j # i => lk[j] = Lock[j]
  BY Zenon, <1>3, <1>7
<1>13. \A v \in Writers : v # w /\ ep[v].pc = "writing" =>
          ep[v].index # i /\ ep[v].index \in Parts /\ Lock[ep[v].index] = -1
  <2>1. \A v \in Writers : ep[v].index \in Parts
    BY Zenon DEF SegmentInv, SegmentTypes, WriterObject, Objects
  <2> QED BY Zenon, <1>1, <2>1 DEF SegmentInv, LocksAreHeld
<1>14. Reading(ep, i) = {} /\ Cardinality(Reading(ep, i)) = 0
  BY Zenon, <1>3, <1>4, FS_EmptySet DEF SegmentInv, LocksAreHeld
<1> HIDE DEF i, y, lk
<1>15. \A v \in Writers : ep'[v].pc = "writing" => v # w /\ ep'[v] = ep[v]
  <2>1. "notify" # "writing"
    OBVIOUS
  <2> QED BY Zenon, <1>5, <1>10, <2>1
<1>16. \A v \in Writers : ep'[v].pc = "writing" => lk[ep'[v].index] = -1
  BY Zenon, <1>12, <1>13, <1>15
<1>17. \A u, v \in Writers :
       u # v /\ ep'[u].pc = "writing" /\ ep'[v].pc = "writing" => ep'[u].index # ep'[v].index
  <2>1. \A u, v \in Writers :
       u # v /\ ep[u].pc = "writing" /\ ep[v].pc = "writing" => ep[u].index # ep[v].index
    BY Zenon DEF SegmentInv, LocksAreHeld
  <2> QED BY Zenon, <1>15, <2>1
<1>18. \A j \in Parts :
       /\ lk[j] >= -1
       /\ lk[j] = -1 => Reading(ep', j) = {}
       /\ lk[j] >= 0 => Cardinality(Reading(ep', j)) <= lk[j]
  <2>1. 0 >= -1 /\ 0 # -1 /\ 0 <= 0
    OBVIOUS
  <2> TAKE j \in Parts
  <2>2. CASE j = i
    BY Zenon, <1>11, <1>12, <1>14, <2>1, <2>2
  <2>3. CASE j # i
    BY Zenon, <1>11, <1>12, <2>3 DEF SegmentInv, LocksAreHeld
  <2> QED BY Zenon, <2>2, <2>3
<1> QED BY Zenon, <1>10, <1>16, <1>17, <1>18 DEF SegmentInv, LocksAreHeld

\* Every step of a reader but taking and giving back a block is outside.
LEMMA ReaderOutside ==
  ASSUME SegmentAssumption, SegmentInv, NEW r \in Readers,
         Steady!CheckIndex(r) \/ Steady!RemapToRead(r)
  PROVE  SegmentInv'
<1>1. /\ ep[r] \in ReaderObject /\ r \in Writers \cup Readers /\ r \notin Writers /\ key = 1
      /\ ep \in [Writers \cup Readers -> WriterObject \cup ReaderObject]
      /\ queue \in [Readers -> Seq(Parts)]
  BY Zenon DEF SegmentAssumption, SegmentInv, SegmentTypes
<1>2. /\ mem[1].need_remap = FALSE
      /\ BlockNum \in Nat \ {0} /\ [c \in {1} |-> BlockNum][1] = BlockNum
  BY Zenon DEF SegmentAssumption, SegmentInv, SegmentTypes
<1>3. /\ ep[r].init = TRUE /\ ep[r].gen = 1 /\ ep[r].conf = 1
  BY Zenon, <1>1 DEF ReaderObject, Objects
<1>4. SUFFICES \E x \in ReaderObject :
        /\ x.pc # "writing" /\ x.pc # "reading" /\ ep' = [ep EXCEPT ![r] = x]
        /\ key' = key /\ queue' \in [Readers -> Seq(Parts)] /\ mem' = mem
  BY Zenon, <1>1, OutsideKeeps DEF Outside
<1>5. \A x \in {"idle", "remap", "lock"} :
        LET y == [ep[r] EXCEPT !.pc = x]
        IN  y \in ReaderObject /\ y.pc # "writing" /\ y.pc # "reading"
  BY Zenon, <1>1 DEF ReaderObject, Objects
<1>6. CASE Steady!CheckIndex(r)
  <2>1. /\ queue[r] \in Seq(Parts) /\ queue[r] # <<>>
        /\ queue' = [queue EXCEPT ![r] = Tail(@)] /\ key' = key /\ mem' = mem
        /\ ep' = [ep EXCEPT ![r].index = Head(queue[r]),
                            ![r].pc = IF Head(queue[r]) < BlockNum THEN "remap" ELSE "idle"]
    BY Zenon, <1>1, <1>2, <1>3, <1>6 DEF Steady!CheckIndex
  <2>2. Head(queue[r]) \in Parts /\ Tail(queue[r]) \in Seq(Parts)
    BY <2>1
  <2>3. queue' \in [Readers -> Seq(Parts)]
    BY Zenon, <1>1, <2>1, <2>2
  <2> DEFINE h == Head(queue[r])
             s == IF h < BlockNum THEN "remap" ELSE "idle"
             y == [ep[r] EXCEPT !.index = h, !.pc = s]
  <2>4. y \in ReaderObject /\ y.pc # "writing" /\ y.pc # "reading"
    BY Zenon, <1>1, <2>2 DEF ReaderObject, Objects
  <2>5. ep' = [ep EXCEPT ![r] = y]
    BY Zenon, <1>1, <2>1
  <2> QED BY Zenon, <2>1, <2>3, <2>4, <2>5
<1>7. CASE Steady!RemapToRead(r)
  <2>1. ep' = [ep EXCEPT ![r].pc = "lock"] /\ UNCHANGED <<key, queue, mem>>
    BY Zenon, <1>2, <1>3, <1>7 DEF Steady!RemapToRead, Steady!Goto
  <2>2. ep' = [ep EXCEPT ![r] = [ep[r] EXCEPT !.pc = "lock"]]
    BY Zenon, <1>1, <2>1
  <2> QED BY Zenon, <1>1, <1>5, <2>1, <2>2
<1> QED BY Zenon, <1>6, <1>7

\* A reader does not touch a block with a writer in it.
LEMMA ReaderMoves ==
  ASSUME SegmentAssumption, SegmentInv, NEW r \in Readers, NEW x, NEW lk, NEW n,
         Moves(r, x, lk, n),
         \A j \in Parts : Lock[j] = -1 => lk[j] = -1,
         \A j \in Parts : /\ lk[j] >= -1
                          /\ lk[j] = -1 => Reading(ep', j) = {}
                          /\ lk[j] >= 0 => Cardinality(Reading(ep', j)) <= lk[j]
  PROVE  SegmentInv'
<1>1. /\ SegmentTypes' /\ Lock' = lk
      /\ \A q \in Writers \cup Readers : q # r => ep'[q] = ep[q]
  BY Zenon, OneMoves
<1>2. \A w \in Writers : ep'[w] = ep[w]
  BY Zenon, <1>1 DEF SegmentAssumption
<1>3. \A w \in Writers : ep[w].index \in Parts
  BY Zenon DEF SegmentInv, SegmentTypes, WriterObject, Objects
<1>4. \A w \in Writers : ep'[w].pc = "writing" => lk[ep'[w].index] = -1
  BY Zenon, <1>2, <1>3 DEF SegmentInv, LocksAreHeld
<1>5. \A w, v \in Writers :
       w # v /\ ep'[w].pc = "writing" /\ ep'[v].pc = "writing" => ep'[w].index # ep'[v].index
  <2>1. \A w, v \in Writers :
       w # v /\ ep[w].pc = "writing" /\ ep[v].pc = "writing" => ep[w].index # ep[v].index
    BY Zenon DEF SegmentInv, LocksAreHeld
  <2> QED BY Zenon, <1>2, <2>1
<1> QED BY Zenon, <1>1, <1>4, <1>5 DEF SegmentInv, LocksAreHeld

\* A reader enters a block without a writer, and is counted.
LEMMA Entering ==
  ASSUME SegmentAssumption, SegmentInv, NEW r \in Readers, Steady!TryLockForRead(r)
  PROVE  SegmentInv'
<1>1. /\ ep[r] \in ReaderObject /\ r \in Writers \cup Readers /\ r \notin Writers
      /\ ep \in [Writers \cup Readers -> WriterObject \cup ReaderObject]
      /\ queue \in [Readers -> Seq(Parts)] /\ UNCHANGED <<key, queue>> /\ ep[r].pc = "lock"
  BY Zenon DEF SegmentAssumption, SegmentInv, SegmentTypes, Steady!TryLockForRead
<1>2. /\ mem \in [{1} -> [ceiling : {1}, need_remap : {FALSE}, wrote_num : Nat,
                      refs : {mem[1].refs}, lock : [Parts -> Int]]]
      /\ BlockNum \in Nat \ {0}
  BY Zenon DEF SegmentAssumption, SegmentInv, SegmentTypes
<1>3. ep[r].gen = 1 /\ ep[r].index \in Parts
  BY Zenon, <1>1 DEF ReaderObject, Objects
<1> DEFINE i == ep[r].index
<1>4. \/ /\ Lock[i] >= 0 /\ mem' = [mem EXCEPT ![1].lock[i] = mem[1].lock[i] + 1]
         /\ ep' = [ep EXCEPT ![r].pc = "reading"]
      \/ ep' = [ep EXCEPT ![r].pc = "idle"] /\ mem' = mem
  <2>1. mem[1].ceiling = 1 /\ 1 # 0
    BY <1>2
  <2>2. ~ (i >= [c \in {1} |-> BlockNum][1])
    BY <1>2, <1>3 DEF Parts
  <2> QED BY Zenon, <1>3, <2>1, <2>2
         DEF Steady!TryLockForRead, Steady!ClassOf, Steady!Goto, Steady!kRWLockFree, Lock
<1>5. CASE ep' = [ep EXCEPT ![r].pc = "idle"] /\ mem' = mem
  <2> DEFINE y == [ep[r] EXCEPT !.pc = "idle"]
  <2>1. y \in ReaderObject /\ y.pc # "writing" /\ y.pc # "reading"
    BY Zenon, <1>1 DEF ReaderObject, Objects
  <2>2. ep' = [ep EXCEPT ![r] = y]
    BY Zenon, <1>1, <1>5
  <2>3. Outside(r, y)
    BY Zenon, <1>1, <1>5, <2>1, <2>2 DEF Outside
  <2> QED BY Zenon, <2>3, OutsideKeeps
<1>6. CASE /\ Lock[i] >= 0 /\ mem' = [mem EXCEPT ![1].lock[i] = mem[1].lock[i] + 1]
           /\ ep' = [ep EXCEPT ![r].pc = "reading"]
  <2> DEFINE y == [ep[r] EXCEPT !.pc = "reading"]
             lk == [Lock EXCEPT ![i] = Lock[i] + 1]
  <2>1. y \in ReaderObject /\ y.pc = "reading" /\ y.index = i
    BY Zenon, <1>1 DEF ReaderObject, Objects
  <2>2. ep' = [ep EXCEPT ![r] = y]
    BY Zenon, <1>1, <1>6
  <2>3. /\ Lock \in [Parts -> Int] /\ lk \in [Parts -> Int] /\ mem[1].wrote_num \in Nat
        /\ lk[i] = Lock[i] + 1 /\ \A j \in Parts : j # i => lk[j] = Lock[j]
    BY <1>2, <1>3 DEF Lock
  <2>4. mem' = [mem EXCEPT ![1] = [mem[1] EXCEPT !.lock = lk, !.wrote_num = mem[1].wrote_num]]
    <3> HIDE DEF i
    <3> QED BY Zenon, <1>2, <1>6 DEF Lock
  <2>5. Moves(r, y, lk, mem[1].wrote_num)
    BY Zenon, <1>1, <2>1, <2>2, <2>3, <2>4 DEF Moves
  <2>6. ep'[r] = y /\ \A q \in Writers \cup Readers : q # r => ep'[q] = ep[q]
    BY Zenon, <2>5, OneMoves
  <2>7. r \notin Reading(ep, i) /\ IsFiniteSet(Reading(ep, i))
    <3>1. r \notin Reading(ep, i)
      BY Zenon, <1>1 DEF Reading
    <3> QED BY Zenon, <3>1, FS_Subset DEF SegmentAssumption, Reading
  <2> HIDE DEF i, y, lk
  <2>8. Reading(ep', i) = Reading(ep, i) \cup {r} /\ \A j \in Parts : j # i => Reading(ep', j) = Reading(ep, j)
    <3>1. \A j : r \in Reading(ep', j) <=> j = i
      BY Zenon, <2>1, <2>6 DEF Reading
    <3>2. \A j : r \notin Reading(ep, j)
      <4>1. "lock" # "reading"
        OBVIOUS
      <4> QED BY Zenon, <1>1, <4>1 DEF Reading
    <3>3. \A j : \A q : q # r => (q \in Reading(ep', j) <=> q \in Reading(ep, j))
      BY Zenon, <2>6 DEF Reading
    <3> HIDE DEF Reading
    <3>4. \A j : j # i => Reading(ep', j) = Reading(ep, j)
      BY <3>1, <3>2, <3>3
    <3>5. Reading(ep', i) = Reading(ep, i) \cup {r}
      BY Zenon, <3>1, <3>3
    <3> QED BY Zenon, <3>4, <3>5
  <2>9. Cardinality(Reading(ep, i)) \in Nat /\ Cardinality(Reading(ep', i)) = Cardinality(Reading(ep, i)) + 1
    BY Zenon, <2>7, <2>8, FS_AddElement, FS_CardinalityType
  <2>10. Lock[i] \in Int /\ Cardinality(Reading(ep, i)) <= Lock[i]
    BY Zenon, <1>3, <1>6, <2>3 DEF SegmentInv, LocksAreHeld, i
  <2>11. lk[i] >= -1 /\ lk[i] # -1 /\ Cardinality(Reading(ep', i)) <= lk[i] /\ Lock[i] # -1
    <3> HIDE DEF Lock, Reading
    <3> QED BY <1>6, <2>3, <2>9, <2>10
  <2>12. \A j \in Parts : /\ lk[j] >= -1
                          /\ lk[j] = -1 => Reading(ep', j) = {}
                          /\ lk[j] >= 0 => Cardinality(Reading(ep', j)) <= lk[j]
    <3> TAKE j \in Parts
    <3>1. CASE j = i
      BY Zenon, <2>11, <3>1
    <3>2. CASE j # i
      BY Zenon, <2>3, <2>8, <3>2 DEF SegmentInv, LocksAreHeld
    <3> QED BY Zenon, <3>1, <3>2
  <2>13. \A j \in Parts : Lock[j] = -1 => lk[j] = -1
    BY Zenon, <2>3, <2>11
  <2> HIDE DEF Lock
  <2> QED BY Zenon, <2>5, <2>12, <2>13, ReaderMoves
<1> QED BY Zenon, <1>4, <1>5, <1>6

\* A reader leaves its block, and is no longer counted.
LEMMA Leaving ==
  ASSUME SegmentAssumption, SegmentInv, NEW r \in Readers, Steady!ReleaseReadBlock(r)
  PROVE  SegmentInv'
<1>1. /\ ep[r] \in ReaderObject /\ r \in Writers \cup Readers /\ r \notin Writers
      /\ ep \in [Writers \cup Readers -> WriterObject \cup ReaderObject]
      /\ queue \in [Readers -> Seq(Parts)] /\ UNCHANGED <<key, queue>> /\ ep[r].pc = "reading"
  BY Zenon DEF SegmentAssumption, SegmentInv, SegmentTypes, Steady!ReleaseReadBlock
<1>2. mem \in [{1} -> [ceiling : {1}, need_remap : {FALSE}, wrote_num : Nat,
                      refs : {mem[1].refs}, lock : [Parts -> Int]]]
  BY Zenon DEF SegmentInv, SegmentTypes
<1>3. ep[r].gen = 1 /\ ep[r].index \in Parts
  BY Zenon, <1>1 DEF ReaderObject, Objects
<1> DEFINE i == ep[r].index
           y == [ep[r] EXCEPT !.pc = "idle"]
           lk == [Lock EXCEPT ![i] = Lock[i] - 1]
<1>4. y \in ReaderObject /\ y.pc = "idle"
  BY Zenon, <1>1 DEF ReaderObject, Objects
<1>5. ep' = [ep EXCEPT ![r] = y]
  BY Zenon, <1>1 DEF Steady!ReleaseReadBlock, Steady!Goto
<1>6. /\ Lock \in [Parts -> Int] /\ lk \in [Parts -> Int] /\ mem[1].wrote_num \in Nat
      /\ lk[i] = Lock[i] - 1 /\ \A j \in Parts : j # i => lk[j] = Lock[j]
  BY <1>2, <1>3 DEF Lock
<1>7. mem' = [mem EXCEPT ![1] = [mem[1] EXCEPT !.lock = lk, !.wrote_num = mem[1].wrote_num]]
  <2>1. mem' = [mem EXCEPT ![1].lock[i] = mem[1].lock[i] - 1]
    BY Zenon, <1>3 DEF Steady!ReleaseReadBlock
  <2> HIDE DEF i
  <2> QED BY Zenon, <1>2, <2>1 DEF Lock
<1>8. Moves(r, y, lk, mem[1].wrote_num)
  BY Zenon, <1>1, <1>4, <1>5, <1>6, <1>7 DEF Moves
<1>9. ep'[r] = y /\ \A q \in Writers \cup Readers : q # r => ep'[q] = ep[q]
  BY Zenon, <1>8, OneMoves
<1>10. r \in Reading(ep, i) /\ IsFiniteSet(Reading(ep, i)) /\ \A j : r \in Reading(ep, j) => j = i
  BY Zenon, <1>1, FS_Subset DEF SegmentAssumption, Reading
<1> HIDE DEF i, y, lk
<1>11. /\ Reading(ep', i) = Reading(ep, i) \ {r}
       /\ \A j \in Parts : j # i => Reading(ep', j) = Reading(ep, j)
  <2>1. \A j : r \notin Reading(ep', j)
    <3>1. "idle" # "reading"
      OBVIOUS
    <3> QED BY Zenon, <1>4, <1>9, <3>1 DEF Reading
  <2>2. \A j : \A q : q # r => (q \in Reading(ep', j) <=> q \in Reading(ep, j))
    BY Zenon, <1>9 DEF Reading
  <2> HIDE DEF Reading
  <2>3. \A j : j # i => Reading(ep', j) = Reading(ep, j)
    BY <1>10, <2>1, <2>2
  <2>4. Reading(ep', i) = Reading(ep, i) \ {r}
    BY Zenon, <2>1, <2>2
  <2> QED BY Zenon, <2>3, <2>4
<1>12. /\ Cardinality(Reading(ep, i)) \in Nat
       /\ Cardinality(Reading(ep', i)) = Cardinality(Reading(ep, i)) - 1
       /\ Cardinality(Reading(ep', i)) \in Nat
  <2>1. IsFiniteSet(Reading(ep', i)) /\ Cardinality(Reading(ep', i)) = Cardinality(Reading(ep, i)) - 1
    BY Zenon, <1>10, <1>11, FS_RemoveElement
  <2> QED BY Zenon, <1>10, <2>1, FS_CardinalityType
<1>13. /\ Lock[i] \in Int /\ Lock[i] >= -1 /\ Lock[i] # -1
       /\ Lock[i] >= 0 => Cardinality(Reading(ep, i)) <= Lock[i]
  <2>1. i \in Parts
    BY Zenon, <1>3 DEF i
  <2> QED BY Zenon, <1>6, <1>10, <2>1 DEF SegmentInv, LocksAreHeld
<1>14. lk[i] >= -1 /\ lk[i] # -1 /\ Cardinality(Reading(ep', i)) <= lk[i]
  <2> HIDE DEF Lock, Reading
  <2> QED BY <1>6, <1>12, <1>13
<1>15. \A j \in Parts : /\ lk[j] >= -1
                        /\ lk[j] = -1 => Reading(ep', j) = {}
                        /\ lk[j] >= 0 => Cardinality(Reading(ep', j)) <= lk[j]
  <2> TAKE j \in Parts
  <2>1. CASE j = i
    BY Zenon, <1>14, <2>1
  <2>2. CASE j # i
    BY Zenon, <1>6, <1>11, <2>2 DEF SegmentInv, LocksAreHeld
  <2> QED BY Zenon, <2>1, <2>2
<1>16. \A j \in Parts : Lock[j] = -1 => lk[j] = -1
  BY Zenon, <1>6, <1>13
<1> HIDE DEF Lock
<1> QED BY Zenon, <1>8, <1>15, <1>16, ReaderMoves

\* A process that dies leaves its lock as it is.
LEMMA Dying ==
  ASSUME SegmentAssumption, SegmentInv, NEW p \in Writers \cup Readers,
         Steady!Destroy(p) \/ Steady!DestroyEnd(p) \/ Steady!Die(p)
  PROVE  SegmentInv'
<1>1. /\ p \in Writers => ep[p] \in WriterObject
      /\ p \in Readers => ep[p] \in ReaderObject
      /\ ep \in [Writers \cup Readers -> WriterObject \cup ReaderObject]
      /\ queue \in [Readers -> Seq(Parts)]
  BY Zenon DEF SegmentInv, SegmentTypes
<1>2. ep[p].pc # "destroy"
  BY Zenon, <1>1 DEF WriterObject, ReaderObject, Objects
<1>3. "Destroy" \notin {"Die"}
  OBVIOUS
<1>4. ep' = [ep EXCEPT ![p].pc = "dead"] /\ UNCHANGED <<key, mem, queue>>
  BY Zenon, <1>2, <1>3 DEF Steady!Destroy, Steady!DestroyEnd, Steady!Die, Steady!Goto
<1> DEFINE y == [ep[p] EXCEPT !.pc = "dead"]
<1>5. /\ p \in Writers => y \in WriterObject
      /\ p \in Readers => y \in ReaderObject
      /\ y.pc = "dead"
  BY Zenon, <1>1 DEF WriterObject, ReaderObject, Objects
<1>6. ep' = [ep EXCEPT ![p] = y]
  BY Zenon, <1>1, <1>4
<1>7. Outside(p, y)
  <2>1. y.pc # "writing" /\ y.pc # "reading"
    BY Zenon, <1>5
  <2> HIDE DEF y
  <2> QED BY Zenon, <1>1, <1>4, <1>5, <1>6, <2>1 DEF Outside
<1> QED BY Zenon, <1>7, OutsideKeeps

\* For any writers, any finite set of readers and any number of blocks: once the
\* segment is established, no two writers are in the same block and no reader is
\* in a block with a writer, through TryLockForWrite and TryLockForRead, whichever
\* processes die with a block locked.
THEOREM BlocksAreExclusive ==
  ASSUME SegmentAssumption
  PROVE  Steady!Spec => []Steady!BlockExclusive
<1>1. SegmentInv /\ [Steady!Next]_(Steady!vars) => SegmentInv'
  <2> SUFFICES ASSUME SegmentInv, [Steady!Next]_(Steady!vars) PROVE SegmentInv'
    OBVIOUS
  <2>1. CASE UNCHANGED Steady!vars
    BY Zenon, <2>1 DEF Steady!vars, SegmentInv, SegmentTypes, LocksAreHeld, Lock
  <2>2. CASE \E w \in Writers : Steady!WriterStep(w)
    BY Zenon, <2>2, WriterOutside, TakingBlock, GivingBlock DEF Steady!WriterStep
  <2>3. CASE \E r \in Readers : Steady!ReaderStep(r)
    BY Zenon, <2>3, ReaderOutside, Entering, Leaving DEF Steady!ReaderStep
  <2>4. CASE \E p \in Writers \cup Readers :
               Steady!Destroy(p) \/ Steady!DestroyEnd(p) \/ Steady!Die(p)
    BY Zenon, <2>4, Dying
  <2> QED BY Zenon, <2>1, <2>2, <2>3, <2>4 DEF Steady!Next, Steady!Endpoints
<1>2. SegmentInv => Steady!BlockExclusive
  <2> SUFFICES ASSUME SegmentInv, NEW w \in Writers, ep[w].pc = "writing"
               PROVE  /\ \A v \in Writers : ~ Steady!Using(w, "writing", v, "writing")
                      /\ \A r \in Readers : ~ Steady!Using(w, "writing", r, "reading")
    BY Zenon DEF Steady!BlockExclusive, Steady!Using
  <2>1. \A v \in Writers : ~ Steady!Using(w, "writing", v, "writing")
    BY Zenon DEF SegmentInv, LocksAreHeld, Steady!Using
  <2>2. Reading(ep, ep[w].index) = {}
    <3>1. ep[w].index \in Parts
      BY Zenon DEF SegmentInv, SegmentTypes, WriterObject, Objects
    <3> QED BY Zenon, <3>1 DEF SegmentInv, LocksAreHeld
  <2>3. \A r \in Readers : ~ Steady!Using(w, "writing", r, "reading")
    BY Zenon, <2>2 DEF Reading, Steady!Using
  <2> QED BY Zenon, <2>1, <2>3
<1>3. Steady!Init => SegmentInv
  BY Zenon, SegmentBegins
<1> QED BY <1>1, <1>2, <1>3, PTL DEF Steady!Spec
=============================================================================
