---------------------------- MODULE CCObjectPool ----------------------------
(***************************************************************************)
(* cyber/base/concurrent_object_pool.h: a fixed number of objects in a     *)
(* lock-free stack of free nodes.  free_head_ is a pair of a counter and a *)
(* node that is loaded and compare-exchanged as a whole; the counter keeps *)
(* a node that was taken and released again from being mistaken for what   *)
(* it was (ABA).  One step of the model is one shared access of the code.  *)
(*                                                                         *)
(* The counter is a uintptr_t; a wrap-around between a load and the        *)
(* exchange needs 2^64 operations and it is a natural number here.         *)
(***************************************************************************)
EXTENDS Integers, FiniteSets, Sequences

CONSTANTS
    Threads,
    Nodes,      \* node_arena_
    Null,       \* nullptr
    MaxCount    \* bound: no operation starts once the counter has reached it

ASSUME NodesAssumption == IsFiniteSet(Nodes) /\ Null \notin Nodes
ASSUME MaxCountAssumption == MaxCount \in Nat

VARIABLES
    free_head,  \* free_head_
    next,       \* the next field of each node
    pc,         \* where each thread is
    old,        \* old_head of each thread
    new,        \* new_head.node in FindFreeHead, node in ReleaseObject
    handles,    \* number of shared_ptr handed out for each node
    result,     \* what the last GetObject of each thread returned
    stack       \* history: the free nodes, in the order they were put back

vars == <<free_head, next, pc, old, new, handles, result, stack>>

Free == {stack[i] : i \in DOMAIN stack}

NoHead == [count |-> 0, node |-> Null]

\* The arena, from its last node to its first.
Arenas == {a \in [1 .. Cardinality(Nodes) -> Nodes] :
              /\ \A n \in Nodes : \E i \in DOMAIN a : a[i] = n
              /\ \A i, j \in DOMAIN a : a[i] = a[j] => i = j}

\* What free_head_ and the next fields are for a stack.
Top(s) == IF s = <<>> THEN Null ELSE s[Len(s)]

Below(s, i) == IF i = 1 THEN Null ELSE s[i - 1]

\* The constructor chains the nodes in the order of the arena.
Init ==
    /\ stack \in Arenas
    /\ free_head = [count |-> 0, node |-> Top(stack)]
    /\ next \in [Nodes -> Nodes \cup {Null}]
    /\ \A i \in DOMAIN stack : next[stack[i]] = Below(stack, i)
    /\ pc = [t \in Threads |-> "idle"]
    /\ old = [t \in Threads |-> NoHead]
    /\ new = [t \in Threads |-> Null]
    /\ handles = [n \in Nodes |-> 0]
    /\ result = [t \in Threads |-> Null]

Goto(t, place) == pc' = [pc EXCEPT ![t] = place]

----------------------------------------------------------------------------
\* GetObject and ConstructObject: FindFreeHead loads free_head_; a null node
\* ends it.
LoadForGet(t) ==
    /\ pc[t] = "idle" /\ free_head.count < MaxCount
    /\ old' = [old EXCEPT ![t] = free_head]
    /\ \/ /\ free_head.node = Null
          /\ result' = [result EXCEPT ![t] = Null]
          /\ UNCHANGED pc
       \/ /\ free_head.node # Null
          /\ Goto(t, "get_next")
          /\ UNCHANGED result
    /\ UNCHANGED <<free_head, next, new, handles, stack>>

\* new_head.node = old_head.node->next, of a node that may be taken by now.
ReadNext(t) ==
    /\ pc[t] = "get_next"
    /\ new' = [new EXCEPT ![t] = next[old[t].node]]
    /\ Goto(t, "get_cas")
    /\ UNCHANGED <<free_head, next, old, handles, result, stack>>

\* Mutant: only the node is compared, not the counter.
UnchangedNode(t) == free_head.node = old[t].node

\* The comparison of compare_exchange_weak.
Unchanged(t) == free_head = old[t]

TakeHead(t) ==
    /\ pc[t] = "get_cas" /\ Unchanged(t)
    /\ free_head' = [count |-> old[t].count + 1, node |-> new[t]]
    /\ stack' = SubSeq(stack, 1, Len(stack) - 1)
    /\ handles' = [handles EXCEPT ![old[t].node] = @ + 1]
    /\ result' = [result EXCEPT ![t] = old[t].node]
    /\ Goto(t, "idle")
    /\ UNCHANGED <<next, old, new>>

\* The exchange fails, perhaps for no reason, and old_head is loaded again.
RetryGet(t) ==
    /\ pc[t] = "get_cas"
    /\ old' = [old EXCEPT ![t] = free_head]
    /\ \/ /\ free_head.node = Null
          /\ result' = [result EXCEPT ![t] = Null]
          /\ Goto(t, "idle")
       \/ /\ free_head.node # Null
          /\ Goto(t, "get_next")
          /\ UNCHANGED result
    /\ UNCHANGED <<free_head, next, new, handles, stack>>

----------------------------------------------------------------------------
\* The last shared_ptr to an object goes and its deleter calls ReleaseObject.
LoadForRelease(t, n) ==
    /\ pc[t] = "idle" /\ handles[n] > 0 /\ free_head.count < MaxCount
    /\ handles' = [handles EXCEPT ![n] = @ - 1]
    /\ new' = [new EXCEPT ![t] = n]
    /\ old' = [old EXCEPT ![t] = free_head]
    /\ Goto(t, "put_next")
    /\ UNCHANGED <<free_head, next, result, stack>>

\* node->next = old_head.node.
WriteNext(t) ==
    /\ pc[t] = "put_next"
    /\ next' = [next EXCEPT ![new[t]] = old[t].node]
    /\ Goto(t, "put_cas")
    /\ UNCHANGED <<free_head, old, new, handles, result, stack>>

\* Mutant: the node is linked by a store.
PutHeadByStore(t) ==
    /\ pc[t] = "put_cas"
    /\ free_head' = [count |-> old[t].count + 1, node |-> new[t]]
    /\ stack' = Append(stack, new[t])
    /\ Goto(t, "idle")
    /\ UNCHANGED <<next, old, new, handles, result>>

PutHead(t) ==
    /\ pc[t] = "put_cas" /\ Unchanged(t)
    /\ free_head' = [count |-> old[t].count + 1, node |-> new[t]]
    /\ stack' = Append(stack, new[t])
    /\ Goto(t, "idle")
    /\ UNCHANGED <<next, old, new, handles, result>>

RetryPut(t) ==
    /\ pc[t] = "put_cas"
    /\ old' = [old EXCEPT ![t] = free_head]
    /\ Goto(t, "put_next")
    /\ UNCHANGED <<free_head, next, new, handles, result, stack>>

Next ==
    \E t \in Threads :
        \/ LoadForGet(t) \/ ReadNext(t) \/ TakeHead(t) \/ RetryGet(t)
        \/ \E n \in Nodes : LoadForRelease(t, n)
        \/ WriteNext(t) \/ PutHead(t) \/ RetryPut(t)

Spec == Init /\ [][Next]_vars

----------------------------------------------------------------------------
\* The state has its shape, and a thread about to follow or to link a node has
\* one.
TypeOK ==
    /\ free_head \in [count : Nat, node : Nodes \cup {Null}]
    /\ next \in [Nodes -> Nodes \cup {Null}]
    /\ pc \in [Threads -> {"idle", "get_next", "get_cas", "put_next", "put_cas"}]
    /\ old \in [Threads -> [count : Nat, node : Nodes \cup {Null}]]
    /\ new \in [Threads -> Nodes \cup {Null}]
    /\ handles \in [Nodes -> Nat]
    /\ result \in [Threads -> Nodes \cup {Null}]
    /\ stack \in Seq(Nodes)
    /\ \A t \in Threads : /\ pc[t] \in {"get_next", "get_cas"} => old[t].node # Null
                          /\ pc[t] \in {"put_next", "put_cas"} => new[t] # Null

Releasing(t) == pc[t] \in {"put_next", "put_cas"}

\* An object has at most one owner: it is in the pool, or handed out once, or
\* being put back by one thread.  GetObject never hands out an object that
\* somebody still has, however takes and releases interleave.
OneOwner ==
    \A n \in Nodes :
        /\ handles[n] <= 1
        /\ n \in Free => handles[n] = 0
        /\ \A t \in Threads : Releasing(t) /\ new[t] = n => n \notin Free /\ handles[n] = 0
        /\ \A t, u \in Threads : Releasing(t) /\ Releasing(u) /\ new[t] = n /\ new[u] = n => t = u

\* No object is lost: the list from free_head_ holds each free object once, in
\* the order of the stack.
ListIsStack ==
    /\ free_head.node = Top(stack)
    /\ \A i \in DOMAIN stack : next[stack[i]] = Below(stack, i)
    /\ \A i, j \in DOMAIN stack : stack[i] = stack[j] => i = j

\* Together: objects are owned once, and the list the threads exchange heads
\* of is, at every moment, the stack of the free ones.
PoolIsStack == TypeOK /\ OneOwner /\ ListIsStack

Pool == INSTANCE ObjectPool WITH free <- Free

\* The pool behaves like a set: in particular GetObject returns null only at a
\* moment when no object is free.
ImplementsPool == Pool!Spec
=============================================================================
