----------------------------- MODULE ObjectPool -----------------------------
(* What CCObjectPool promises: a set of free objects.  A request takes one  *)
(* of them out, or is refused when there is none; a release puts it back.   *)
EXTENDS FiniteSets

CONSTANTS Threads, Nodes, Null

VARIABLES
    free,       \* objects in the pool
    result      \* what the last request of each thread returned

Init == free = Nodes /\ result = [t \in Threads |-> Null]

Take(t) ==
    \E n \in free :
        /\ free' = free \ {n}
        /\ result' = [result EXCEPT ![t] = n]

Refuse(t) ==
    /\ free = {}
    /\ result' = [result EXCEPT ![t] = Null]
    /\ UNCHANGED free

Put == \E n \in Nodes \ free : free' = free \cup {n} /\ UNCHANGED result

Next == Put \/ \E t \in Threads : Take(t) \/ Refuse(t)

Spec == Init /\ [][Next]_<<free, result>>
=============================================================================
