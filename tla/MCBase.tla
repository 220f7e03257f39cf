------------------------------- MODULE MCBase -------------------------------
(***************************************************************************)
(* The concurrent containers and locks of cyber/base, each on a small      *)
(* instance of its own: a behaviour is one of the structure that subject   *)
(* names, while the others rest in their initial states.                   *)
(***************************************************************************)
EXTENDS BoundedQueue, RWLockProofs, TLC

CONSTANTS Subjects, HeadEntry, Nil
VARIABLES
    subject,
    next, value_ptr, thread, calls, freed, done     \* of the map

mapVars == <<next, value_ptr, thread, calls, freed, done>>
rwVars == <<rw_num, rw_wait_num, rw_pc, rw_seen>>

Map == INSTANCE AtomicHashMap WITH
    Threads <- LockThreads, Keys <- {1, 2, 3}, Calls <- {"Insert", "Get", "Has"}, MaxCalls <- 1

ASSUME Map!KeysAssumption /\ Map!CallsAssumption

BaseInit == subject \in Subjects /\ Init /\ Map!Init /\ Atomic!Init /\ LockInit

BaseNext ==
    /\ UNCHANGED subject
    /\ \/ subject = "queue" /\ Next /\ UNCHANGED <<mapVars, rwVars, lockVars>>
       \/ subject = "map" /\ Map!Next /\ UNCHANGED <<vars, rwVars, lockVars>>
       \/ subject = "atomic" /\ Atomic!Next /\ UNCHANGED <<vars, mapVars, lockVars>>
       \/ subject = "reentrant" /\ LockNext /\ UNCHANGED <<vars, mapVars, rwVars>>

BaseSpec == BaseInit /\ [][BaseNext]_<<subject, vars, mapVars, rwVars, lockVars>>

Symmetry == Permutations(Threads) \cup Permutations(Values)

-----------------------------------------------------------------------------
\* AtomicHashMap: the list of a bucket stays strictly sorted with one
\* predecessor for each entry, whichever Insert calls race for a place; a key is
\* found by every Get and Has that starts after an Insert of it has returned;
\* and a value is deleted once, after it was replaced in the list.
MapIsSound ==
    subject = "map" => Map!TypeOK /\ Map!SortedOnce /\ Map!NeverForgotten /\ Map!DeletedOnce
=============================================================================
