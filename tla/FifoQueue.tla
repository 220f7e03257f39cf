----------------------------- MODULE FifoQueue ------------------------------
(***************************************************************************)
(* What BoundedQueue promises its callers (ThreadPool, TaskManager and     *)
(* PerfEventCache): a FIFO queue of at most Size elements whose operations *)
(* each take effect at one moment.                                         *)
(***************************************************************************)
EXTENDS Naturals, Sequences

CONSTANTS Values, Size

VARIABLE q

Init == q = <<>>

Put(v) == /\ Len(q) < Size
          /\ q' = Append(q, v)

Get == /\ q # <<>>
       /\ q' = Tail(q)

Next == Get \/ \E v \in Values : Put(v)

Spec == Init /\ [][Next]_q
=============================================================================
