------------------------------ MODULE KeepLast ------------------------------
(***************************************************************************)
(* What a channel buffer promises its visitor: everything that arrived is  *)
(* a log, of which the last Size messages can be read.  A visitor reads    *)
(* them one after the other; the first time, and when the message it is to *)
(* read next has left the window, it goes on with the newest one.          *)
(***************************************************************************)
EXTENDS Integers, Sequences

CONSTANTS Messages, Size, Bound

VARIABLES
  log,    \* everything that has arrived
  next,   \* the position the visitor reads next, 0 before its first read
  out     \* the answer to the last call: the messages handed out

Init == log = <<>> /\ next = 0 /\ out = <<>>

Arrive(m) ==
  /\ Len(log) < Bound
  /\ log' = Append(log, m)
  /\ UNCHANGED <<next, out>>

Position == IF next = 0 \/ next + Size <= Len(log) THEN Len(log) ELSE next

Read ==
  IF Position \in 1 .. Len(log)
  THEN next' = Position + 1 /\ out' = <<log[Position]>> /\ UNCHANGED log
  ELSE out' = <<>> /\ UNCHANGED <<log, next>>

\* the newest n messages of the window, without moving
Newest(n) ==
  /\ out' = SubSeq(log, (IF n < Len(log) THEN Len(log) - n ELSE 0) + 1, Len(log))
  /\ UNCHANGED <<log, next>>

Next ==
  \/ \E m \in Messages : Arrive(m)
  \/ Read
  \/ \E n \in 0 .. Size : Newest(n)
  \/ Newest(1)

Spec == Init /\ [][Next]_<<log, next, out>>
=============================================================================
