---------------------------- MODULE BoundedQueue ----------------------------
(***************************************************************************)
(* cyber/base/bounded_queue.h with the wait strategies of wait_strategy.h. *)
(*                                                                         *)
(* A ring of pool_size_ = size + 2 slots shared by any number of threads.  *)
(* An enqueuer claims a ticket by a CAS on tail_, writes the slot of the   *)
(* ticket and publishes it by moving commit_ in ticket order.  A dequeuer  *)
(* copies the slot after head_ and then takes it by a CAS on head_.  One   *)
(* step of the model is one atomic access of the code; the assignment of a *)
(* slot is not atomic and takes two steps, with Junk in between.           *)
(*                                                                         *)
(* head_, tail_ and commit_ are uint64_t that only grow; a wrap-around     *)
(* needs 2^64 calls and they are natural numbers here.                     *)
(***************************************************************************)
EXTENDS Integers, Sequences

CONSTANTS Threads,     \* the callers
          Values,      \* the elements
          Size,        \* the argument of Init
          Strategy,    \* the wait strategy passed to Init
          MaxTicket,   \* bound: no Enqueue is started once tail_ has reached it
          Junk         \* a default-constructed element, or one whose
                       \* assignment is in progress

Strategies == {"block", "sleep", "timeout"}

ASSUME SizeAssumption == Size \in Nat
ASSUME StrategyAssumption == Strategy \in Strategies
ASSUME JunkAssumption == Junk \notin Values
ASSUME MaxTicketAssumption == MaxTicket \in Nat

VARIABLES
  head,      \* head_
  tail,      \* tail_
  commit,    \* commit_
  pool,      \* pool_
  break,     \* break_all_wait_, and whether the strategy's BreakAllWait ran
  pc,        \* where each thread is
  call,      \* the call in progress: its operation, and whether it may wait
  elem,      \* the element to enqueue, or the one read by Dequeue
  old,       \* old_tail or old_head of each thread
  claimed,   \* history: the elements in the order of their tickets
  taken      \* history: the elements in the order they were taken

vars == <<head, tail, commit, pool, break, pc, call, elem, old, claimed, taken>>
shared == <<head, tail, commit, pool, claimed, taken>>

pool_size == Size + 2
Slots == 0 .. pool_size - 1
GetIndex(num) == num - (num \div pool_size) * pool_size

NoCall == [op |-> "Dequeue", wait |-> FALSE]
Calls == [op : {"Enqueue", "Dequeue"}, wait : BOOLEAN]
PCs == {"idle", "break", "load_tail", "full", "claim", "write", "writing",
        "commit", "notify", "load_head", "empty", "copy", "take",
        "wait", "blocked"}

Init ==
  /\ head = 0
  /\ tail = 1
  /\ commit = 1
  /\ pool = [i \in Slots |-> Junk]
  /\ break = "no"
  /\ pc = [t \in Threads |-> "idle"]
  /\ call = [t \in Threads |-> NoCall]
  /\ elem = [t \in Threads |-> Junk]
  /\ old = [t \in Threads |-> 0]
  /\ claimed = <<>>
  /\ taken = <<>>

Goto(t, place) == pc' = [pc EXCEPT ![t] = place]

locals == <<call, elem, old>>

\* the locals of a call are gone when it returns
Forget(t) ==
  /\ call' = [call EXCEPT ![t] = NoCall]
  /\ elem' = [elem EXCEPT ![t] = Junk]
  /\ old' = [old EXCEPT ![t] = 0]

Return(t) == Goto(t, "idle") /\ Forget(t)

Entry(op) == IF op = "Enqueue" THEN "load_tail" ELSE "load_head"

(***************************************************************************)
(* A thread calls Enqueue, WaitEnqueue, Dequeue or WaitDequeue.            *)
(***************************************************************************)
Start(t, c, v) ==
  /\ pc[t] = "idle"
  /\ c.op = "Enqueue" => tail < MaxTicket
  /\ call' = [call EXCEPT ![t] = c]
  /\ elem' = [elem EXCEPT ![t] = IF c.op = "Enqueue" THEN v ELSE Junk]
  /\ Goto(t, IF c.wait THEN "break" ELSE Entry(c.op))
  /\ UNCHANGED <<shared, break, old>>

\* while (!break_all_wait_) of WaitEnqueue and WaitDequeue
CheckBreak(t) ==
  /\ pc[t] = "break"
  /\ IF break = "no" THEN Goto(t, Entry(call[t].op)) /\ UNCHANGED locals
                     ELSE Return(t)
  /\ UNCHANGED <<shared, break>>

\* an attempt returned false: Enqueue and Dequeue return it, the Wait forms
\* call EmptyWait
Failed(t) ==
  IF call[t].wait THEN Goto(t, "wait") /\ UNCHANGED locals ELSE Return(t)

(***************************************************************************)
(* Enqueue.                                                                *)
(***************************************************************************)
LoadTail(t) ==
  /\ pc[t] = "load_tail"
  /\ old' = [old EXCEPT ![t] = tail]
  /\ Goto(t, "full")
  /\ UNCHANGED <<shared, break, call, elem>>

LooksFull(t) == GetIndex(old[t] + 1) = GetIndex(head)

CheckFull(t) ==
  /\ pc[t] = "full"
  /\ IF LooksFull(t) THEN Failed(t) ELSE Goto(t, "claim") /\ UNCHANGED locals
  /\ UNCHANGED <<shared, break>>

\* Mutant: tail_ is stored, not compared and exchanged
ClaimTailByStore(t) ==
  /\ pc[t] = "claim"
  /\ tail' = old[t] + 1
  /\ claimed' = Append(claimed, elem[t])
  /\ Goto(t, "write")
  /\ UNCHANGED <<head, commit, pool, taken, break, locals>>

ClaimTail(t) ==
  /\ pc[t] = "claim"
  /\ tail = old[t]
  /\ tail' = old[t] + 1
  /\ claimed' = Append(claimed, elem[t])
  /\ Goto(t, "write")
  /\ UNCHANGED <<head, commit, pool, taken, break, locals>>

\* the weak CAS reloads old_tail when it fails, and may fail spuriously
RetryClaim(t) ==
  /\ pc[t] = "claim"
  /\ old' = [old EXCEPT ![t] = tail]
  /\ Goto(t, "full")
  /\ UNCHANGED <<shared, break, call, elem>>

BeginWrite(t) ==
  /\ pc[t] = "write"
  /\ pool' = [pool EXCEPT ![GetIndex(old[t])] = Junk]
  /\ Goto(t, "writing")
  /\ UNCHANGED <<head, tail, commit, claimed, taken, break, locals>>

EndWrite(t) ==
  /\ pc[t] = "writing"
  /\ pool' = [pool EXCEPT ![GetIndex(old[t])] = elem[t]]
  /\ Goto(t, "commit")
  /\ UNCHANGED <<head, tail, commit, claimed, taken, break, locals>>

\* the loop around the CAS on commit_ waits for the earlier tickets
\* Mutant: a ticket is committed without waiting for the earlier ones
CommitTicketUnordered(t) ==
  /\ pc[t] = "commit"
  /\ commit' = old[t] + 1
  /\ Goto(t, "notify")
  /\ UNCHANGED <<head, tail, pool, claimed, taken, break, locals>>

CommitTicket(t) ==
  /\ pc[t] = "commit"
  /\ commit = old[t]
  /\ commit' = old[t] + 1
  /\ Goto(t, "notify")
  /\ UNCHANGED <<head, tail, pool, claimed, taken, break, locals>>

(***************************************************************************)
(* Dequeue.                                                                *)
(***************************************************************************)
LoadHead(t) ==
  /\ pc[t] = "load_head"
  /\ old' = [old EXCEPT ![t] = head]
  /\ Goto(t, "empty")
  /\ UNCHANGED <<shared, break, call, elem>>

\* Mutant: the test is one ticket early
LooksEmptyEarly(t) == old[t] + 2 >= commit

LooksEmpty(t) == old[t] + 1 = commit

CheckEmpty(t) ==
  /\ pc[t] = "empty"
  /\ IF LooksEmpty(t) THEN Failed(t) ELSE Goto(t, "copy") /\ UNCHANGED locals
  /\ UNCHANGED <<shared, break>>

CopySlot(t) ==
  /\ pc[t] = "copy"
  /\ elem' = [elem EXCEPT ![t] = pool[GetIndex(old[t] + 1)]]
  /\ Goto(t, "take")
  /\ UNCHANGED <<shared, break, call, old>>

TakeHead(t) ==
  /\ pc[t] = "take"
  /\ head = old[t]
  /\ head' = old[t] + 1
  /\ taken' = Append(taken, elem[t])
  /\ Return(t)
  /\ UNCHANGED <<tail, commit, pool, claimed, break>>

RetryTake(t) ==
  /\ pc[t] = "take"
  /\ old' = [old EXCEPT ![t] = head]
  /\ Goto(t, "empty")
  /\ UNCHANGED <<shared, break, call, elem>>

(***************************************************************************)
(* The wait strategy.  "block" and "timeout" wait on a condition variable  *)
(* without a predicate; "sleep" stands for the strategies whose EmptyWait  *)
(* returns true by itself (sleep, yield, busy spin) and whose NotifyOne    *)
(* and BreakAllWait do nothing.                                            *)
(***************************************************************************)
OnCondition == Strategy \in {"block", "timeout"}
Blocked == {t \in Threads : pc[t] = "blocked"}

EmptyWait(t) ==
  /\ pc[t] = "wait"
  /\ Goto(t, IF OnCondition THEN "blocked" ELSE "break")
  /\ UNCHANGED <<shared, break, locals>>

SpuriousWakeup(t) ==
  /\ pc[t] = "blocked"
  /\ Goto(t, "break")
  /\ UNCHANGED <<shared, break, locals>>

\* wait_for reports a timeout and the call returns false
Timeout(t) ==
  /\ Strategy = "timeout"
  /\ pc[t] = "blocked"
  /\ Return(t)
  /\ UNCHANGED <<shared, break>>

\* NotifyOne wakes one of the blocked threads, if there is one, and Enqueue
\* returns true
NotifyOne(t) ==
  /\ pc[t] = "notify"
  /\ IF Blocked = {}
       THEN Goto(t, "idle")
       ELSE \E w \in Blocked : pc' = [pc EXCEPT ![t] = "idle", ![w] = "break"]
  /\ Forget(t)
  /\ UNCHANGED <<shared, break>>

\* BreakAllWait stores the flag first and notifies afterwards
SetBreak ==
  /\ break = "no"
  /\ break' = "set"
  /\ UNCHANGED <<shared, pc, locals>>

NotifyAll ==
  /\ break = "set"
  /\ break' = "notified"
  /\ pc' = [t \in Threads |->
              IF pc[t] = "blocked" THEN "break" ELSE pc[t]]
  /\ UNCHANGED <<shared, locals>>

(***************************************************************************)
(* The observers.                                                          *)
(***************************************************************************)
SizeOf == tail - head - 1
Empty == SizeOf = 0

EnqueueStep(t) ==
  \/ LoadTail(t) \/ CheckFull(t) \/ ClaimTail(t) \/ RetryClaim(t)
  \/ BeginWrite(t) \/ EndWrite(t) \/ CommitTicket(t) \/ NotifyOne(t)

DequeueStep(t) ==
  \/ LoadHead(t) \/ CheckEmpty(t) \/ CopySlot(t) \/ TakeHead(t) \/ RetryTake(t)

WaitStep(t) == CheckBreak(t) \/ EmptyWait(t) \/ SpuriousWakeup(t) \/ Timeout(t)

Next ==
  \/ \E t \in Threads :
       \/ \E c \in Calls, v \in Values : Start(t, c, v)
       \/ EnqueueStep(t)
       \/ DequeueStep(t)
       \/ WaitStep(t)
  \/ SetBreak
  \/ NotifyAll

Spec == Init /\ [][Next]_vars

(***************************************************************************)
(* Scheduling: a thread inside a call keeps running, weak CASes that could *)
(* succeed do not all fail for ever, and a BreakAllWait that stored        *)
(* its flag goes on to notify.  Nothing makes a thread start a call, wakes *)
(* it spuriously or lets a wait time out.                                  *)
(***************************************************************************)
Progress(t) ==
  \/ LoadTail(t) \/ CheckFull(t) \/ BeginWrite(t) \/ EndWrite(t)
  \/ RetryClaim(t) \/ CommitTicket(t) \/ NotifyOne(t)
  \/ LoadHead(t) \/ CheckEmpty(t) \/ CopySlot(t) \/ RetryTake(t)
  \/ CheckBreak(t) \/ EmptyWait(t)

FairSpec ==
  /\ Spec
  /\ \A t \in Threads : WF_vars(Progress(t))
  /\ SF_vars(\E t \in Threads : ClaimTail(t))
  /\ SF_vars(\E t \in Threads : TakeHead(t))
  /\ WF_vars(NotifyAll)

-----------------------------------------------------------------------------
(***************************************************************************)
(* Properties.                                                             *)
(***************************************************************************)
Elements == Values \cup {Junk}

\* Type invariant: the counters, the ring and the locals of every thread stay
\* in the types bounded_queue.h declares.
TypeOK ==
  /\ head \in Nat
  /\ tail \in Nat
  /\ commit \in Nat
  /\ pool \in [Slots -> Elements]
  /\ break \in {"no", "set", "notified"}
  /\ pc \in [Threads -> PCs]
  /\ call \in [Threads -> Calls]
  /\ elem \in [Threads -> Elements]
  /\ old \in [Threads -> Nat]
  /\ claimed \in Seq(Values)
  /\ taken \in Seq(Values)

\* Tickets are taken, committed and claimed in this order, and claimed tickets
\* never lap the ring although the full test of Enqueue only compares indices:
\* the queue holds at most Size elements.
WithinRing ==
  /\ head < commit
  /\ commit <= tail
  /\ SizeOf <= Size

\* FIFO without loss, duplication or torn elements: the elements Dequeue has
\* handed out are exactly the first ones claimed by Enqueue, in that order,
\* although a dequeuer copies the slot before it owns it.
TakenInOrder == taken = SubSeq(claimed, 1, head)

Writing(t) == pc[t] \in {"write", "writing", "commit"}

\* A slot is written only by the one thread holding its ticket, and never while
\* it holds a committed element that has not been taken.
WritersApart ==
  \A t \in Threads : Writing(t) =>
    /\ \A u \in Threads \ {t} :
         Writing(u) => GetIndex(old[t]) # GetIndex(old[u])
    /\ \A i \in head + 1 .. commit - 1 : GetIndex(i) # GetIndex(old[t])

\* Dequeue reports an empty queue only when no committed element is left at
\* that moment, however old its copy of head_ is.
EmptyAnswerIsCurrent ==
  \A t \in Threads : pc[t] = "empty" /\ LooksEmpty(t) => head + 1 = commit

\* Enqueue reports a full queue only when it is full, or when tail_ has moved
\* since the caller loaded it: the index test alone cannot tell the two apart.
FullAnswerIsCurrentOrRaced ==
  \A t \in Threads :
    pc[t] = "full" /\ LooksFull(t) => SizeOf = Size \/ old[t] # tail

\* The ring under its three counters is a queue: bounded, first in first out,
\* with no slot written by two threads or over an element still to be read.
RingIsQueue == TypeOK /\ WithinRing /\ TakenInOrder /\ WritersApart

\* A failed Enqueue or Dequeue tells the truth about the queue.
HonestAnswers == EmptyAnswerIsCurrent /\ FullAnswerIsCurrentOrRaced

\* A WaitDequeue call does not sleep through an element: while committed
\* elements are left the call returns, or others take them all.
WaitDequeueReturns ==
  \A t \in Threads :
    (pc[t] # "idle" /\ call[t] = [op |-> "Dequeue", wait |-> TRUE]
       /\ head + 1 < commit)
    ~> (pc[t] = "idle" \/ head + 1 = commit)

\* After BreakAllWait every WaitEnqueue and WaitDequeue call returns.
BreakEndsWaits ==
  \A t \in Threads :
    (break = "notified" /\ call[t].wait /\ pc[t] # "idle") ~> pc[t] = "idle"

Abstract == INSTANCE FifoQueue WITH q <- SubSeq(claimed, head + 1, commit - 1)

\* The ring implements a bounded FIFO queue with atomic operations: an Enqueue
\* takes effect when its ticket is committed, a Dequeue when head_ moves.
ImplementsFifo == Abstract!Spec
=============================================================================
