----------------------- MODULE ChoreographyScheduler ------------------------
(***************************************************************************)
(* The choreography policy: policy/scheduler_choreography.cc and           *)
(* policy/choreography_context.cc.  A task may be pinned to one of the     *)
(* first proc_num_ processors, each with a queue of its own; every other   *)
(* task goes to the pool, whose processors run the classic context of      *)
(* ClassicScheduler and appear here only through their queue.              *)
(*                                                                         *)
(* A pinned routine is run by one processor only, so lock_ is always free  *)
(* when that processor looks; a processor waits one millisecond at most.   *)
(***************************************************************************)
EXTENDS Integers, FiniteSets

CONSTANTS
  Tasks,     \* the tasks, one routine each
  Proc,      \* Proc[t]: the processor the configuration gives t, or -1
  Prio,      \* Prio[t]: its priority
  ProcNum,   \* proc_num_
  None

ProcNumAssumption == ProcNum \in Nat \ {0}
ProcAssumption == Proc \in [Tasks -> Int]

Pids == 0 .. ProcNum - 1

VARIABLES
  id_cr,     \* the registered tasks
  ctx,       \* ctx[i]: cr_queue_ of the i-th context
  pool,      \* the queue of the default group
  op,        \* op[t]: the operation that holds the mutex of t's id
  routine,   \* routine[t]: state_, whether updated_ is clear, force_stop_
  data,      \* tasks with a message to fetch
  ntf,       \* tasks whose NotifyProcessor call has found them waiting
  notified,  \* notified_ of each context
  proc       \* proc[i]: what processor i does, and with which routine

vars == <<id_cr, ctx, pool, op, routine, data, ntf, notified, proc>>

Fresh == [state |-> "READY", updated |-> FALSE, force_stop |-> FALSE]

Init ==
  /\ id_cr = {}
  /\ ctx = [i \in Pids |-> {}]
  /\ pool = {}
  /\ op = [t \in Tasks |-> "idle"]
  /\ routine = [t \in Tasks |-> Fresh]
  /\ data = {} /\ ntf = {}
  /\ notified = [i \in Pids |-> FALSE]
  /\ proc = [i \in Pids |-> [pc |-> "next", cr |-> None]]

(***************************************************************************)
(* DispatchTask.  processor_id() is compared as an unsigned number: -1 is  *)
(* above proc_num_.  A task is created again when its former routine has   *)
(* left the processor; ClassicScheduler has the overlapping case.          *)
(***************************************************************************)
Register(t) ==
  /\ op[t] = "idle" /\ t \notin id_cr /\ t \notin ntf
  /\ \A i \in Pids : proc[i].cr # t
  /\ id_cr' = id_cr \cup {t}
  /\ routine' = [routine EXCEPT ![t] = Fresh]
  /\ op' = [op EXCEPT ![t] = "place"]
  /\ UNCHANGED <<ctx, pool, data, ntf, notified, proc>>

Pinned(t) == Proc[t] \in Pids

Place(t) ==
  /\ op[t] = "place"
  /\ IF Pinned(t)
     THEN ctx' = [ctx EXCEPT ![Proc[t]] = @ \cup {t}] /\ UNCHANGED pool
     ELSE pool' = pool \cup {t} /\ UNCHANGED ctx
  /\ op' = [op EXCEPT ![t] = "idle"]
  /\ UNCHANGED <<id_cr, routine, data, ntf, notified, proc>>

(***************************************************************************)
(* RemoveCRoutine: the pool only if processor_id is -1.  A processor_id    *)
(* from proc_num_ on is used to index pctxs_ and to cast what is there to  *)
(* a ChoreographyContext; no such object holds the routine.                *)
(***************************************************************************)
Unregister(t) ==
  /\ op[t] = "idle" /\ t \in id_cr /\ t \notin ntf
  /\ id_cr' = id_cr \ {t}
  /\ routine' = [routine EXCEPT ![t].force_stop = TRUE]
  /\ op' = [op EXCEPT ![t] = "erase"]
  /\ UNCHANGED <<ctx, pool, data, ntf, notified, proc>>


Erase(t) ==
  /\ op[t] = "erase"
  /\ IF Proc[t] = -1
     THEN pool' = pool \ {t} /\ UNCHANGED ctx
     ELSE /\ ctx' = [i \in Pids |-> IF i = Proc[t] THEN ctx[i] \ {t} ELSE ctx[i]]
          /\ UNCHANGED pool
  /\ op' = [op EXCEPT ![t] = "idle"]
  /\ UNCHANGED <<id_cr, routine, data, ntf, notified, proc>>

(***************************************************************************)
(* A message for t, then NotifyProcessor: the state is read, the flag is   *)
(* cleared, and the context of a pinned task is notified.                  *)
(***************************************************************************)
Message(t) ==
  /\ t \in id_cr /\ t \notin ntf /\ t \notin data
  /\ data' = data \cup {t}
  /\ ntf' = ntf \cup {t}
  /\ UNCHANGED <<id_cr, ctx, pool, op, routine, notified, proc>>

NotifyProcessor(t) ==
  /\ t \in ntf
  /\ ntf' = ntf \ {t}
  /\ routine' = [routine EXCEPT ![t].updated = @ \/ routine[t].state = "DATA_WAIT"]
  /\ notified' = [i \in Pids |-> notified[i] \/ i = Proc[t]]
  /\ proc' = [i \in Pids |->
               IF i = Proc[t] /\ ~notified[i] /\ proc[i].pc = "wait"
               THEN [proc[i] EXCEPT !.pc = "next"] ELSE proc[i]]
  /\ UNCHANGED <<id_cr, ctx, pool, op, data>>

(***************************************************************************)
(* Processor i.  NextRoutine goes through cr_queue_ by falling priority;   *)
(* it consumes the flag of every routine it passes.                        *)
(***************************************************************************)
Runnable(t) ==
  \/ routine[t].state = "READY"
  \/ routine[t].state = "DATA_WAIT" /\ routine[t].updated

Passed(i, t) == {u \in ctx[i] : Prio[u] > Prio[t]} \cup {t}

NextRoutine(i) ==
  /\ proc[i].pc = "next"
  /\ \/ \E t \in ctx[i] :
          /\ Runnable(t)
          /\ \A u \in ctx[i] : Runnable(u) => Prio[u] <= Prio[t]
          /\ routine' = [u \in Tasks |->
               IF u \notin Passed(i, t) THEN routine[u]
               ELSE [routine[u] EXCEPT !.updated = FALSE,
                       !.state = IF u = t THEN "READY" ELSE @]]
          /\ proc' = [proc EXCEPT ![i] = [pc |-> "run", cr |-> t]]
          /\ UNCHANGED notified
     \/ /\ \A t \in ctx[i] : ~Runnable(t)
        /\ notified' = [notified EXCEPT ![i] = FALSE]
        /\ proc' = [proc EXCEPT ![i].pc = "wait"]
        /\ UNCHANGED routine
  /\ UNCHANGED <<id_cr, ctx, pool, op, data, ntf>>

\* Resume: a stopped routine finishes; another announces that it waits and
\* takes its data if there is some
Run(i) ==
  /\ proc[i].pc = "run"
  /\ LET t == proc[i].cr IN
       /\ routine' = [routine EXCEPT ![t].state =
            IF routine[t].force_stop THEN "FINISHED" ELSE "DATA_WAIT"]
       /\ proc' = [proc EXCEPT ![i] =
            IF routine[t].force_stop THEN [pc |-> "next", cr |-> None]
            ELSE [@ EXCEPT !.pc = "fetch"]]
  /\ UNCHANGED <<id_cr, ctx, pool, op, data, ntf, notified>>

Fetch(i) ==
  /\ proc[i].pc = "fetch"
  /\ LET t == proc[i].cr IN
       /\ data' = data \ {t}
       /\ routine' = [routine EXCEPT ![t].state = IF t \in data THEN "READY" ELSE @]
  /\ proc' = [proc EXCEPT ![i] = [pc |-> "next", cr |-> None]]
  /\ UNCHANGED <<id_cr, ctx, pool, op, ntf, notified>>

\* wait_for(1 ms) ends
EndOfWait(i) ==
  /\ proc[i].pc = "wait"
  /\ proc' = [proc EXCEPT ![i].pc = "next"]
  /\ UNCHANGED <<id_cr, ctx, pool, op, routine, data, ntf, notified>>

ProcessorStep(i) == NextRoutine(i) \/ Run(i) \/ Fetch(i) \/ EndOfWait(i)

TaskStep(t) == Place(t) \/ Erase(t) \/ NotifyProcessor(t)

Next ==
  \/ \E t \in Tasks : Register(t) \/ Unregister(t) \/ Message(t) \/ TaskStep(t)
  \/ \E i \in Pids : ProcessorStep(i)

Spec ==
  /\ Init /\ [][Next]_vars
  /\ \A i \in Pids : WF_vars(ProcessorStep(i))
  /\ \A t \in Tasks : WF_vars(TaskStep(t))

-----------------------------------------------------------------------------

\* The tables, the queues and the processors have the shapes of the code.
TypeOK ==
  /\ id_cr \subseteq Tasks /\ pool \subseteq Tasks
  /\ data \subseteq Tasks /\ ntf \subseteq id_cr
  /\ ctx \in [Pids -> SUBSET Tasks]
  /\ op \in [Tasks -> {"idle", "place", "erase"}]
  /\ routine \in [Tasks -> [state : {"READY", "DATA_WAIT", "FINISHED"},
                            updated : BOOLEAN, force_stop : BOOLEAN]]
  /\ notified \in [Pids -> BOOLEAN]
  /\ proc \in [Pids -> [pc : {"next", "run", "fetch", "wait"},
                        cr : Tasks \cup {None}]]


\* A message for the most urgent task of a processor is fetched even if no
\* other one ever comes: unlike the classic context, a processor that missed
\* a notification looks again after a millisecond.
UrgentIsServed ==
  \A t \in Tasks :
    Pinned(t) /\ (\A u \in Tasks : Proc[u] = Proc[t] /\ u # t => Prio[u] < Prio[t])
      => (t \in data ~> (t \notin data \/ t \notin id_cr))
=============================================================================
