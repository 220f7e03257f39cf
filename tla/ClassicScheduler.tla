-------------------------- MODULE ClassicScheduler --------------------------
(***************************************************************************)
(* The classic policy of the scheduler for one group: the processors of    *)
(* scheduler/processor.cc with the ClassicContext of policy/               *)
(* classic_context.cc, and DispatchTask, NotifyProcessor, RemoveCRoutine   *)
(* and Shutdown of scheduler.cc and policy/scheduler_classic.cc, over the  *)
(* CRoutine of croutine/.                                                  *)
(*                                                                         *)
(* What a routine does between two yields is not here: a module that       *)
(* extends this one says it, through Yield and Sleep.  A routine is an     *)
(* object; two objects may be created one after the other under one id.    *)
(* The run queue locks are the reader-writer locks of AtomicRWLock: a      *)
(* processor holds the read lock of a level while it looks through it, so  *)
(* a queue changes only at a level nobody looks through.                   *)
(***************************************************************************)
EXTENDS Naturals, Sequences

CONSTANTS
  Processors,   \* the processors of the group
  Routines,     \* the CRoutine objects
  Id,           \* Id[c]: the task id of c
  ConfPrio,     \* ConfPrio[c]: the priority the configuration gives c
  MAX_PRIO,     \* number of levels of a run queue
  Notifiers,    \* the threads that call NotifyProcessor
  Nobody,       \* no routine: a null pointer
  Calls         \* which of RemoveTask and Shutdown the program calls

SchedulerAssumption ==
  /\ MAX_PRIO \in Nat \ {0} /\ \A c \in Routines : ConfPrio[c] \in Nat
  /\ Nobody \notin Routines

Ids == {Id[c] : c \in Routines}
Levels == 0 .. MAX_PRIO - 1

VARIABLES
  cr,        \* cr[c]: state_, whether updated_ is clear, lock_, force_stop_
  due,       \* routines asleep whose wake_time_ has passed
  id_cr,     \* id_cr_[i]: the routine registered under id i
  born,      \* born[c]: how far CreateTask is with c
  rq,        \* multi_pri_rq_: a queue of routines per level
  op,        \* op[i]: the operation that holds the mutex of id i
  proc,      \* proc[p]: where processor p is, and its need_sleep_
  ntf,       \* ntf[n]: the NotifyProcessor call of n
  stop,      \* Scheduler::stop_
  ctx_stop,  \* processors whose context has stop_ set
  running,   \* processors whose running_ is true
  main       \* where the thread that calls Scheduler::Shutdown is

schedVars ==
  <<cr, due, id_cr, born, rq, op, proc, ntf, stop, ctx_stop, running, main>>

Idle == [pc |-> "idle", cr |-> Nobody]

Init ==
  /\ cr = [c \in Routines |->
             [state |-> "READY", updated |-> FALSE, lock |-> FALSE,
              force_stop |-> FALSE]]
  /\ due = {}
  /\ id_cr = [i \in Ids |-> Nobody]
  /\ born = [c \in Routines |-> "no"]
  /\ rq = [l \in Levels |-> << >>]
  /\ op = [i \in Ids |-> Idle]
  /\ proc = [p \in Processors |->
               [pc |-> "top", level |-> 0, todo |-> << >>, cr |-> Nobody,
                need_sleep |-> FALSE]]
  /\ ntf = [n \in Notifiers |-> Idle]
  /\ stop = FALSE
  /\ ctx_stop = {}
  /\ running = Processors
  /\ main = [pc |-> "idle", left |-> {}, erasing |-> {}]

(***************************************************************************)
(* The condition variable of the group.  Nobody holds its mutex when it    *)
(* calls notify_one: a processor that has decided to wait and does not     *)
(* wait yet is not woken.                                                  *)
(***************************************************************************)
Waiting == {p \in Processors : proc[p].pc \in {"asleep", "napping"}}

Awake(p) == [proc[p] EXCEPT !.pc = "top", !.need_sleep = FALSE]

NotifyOne ==
  \/ Waiting = {} /\ UNCHANGED proc
  \/ \E p \in Waiting : proc' = [proc EXCEPT ![p] = Awake(p)]

NotifyAll == [p \in Processors |-> IF p \in Waiting THEN Awake(p) ELSE proc[p]]

(***************************************************************************)
(* DispatchTask and RemoveCRoutine.  The mutex of the id is held from the  *)
(* first step to the last; the id table does not change while a notifier   *)
(* holds its read lock, nor a level while a processor looks through it.    *)
(***************************************************************************)
Priority(c) == IF ConfPrio[c] >= MAX_PRIO THEN MAX_PRIO - 1 ELSE ConfPrio[c]

IdsUnread == \A n \in Notifiers : ntf[n].pc \notin {"flag", "wake"}

Unread(l) ==
  \A p \in Processors : ~(proc[p].pc \in {"scan", "check"} /\ proc[p].level = l)

\* CreateTask tests stop_ and registers the routine some time later; a second
\* routine with a registered id is refused
CreateTask(c) ==
  /\ born[c] = "no" /\ ~stop
  /\ born' = [born EXCEPT ![c] = "creating"]
  /\ UNCHANGED <<cr, due, id_cr, rq, op, proc, ntf, stop, ctx_stop, running, main>>

Register(c) ==
  /\ born[c] = "creating"
  /\ op[Id[c]] = Idle /\ IdsUnread
  /\ born' = [born EXCEPT ![c] =
               IF id_cr[Id[c]] = Nobody THEN "registered" ELSE "refused"]
  /\ IF id_cr[Id[c]] = Nobody
     THEN /\ id_cr' = [id_cr EXCEPT ![Id[c]] = c]
          /\ op' = [op EXCEPT ![Id[c]] = [pc |-> "enqueue", cr |-> c]]
     ELSE UNCHANGED <<id_cr, op>>
  /\ UNCHANGED <<cr, due, rq, proc, ntf, stop, ctx_stop, running, main>>

Enqueue(i) ==
  /\ op[i].pc = "enqueue"
  /\ LET c == op[i].cr IN
       /\ Unread(Priority(c))
       /\ rq' = [rq EXCEPT ![Priority(c)] = Append(@, c)]
  /\ op' = [op EXCEPT ![i].pc = "notify"]
  /\ UNCHANGED <<cr, due, id_cr, born, proc, ntf, stop, ctx_stop, running, main>>

NotifyCreated(i) ==
  /\ op[i].pc = "notify"
  /\ NotifyOne
  /\ op' = [op EXCEPT ![i] = Idle]
  /\ born' = [born EXCEPT ![op[i].cr] = "created"]
  /\ UNCHANGED <<cr, due, id_cr, rq, ntf, stop, ctx_stop, running, main>>

Unregister(i) ==
  /\ op[i] = Idle /\ IdsUnread
  /\ id_cr[i] # Nobody
  /\ cr' = [cr EXCEPT ![id_cr[i]].force_stop = TRUE]
  /\ id_cr' = [id_cr EXCEPT ![i] = Nobody]
  /\ op' = [op EXCEPT ![i] = [pc |-> "erase", cr |-> id_cr[i]]]
  /\ UNCHANGED <<due, born, rq, proc, ntf, stop, ctx_stop, running, main>>

RemoveTask(i) == "RemoveTask" \in Calls /\ ~stop /\ Unregister(i)

Without(q, k) == [j \in 1 .. Len(q) - 1 |-> IF j < k THEN q[j] ELSE q[j + 1]]

\* the first routine of the level with this id leaves the queue and is
\* released, whoever holds it
EraseFirst(i, l) ==
  LET q == rq[l] IN
  \/ (\A k \in DOMAIN q : Id[q[k]] # i) /\ UNCHANGED <<rq, cr>>
  \/ \E k \in DOMAIN q :
       /\ Id[q[k]] = i /\ \A j \in 1 .. k - 1 : Id[q[j]] # i
       /\ rq' = [rq EXCEPT ![l] = Without(q, k)]
       /\ cr' = [cr EXCEPT ![q[k]].force_stop = TRUE, ![q[k]].lock = FALSE]

\* Mutant: the queue changes under the processors that look through it
EraseAnyTime(i) ==
  /\ op[i].pc = "erase"
  /\ EraseFirst(i, Priority(op[i].cr))
  /\ op' = [op EXCEPT ![i] = Idle]
  /\ UNCHANGED <<due, id_cr, born, proc, ntf, stop, ctx_stop, running, main>>

Erase(i) ==
  /\ op[i].pc = "erase"
  /\ Unread(Priority(op[i].cr))
  /\ EraseFirst(i, Priority(op[i].cr))
  /\ op' = [op EXCEPT ![i] = Idle]
  /\ UNCHANGED <<due, id_cr, born, proc, ntf, stop, ctx_stop, running, main>>

(***************************************************************************)
(* NotifyProcessor, on a thread n that has been told that routine id i has *)
(* data.  The state is read, and the flag cleared, without lock_.          *)
(***************************************************************************)
StartNotify(n, i) ==
  /\ ntf[n] = Idle
  /\ ntf' = [ntf EXCEPT ![n] =
               IF stop \/ id_cr[i] = Nobody THEN Idle
               ELSE [pc |-> IF cr[id_cr[i]].state = "DATA_WAIT" THEN "flag"
                            ELSE "wake",
                     cr |-> id_cr[i]]]


SetUpdateFlag(n) ==
  /\ ntf[n].pc = "flag"
  /\ cr' = [cr EXCEPT ![ntf[n].cr].updated = TRUE]
  /\ ntf' = [ntf EXCEPT ![n].pc = "wake"]
  /\ UNCHANGED <<due, id_cr, born, rq, op, proc, stop, ctx_stop, running, main>>

Notify(n) ==
  /\ ntf[n].pc = "wake"
  /\ NotifyOne
  /\ ntf' = [ntf EXCEPT ![n] = Idle]
  /\ UNCHANGED <<cr, due, id_cr, born, rq, op, stop, ctx_stop, running, main>>

(***************************************************************************)
(* Processor::Run.  NextRoutine goes through the levels from the highest   *)
(* down and through a level in queue order.                                *)
(***************************************************************************)
Top(p) ==
  /\ proc[p].pc = "top"
  /\ proc' = [proc EXCEPT ![p] =
               IF p \notin running THEN [@ EXCEPT !.pc = "exit"]
               ELSE IF p \in ctx_stop THEN [@ EXCEPT !.pc = "wait"]
               ELSE [@ EXCEPT !.pc = "scan", !.level = MAX_PRIO - 1,
                              !.todo = rq[MAX_PRIO - 1]]]
  /\ UNCHANGED <<cr, due, id_cr, born, rq, op, ntf, stop, ctx_stop, running, main>>

\* the level is done: the next one, or nothing to run
NextLevel(p) ==
  /\ proc[p].pc = "scan" /\ proc[p].todo = << >>
  /\ proc' = [proc EXCEPT ![p] =
               IF @.level = 0 THEN [@ EXCEPT !.pc = "wait"]
               ELSE [@ EXCEPT !.level = proc[p].level - 1,
                              !.todo = rq[proc[p].level - 1]]]
  /\ UNCHANGED <<cr, due, id_cr, born, rq, op, ntf, stop, ctx_stop, running, main>>

Acquire(p) ==
  /\ proc[p].pc = "scan" /\ proc[p].todo # << >>
  /\ LET c == Head(proc[p].todo) IN
       /\ cr' = [cr EXCEPT ![c].lock = TRUE]
       /\ proc' = [proc EXCEPT ![p] =
                    IF cr[c].lock THEN [@ EXCEPT !.todo = Tail(proc[p].todo)]
                    ELSE [@ EXCEPT !.todo = Tail(proc[p].todo), !.pc = "check",
                                   !.cr = c]]
  /\ UNCHANGED <<due, id_cr, born, rq, op, ntf, stop, ctx_stop, running, main>>

\* CRoutine::UpdateState: a sleeper that is due wakes up; otherwise the flag
\* is consumed whatever the state is
Updated(c) ==
  LET r == cr[c] IN
    IF r.state = "SLEEP" /\ c \in due
    THEN [r EXCEPT !.state = "READY"]
    ELSE [r EXCEPT !.updated = FALSE,
                   !.state = IF r.updated /\ r.state \in {"DATA_WAIT", "IO_WAIT"}
                             THEN "READY" ELSE r.state]

Check(p) ==
  /\ proc[p].pc = "check"
  /\ LET c == proc[p].cr
         r == Updated(c)
     IN /\ cr' = [cr EXCEPT ![c] = [r EXCEPT !.lock = (r.state = "READY")]]
        /\ due' = IF r.state = "READY" THEN due \ {c} ELSE due
        /\ proc' = [proc EXCEPT ![p] =
                     IF r.state = "READY"
                     THEN [@ EXCEPT !.pc = "resume", !.todo = << >>]
                     ELSE [@ EXCEPT !.pc = "scan", !.cr = Nobody,
                                    !.need_sleep = proc[p].need_sleep
                                                   \/ r.state = "SLEEP"]]
  /\ UNCHANGED <<id_cr, born, rq, op, ntf, stop, ctx_stop, running, main>>

\* Mutant: a stopped routine is swapped in like any other
ResumeStopped(p) ==
  /\ proc[p].pc = "resume"
  /\ proc' = [proc EXCEPT ![p].pc = "body"]
  /\ UNCHANGED <<cr, due, id_cr, born, rq, op, ntf, stop, ctx_stop, running, main>>

Resume(p) ==
  /\ proc[p].pc = "resume"
  /\ LET c == proc[p].cr IN
       IF cr[c].force_stop
       THEN /\ cr' = [cr EXCEPT ![c].state = "FINISHED"]
            /\ proc' = [proc EXCEPT ![p].pc = "release"]
       ELSE /\ proc' = [proc EXCEPT ![p].pc = "body"]
            /\ UNCHANGED cr
  /\ UNCHANGED <<due, id_cr, born, rq, op, ntf, stop, ctx_stop, running, main>>

Release(p) ==
  /\ proc[p].pc = "release"
  /\ cr' = [cr EXCEPT ![proc[p].cr].lock = FALSE]
  /\ proc' = [proc EXCEPT ![p].pc = "top", ![p].cr = Nobody]
  /\ UNCHANGED <<due, id_cr, born, rq, op, ntf, stop, ctx_stop, running, main>>

(***************************************************************************)
(* Steps of the routine c that p runs: Yield() keeps the state, the other  *)
(* forms set it, and all leave the routine.                                *)
(***************************************************************************)
Runs(p, c) == proc[p].pc = "body" /\ proc[p].cr = c

SetState(c, s) == cr' = [cr EXCEPT ![c].state = s]

SwapOut(p) == proc' = [proc EXCEPT ![p].pc = "release"]

\* wake_time_ of a sleeping routine passes
WakeTime(c) ==
  /\ cr[c].state = "SLEEP" /\ c \notin due
  /\ due' = due \cup {c}
  /\ UNCHANGED <<cr, id_cr, born, rq, op, proc, ntf, stop, ctx_stop, running, main>>

(***************************************************************************)
(* ClassicContext::Wait: stop_ is tested and the wait begun under the      *)
(* mutex; a wait ends by a notification, by the time a sleeper is due, or  *)
(* for no reason.                                                          *)
(***************************************************************************)
\* Mutant: stop_ is not tested again under the mutex
WaitUntested(p) ==
  /\ proc[p].pc = "wait"
  /\ proc' = [proc EXCEPT ![p].pc =
               IF proc[p].need_sleep THEN "napping" ELSE "asleep"]
  /\ UNCHANGED <<cr, due, id_cr, born, rq, op, ntf, stop, ctx_stop, running, main>>

Wait(p) ==
  /\ proc[p].pc = "wait"
  /\ proc' = [proc EXCEPT ![p].pc =
               IF p \in ctx_stop THEN "top"
               ELSE IF proc[p].need_sleep THEN "napping" ELSE "asleep"]
  /\ UNCHANGED <<cr, due, id_cr, born, rq, op, ntf, stop, ctx_stop, running, main>>

EndOfNap(p) ==
  /\ proc[p].pc = "napping"
  /\ proc' = [proc EXCEPT ![p] = Awake(p)]
  /\ UNCHANGED <<cr, due, id_cr, born, rq, op, ntf, stop, ctx_stop, running, main>>

Spurious(p) ==
  /\ proc[p].pc = "asleep"
  /\ proc' = [proc EXCEPT ![p] = Awake(p)]
  /\ UNCHANGED <<cr, due, id_cr, born, rq, op, ntf, stop, ctx_stop, running, main>>

(***************************************************************************)
(* Scheduler::Shutdown: the contexts, then every registered routine, then  *)
(* each processor is stopped and joined.                                   *)
(***************************************************************************)
Shutdown ==
  /\ main.pc = "idle" /\ "Shutdown" \in Calls
  /\ stop' = TRUE
  /\ main' = [main EXCEPT !.pc = "contexts", !.left = Processors]
  /\ UNCHANGED <<cr, due, id_cr, born, rq, op, proc, ntf, ctx_stop, running>>

ShutContext(p) ==
  /\ main.pc = "contexts" /\ p \in main.left
  /\ ctx_stop' = ctx_stop \cup {p}
  /\ proc' = NotifyAll
  /\ main' = [main EXCEPT !.left = @ \ {p}]
  /\ UNCHANGED <<cr, due, id_cr, born, rq, op, ntf, stop, running>>

ListRoutines ==
  /\ main.pc = "contexts" /\ main.left = {}
  /\ main' = [main EXCEPT !.pc = "remove",
                          !.left = {i \in Ids : id_cr[i] # Nobody}]
  /\ UNCHANGED <<cr, due, id_cr, born, rq, op, proc, ntf, stop, ctx_stop, running>>

\* RemoveCRoutine(i); its second half is Erase(i)
Erased == \A i \in main.erasing : op[i].pc # "erase"

ShutRemove(i) ==
  /\ main.pc = "remove" /\ i \in main.left /\ Erased
  /\ op[i] = Idle /\ IdsUnread
  /\ main' = [main EXCEPT !.left = @ \ {i}, !.erasing = {i}]
  /\ IF id_cr[i] = Nobody
     THEN UNCHANGED <<cr, id_cr, op>>
     ELSE /\ cr' = [cr EXCEPT ![id_cr[i]].force_stop = TRUE]
          /\ id_cr' = [id_cr EXCEPT ![i] = Nobody]
          /\ op' = [op EXCEPT ![i] = [pc |-> "erase", cr |-> id_cr[i]]]
  /\ UNCHANGED <<due, born, rq, proc, ntf, stop, ctx_stop, running>>

StopProcessors ==
  /\ main.pc = "remove" /\ main.left = {} /\ Erased
  /\ main' = [main EXCEPT !.pc = "stop", !.left = Processors]
  /\ UNCHANGED <<cr, due, id_cr, born, rq, op, proc, ntf, stop, ctx_stop, running>>

\* Processor::Stop, up to the join
StopProcessor(p) ==
  /\ main.pc = "stop" /\ p \in main.left
  /\ running \subseteq main.left
  /\ running' = running \ {p}
  /\ proc' = NotifyAll
  /\ main' = [main EXCEPT !.left = @ \ {p}, !.pc = "join"]
  /\ UNCHANGED <<cr, due, id_cr, born, rq, op, ntf, stop, ctx_stop>>

Join ==
  /\ main.pc = "join"
  /\ \A p \in Processors \ running : proc[p].pc = "exit"
  /\ main' = [main EXCEPT !.pc = IF main.left = {} THEN "done" ELSE "stop"]
  /\ UNCHANGED <<cr, due, id_cr, born, rq, op, proc, ntf, stop, ctx_stop, running>>

ProcessorStep(p) ==
  \/ Top(p) \/ NextLevel(p) \/ Acquire(p) \/ Check(p) \/ Resume(p)
  \/ Release(p) \/ Wait(p) \/ EndOfNap(p)

TaskStep(i) == Enqueue(i) \/ NotifyCreated(i) \/ Erase(i)

NotifierStep(n) == SetUpdateFlag(n) \/ Notify(n)

ShutdownStep ==
  \/ ListRoutines \/ StopProcessors \/ Join
  \/ \E p \in Processors : ShutContext(p) \/ StopProcessor(p)
  \/ \E i \in Ids : ShutRemove(i)

\* every step of the scheduler but the ones that run a routine or start a
\* notification
SchedulerStep ==
  \/ \E p \in Processors : ProcessorStep(p) \/ Spurious(p)
  \/ \E c \in Routines : CreateTask(c) \/ Register(c) \/ WakeTime(c)
  \/ \E i \in Ids : RemoveTask(i) \/ TaskStep(i)
  \/ \E n \in Notifiers : NotifierStep(n)
  \/ Shutdown \/ ShutdownStep

\* Each thread of the scheduler keeps running, time passes, and a creation or
\* removal that has begun is finished.  Creating, removing, notifying and
\* shutting down are choices of the callers.
SchedulerFairness ==
  /\ \A p \in Processors : WF_schedVars(ProcessorStep(p))
  /\ \A c \in Routines : WF_schedVars(Register(c)) /\ WF_schedVars(WakeTime(c))
  /\ \A i \in Ids : WF_schedVars(TaskStep(i))
  /\ \A n \in Notifiers : WF_schedVars(NotifierStep(n))
  /\ WF_schedVars(ShutdownStep)

-----------------------------------------------------------------------------

States == {"READY", "FINISHED", "SLEEP", "IO_WAIT", "DATA_WAIT"}

CRoutine ==
  [state : States, updated : BOOLEAN, lock : BOOLEAN, force_stop : BOOLEAN]

Operation ==
  [pc : {"idle", "enqueue", "notify", "erase"}, cr : Routines \cup {Nobody}]

Places ==
  [pc : {"top", "scan", "check", "resume", "body", "release", "wait", "asleep",
         "napping", "exit"},
   level : Levels, todo : Seq(Routines), cr : Routines \cup {Nobody},
   need_sleep : BOOLEAN]

MainPlaces ==
  [pc : {"idle", "contexts", "remove", "stop", "join", "done"},
   left : SUBSET (Processors \cup Ids), erasing : SUBSET Ids]

\* The scheduler's tables, run queues and threads have the shapes of the code.
SchedTypeOK ==
  /\ cr \in [Routines -> CRoutine]
  /\ due \subseteq Routines
  /\ id_cr \in [Ids -> Routines \cup {Nobody}]
  /\ born \in [Routines -> {"no", "creating", "refused", "registered", "created"}]
  /\ rq \in [Levels -> Seq(Routines)]
  /\ op \in [Ids -> Operation]
  /\ proc \in [Processors -> Places]
  /\ ntf \in [Notifiers -> [pc : {"idle", "flag", "wake"},
                            cr : Routines \cup {Nobody}]]
  /\ stop \in BOOLEAN
  /\ ctx_stop \subseteq Processors
  /\ running \subseteq Processors
  /\ main \in MainPlaces

InQueue(c, l) == \E k \in DOMAIN rq[l] : rq[l][k] = c

Holds(p, c) ==
  /\ proc[p].cr = c
  /\ proc[p].pc \in {"check", "resume", "body", "release"}

\* A routine is looked at or run by one processor at a time: Acquire and
\* Release around UpdateState and Resume keep its stack to one thread, and
\* the Release that RemoveCRoutine does on a routine that is running lets no
\* second processor in.
OneHolder ==
  \A p, q \in DOMAIN proc, c \in DOMAIN cr : Holds(p, c) /\ Holds(q, c) => p = q

\* When no creation or removal of an id is under way, the run queues hold the
\* routine registered under that id and no other: DispatchTask and
\* RemoveCRoutine keep id_cr_ and the queues in step, at the clamped priority.
QueuesMatchIds ==
  \A i \in DOMAIN op : op[i] = Idle =>
    \A c \in DOMAIN cr : Id[c] = i =>
      ((\E l \in DOMAIN rq : InQueue(c, l)) <=> id_cr[i] = c)

\* Together: one processor for a routine, one routine for an id.
OneRunner == OneHolder /\ QueuesMatchIds

\* A routine that called Sleep is never left with every processor in an
\* untimed wait: some processor is awake or waits no longer than the wake
\* time, so the sleeper is looked at again (need_sleep_ of NextRoutine).
SleeperIsWatched ==
  \A c \in DOMAIN cr, l \in DOMAIN rq :
    InQueue(c, l) /\ cr[c].state = "SLEEP"
      => \E p \in DOMAIN proc : proc[p].pc # "asleep"

\* RemoveTask stops a routine for good: once it is stopped and off the
\* processors it never gets one again, even if a processor had already picked
\* it (force_stop_ in CRoutine::Resume, and the queue it left).
StaysStopped ==
  \A c \in DOMAIN cr :
    cr[c].force_stop /\ (\A p \in DOMAIN proc : ~Runs(p, c))
      => \A p \in DOMAIN proc : ~Runs(p, c)'
StoppedStaysStopped == [][StaysStopped]_schedVars

\* Shutdown returns: every processor leaves its loop and is joined, whatever
\* it was doing and whoever else was creating or removing routines.
ShutdownEnds == (main.pc = "contexts") ~> (main.pc = "done")
=============================================================================
