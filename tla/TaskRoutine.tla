---------------------------- MODULE TaskRoutine -----------------------------
(***************************************************************************)
(* The routines of TaskManager (task/task_manager.cc) on the classic       *)
(* scheduler: they share one bounded queue of tasks, here the number of    *)
(* tasks in it, and hang up when they find it empty.  The notifier threads *)
(* of the scheduler are the callers of TaskManager::Enqueue, that is, of   *)
(* Async.                                                                  *)
(***************************************************************************)
EXTENDS ClassicScheduler

CONSTANT QueueSize   \* task_queue_size_

QueueSizeAssumption == QueueSize \in Nat \ {0}

VARIABLES
  tasks,      \* tasks in task_queue_
  stage,      \* stage[c]: where the loop of routine c is
  caller,     \* caller[n]: ids that n's Enqueue still has to notify
  tm_stop     \* TaskManager::stop_

taskVars == <<tasks, stage, caller, tm_stop>>
vars == <<cr, due, id_cr, born, rq, op, proc, ntf, stop, ctx_stop, running,
          main, tasks, stage, caller, tm_stop>>

ManagerInit ==
  /\ tasks = 0
  /\ stage = [c \in Routines |-> "loop"]
  /\ caller = [n \in Notifiers |-> {}]
  /\ tm_stop = FALSE

TaskInit == Init /\ ManagerInit

(***************************************************************************)
(* TaskManager::Enqueue: the queue, whose refusal is ignored, then         *)
(* NotifyTask for every routine.  The routines exist: the constructor has  *)
(* created them.                                                           *)
(***************************************************************************)
EnqueueTask(n) ==
  /\ caller[n] = {} /\ ntf[n] = Idle /\ ~tm_stop
  /\ \A c \in Routines : born[c] = "created"
  /\ tasks' = IF tasks = QueueSize THEN tasks ELSE tasks + 1
  /\ caller' = [caller EXCEPT ![n] = Ids]
  /\ UNCHANGED <<schedVars, stage, tm_stop>>

NotifyTask(n) == \E i \in caller[n] :
  /\ StartNotify(n, i)
  /\ caller' = [caller EXCEPT ![n] = @ \ {i}]
  /\ UNCHANGED <<cr, due, id_cr, born, rq, op, proc, stop, ctx_stop, running,
                 main, tasks, stage, tm_stop>>

\* TaskManager::Shutdown; each routine is then removed by RemoveTask
ShutdownTasks ==
  /\ ~tm_stop
  /\ \A c \in Routines : born[c] = "created"
  /\ tm_stop' = TRUE
  /\ UNCHANGED <<schedVars, tasks, stage, caller>>

(***************************************************************************)
(* The routine.                                                            *)
(***************************************************************************)
Dequeue(p, c) ==
  /\ Runs(p, c) /\ stage[c] = "loop" /\ ~tm_stop
  /\ IF tasks = 0
     THEN tasks' = tasks /\ stage' = [stage EXCEPT ![c] = "hangup"]
     ELSE tasks' = tasks - 1 /\ stage' = [stage EXCEPT ![c] = "task"]
  /\ UNCHANGED <<schedVars, caller, tm_stop>>

HangUp(p, c) ==
  /\ Runs(p, c) /\ stage[c] = "hangup"
  /\ SetState(c, "DATA_WAIT") /\ SwapOut(p)
  /\ stage' = [stage EXCEPT ![c] = "loop"]
  /\ UNCHANGED <<due, id_cr, born, rq, op, ntf, stop, ctx_stop, running, main,
                 tasks, caller, tm_stop>>

\* a task may sleep once
SleepInTask(p, c) ==
  /\ Runs(p, c) /\ stage[c] = "task"
  /\ SetState(c, "SLEEP") /\ SwapOut(p)
  /\ stage' = [stage EXCEPT ![c] = "slept"]
  /\ UNCHANGED <<due, id_cr, born, rq, op, ntf, stop, ctx_stop, running, main,
                 tasks, caller, tm_stop>>

RunTask(p, c) ==
  /\ Runs(p, c) /\ stage[c] \in {"task", "slept"}
  /\ stage' = [stage EXCEPT ![c] = "loop"]
  /\ UNCHANGED <<schedVars, tasks, caller, tm_stop>>

\* the loop ends and CRoutineEntry yields for the last time
Finish(p, c) ==
  /\ Runs(p, c) /\ stage[c] = "loop" /\ tm_stop
  /\ SetState(c, "FINISHED") /\ SwapOut(p)
  /\ UNCHANGED <<due, id_cr, born, rq, op, ntf, stop, ctx_stop, running, main,
                 tasks, stage, caller, tm_stop>>

Body(p) == \E c \in Routines :
  Dequeue(p, c) \/ HangUp(p, c) \/ SleepInTask(p, c) \/ RunTask(p, c)
    \/ Finish(p, c)

\* cyber::Clear shuts the task manager down before the scheduler, and only
\* that removes the manager's routines
ClearOrder == stop' \/ (\E c \in Routines : cr'[c].force_stop) => tm_stop

Next ==
  \/ SchedulerStep /\ ClearOrder /\ UNCHANGED taskVars
  \/ \E n \in Notifiers : EnqueueTask(n) \/ NotifyTask(n)
  \/ ShutdownTasks
  \/ \E p \in Processors : Body(p)
  \/ main.pc = "done" /\ UNCHANGED vars

Spec ==
  /\ TaskInit /\ [][Next]_vars
  /\ SchedulerFairness
  /\ \A c \in Routines : WF_vars(CreateTask(c) /\ UNCHANGED taskVars)
  /\ \A n \in Notifiers : WF_vars(NotifyTask(n))
  /\ \A p \in Processors : WF_vars(Body(p))

-----------------------------------------------------------------------------

\* As long as tasks keep being enqueued, tasks keep being run: the hang-up
\* that overtook a notification is made good by the next Enqueue.
TasksKeepRunning ==
  []<>(\E n \in Notifiers : caller[n] # {}) /\ []~tm_stop
    => []<>(\E c \in Routines : stage[c] = "task")

\* A task that was accepted is run, and the future that Async returned
\* becomes ready: when no more tasks come the queue is emptied.
TasksAreRun ==
  <>[](\A n \in Notifiers : caller[n] = {}) /\ []~tm_stop => <>[](tasks = 0)
=============================================================================
