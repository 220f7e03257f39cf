----------------------------- MODULE MCScheduler -----------------------------
(***************************************************************************)
(* The two scheduling policies under data-driven routines and under the    *)
(* routines of TaskManager, and the timing wheel.  A behaviour is one of   *)
(* the instance that subject names.                                        *)
(***************************************************************************)
EXTENDS VisitorRoutine, Integers, TLC

CONSTANTS Subjects, c1, c2, c3, p1, p2, n1, n2
VARIABLES
    subject,
    tasks, loop, caller, tm_stop,                                             \* TaskManager
    registered, ctx, pool, placing, routine, data, found, notified, core,     \* choreography
    work, assistant, w, a, turn, started, alive, task, add, fired, togo, error   \* the wheel

taskVars == <<tasks, loop, caller, tm_stop>>
choreoVars == <<registered, ctx, pool, placing, routine, data, found, notified, core>>
wheelVars == <<work, assistant, w, a, turn, started, alive, task, add, fired, togo, error>>

\* The constants of the classic policy: three routines, two of them under one
\* id and one configured above MAX_PRIO.
RemovalIds == [c \in {c1, c2, c3} |-> IF c = c3 THEN "b" ELSE "a"]
RemovalPriorities == [c \in {c1, c2, c3} |-> IF c = c1 THEN 5 ELSE 0]

\* two dispatching threads and a data-driven routine that may sleep
Data == INSTANCE VisitorRoutine WITH
    Processors <- {p1, p2}, Routines <- {c1}, Id <- [c \in {c1} |-> "a"],
    ConfPrio <- [c \in {c1} |-> 0], MAX_PRIO <- 1, Notifiers <- {n1, n2},
    Calls <- {"RemoveTask"}, BufferSize <- 2
\* one dispatching thread, and no removal
Feed == INSTANCE VisitorRoutine WITH
    Processors <- {p1, p2}, Routines <- {c1}, Id <- [c \in {c1} |-> "a"],
    ConfPrio <- [c \in {c1} |-> 0], MAX_PRIO <- 1, Notifiers <- {n1},
    Calls <- {}, BufferSize <- 1
\* a routine is created and removed while the scheduler shuts down
Halt == INSTANCE VisitorRoutine WITH
    Processors <- {p1, p2}, Routines <- {c1}, Id <- [c \in {c1} |-> "a"],
    ConfPrio <- [c \in {c1} |-> 0], MAX_PRIO <- 1, Notifiers <- {},
    Calls <- {"RemoveTask", "Shutdown"}, BufferSize <- 1
Manager == INSTANCE TaskRoutine WITH
    Processors <- {p1}, Routines <- {c1}, Id <- [c \in {c1} |-> "a"],
    ConfPrio <- [c \in {c1} |-> 0], MAX_PRIO <- 1, Notifiers <- {n1},
    Calls <- {"RemoveTask", "Shutdown"}, QueueSize <- 2, stage <- loop
\* two tasks share the pinned processor, the third is in the pool
Choreo == INSTANCE ChoreographyScheduler WITH
    Tasks <- {c1, c2, c3}, Proc <- (c1 :> 0 @@ c2 :> 0 @@ c3 :> -1),
    Prio <- (c1 :> 3 @@ c2 :> 1 @@ c3 :> 1), ProcNum <- 1, None <- Nobody,
    id_cr <- registered, op <- placing, ntf <- found, proc <- core
Pinned == INSTANCE ChoreographyScheduler WITH
    Tasks <- {c1, c2}, Proc <- (c1 :> 0 @@ c2 :> 0), Prio <- (c1 :> 3 @@ c2 :> 1),
    ProcNum <- 1, None <- Nobody,
    id_cr <- registered, op <- placing, ntf <- found, proc <- core
\* every period from zero to one more than the longest
Wheel == INSTANCE TimingWheel WITH
    Tasks <- {c1}, Periods <- 0 .. 13, WORK_WHEEL_SIZE <- 4, ASSISTANT_WHEEL_SIZE <- 3,
    MaxError <- 1, MaxDelay <- 2
Clock == INSTANCE TimingWheel WITH
    Tasks <- {c1}, Periods <- {1, 6}, WORK_WHEEL_SIZE <- 4, ASSISTANT_WHEEL_SIZE <- 2,
    MaxError <- 1, MaxDelay <- 1
\* a period between one and two turns of the work wheel
Early == INSTANCE TimingWheel WITH
    Tasks <- {c1}, Periods <- {5}, WORK_WHEEL_SIZE <- 4, ASSISTANT_WHEEL_SIZE <- 4,
    MaxError <- 1, MaxDelay <- 2

ASSUME Manager!SchedulerAssumption /\ Manager!QueueSizeAssumption
ASSUME Choreo!ProcNumAssumption /\ Choreo!ProcAssumption
ASSUME Wheel!WheelAssumption /\ Wheel!BoundAssumption

SchedulerInit ==
    /\ subject \in Subjects
    /\ CASE subject = "removal" -> VisitorInit
         [] subject = "data" -> Data!VisitorInit
         [] subject = "halt" -> Halt!VisitorInit
         [] subject = "manager" -> Manager!Init /\ Feed!DataInit
         [] OTHER -> Feed!VisitorInit
    /\ Manager!ManagerInit
    /\ IF subject = "pinned" THEN Pinned!Init ELSE Choreo!Init
    /\ CASE subject = "clock" -> Clock!Init
         [] subject = "early" -> Early!Init
         [] OTHER -> Wheel!Init

VisitorNext ==
    \/ subject = "removal" /\ Next
    \/ subject = "data" /\ Data!Next
    \/ subject = "feed" /\ Feed!Next
    \/ subject = "halt" /\ Halt!Next

ChoreoNext ==
    \/ subject = "choreo" /\ Choreo!Next
    \/ subject = "pinned" /\ Pinned!Next

WheelNext ==
    \/ subject = "wheel" /\ Wheel!Next
    \/ subject = "clock" /\ Clock!Next
    \/ subject = "early" /\ Early!Next

SchedulerNext ==
    /\ UNCHANGED subject
    /\ \/ VisitorNext /\ UNCHANGED <<taskVars, choreoVars, wheelVars>>
       \/ subject = "manager" /\ Manager!Next /\ UNCHANGED <<dataVars, choreoVars, wheelVars>>
       \/ ChoreoNext /\ UNCHANGED <<schedVars, dataVars, taskVars, wheelVars>>
       \/ WheelNext /\ UNCHANGED <<schedVars, dataVars, taskVars, choreoVars>>

allVars == <<subject, schedVars, dataVars, taskVars, choreoVars, wheelVars>>
SchedulerSpec == SchedulerInit /\ [][SchedulerNext]_allVars

feedVars == <<schedVars, dataVars>>
managerVars == <<schedVars, taskVars>>

\* What the modules assume: threads run, time passes, and what was begun is
\* finished; messages and tasks need not come.
LiveSpec ==
    /\ SchedulerSpec
    /\ \A p \in {p1, p2} :
         WF_schedVars(\/ subject = "feed" /\ Feed!ProcessorStep(p)
                      \/ subject = "halt" /\ Halt!ProcessorStep(p)
                      \/ subject = "manager" /\ p = p1 /\ Manager!ProcessorStep(p))
    /\ WF_schedVars(\/ subject = "feed" /\ Feed!Register(c1)
                    \/ subject = "halt" /\ Halt!Register(c1)
                    \/ subject = "manager" /\ Manager!Register(c1))
    /\ WF_schedVars(\/ subject = "feed" /\ Feed!TaskStep("a")
                    \/ subject = "halt" /\ Halt!TaskStep("a")
                    \/ subject = "manager" /\ Manager!TaskStep("a"))
    /\ WF_schedVars(\/ subject = "feed" /\ Feed!NotifierStep(n1)
                    \/ subject = "manager" /\ Manager!NotifierStep(n1))
    /\ WF_schedVars(\/ subject = "feed" /\ Feed!WakeTime(c1)
                    \/ subject = "manager" /\ Manager!WakeTime(c1))
    /\ WF_schedVars(\/ subject = "halt" /\ Halt!ShutdownStep
                    \/ subject = "manager" /\ Manager!ShutdownStep)
    /\ WF_dataVars(\/ subject = "feed" /\ Feed!RegisterNotifyCallback(c1)
                   \/ subject = "halt" /\ Halt!RegisterNotifyCallback(c1))
    /\ WF_feedVars(subject = "feed" /\ Feed!Callback(n1))
    /\ \A p \in {p1, p2} : WF_feedVars(\/ subject = "feed" /\ Feed!Body(p)
                                       \/ subject = "halt" /\ Halt!Body(p))
    /\ WF_schedVars(subject = "manager" /\ Manager!CreateTask(c1))
    /\ WF_managerVars(subject = "manager" /\ Manager!NotifyTask(n1))
    /\ WF_managerVars(subject = "manager" /\ Manager!Body(p1))
    /\ WF_choreoVars(subject = "pinned" /\ Pinned!ProcessorStep(0))
    /\ \A t \in {c1, c2} : WF_choreoVars(subject = "pinned" /\ Pinned!TaskStep(t))
    /\ WF_wheelVars(subject = "clock" /\ Clock!TickThread)
    /\ WF_wheelVars(subject = "clock" /\ Clock!AddTask(c1))
    /\ WF_wheelVars(subject = "clock" /\ Clock!Pool(c1))

Symmetry == Permutations({p1, p2})

-----------------------------------------------------------------------------


\* timer.h:60 "perform the callback only after the first timing cycle": a
\* oneshot timer does not fire before its period has passed.
NeverEarly == subject = "early" => Early!NeverEarly


=============================================================================
