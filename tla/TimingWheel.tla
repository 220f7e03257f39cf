---------------------------- MODULE TimingWheel -----------------------------
(***************************************************************************)
(* timer/timing_wheel.cc and timer/timer.cc: the two wheels, the thread    *)
(* that turns them, and the timers.  AddTask reads the position of the     *)
(* work wheel and files the task some time later, while the wheel turns.   *)
(*                                                                         *)
(* A task is a TimerTask object.  Buckets hold weak references: Stop       *)
(* destroys the object and leaves the reference behind.  An object is used *)
(* again only when no bucket and no callback refers to it.                 *)
(***************************************************************************)
EXTENDS Integers, FiniteSets

CONSTANTS
  Tasks,
  Periods,         \* the periods timers are started with
  WORK_WHEEL_SIZE,
  ASSISTANT_WHEEL_SIZE,
  MaxError,        \* bound: execution time and accumulated error of a callback
  MaxDelay         \* bound: ticks that may overtake one AddTask

WheelAssumption ==
  WORK_WHEEL_SIZE \in Nat \ {0} /\ ASSISTANT_WHEEL_SIZE \in Nat \ {0}
BoundAssumption == MaxDelay \in Nat /\ MaxError \in Nat

TIMER_MAX_INTERVAL_MS == WORK_WHEEL_SIZE * ASSISTANT_WHEEL_SIZE
GetWorkWheelIndex(i) == i % WORK_WHEEL_SIZE
GetAssistantWheelIndex(i) == i % ASSISTANT_WHEEL_SIZE

VARIABLES
  work, assistant,     \* the buckets, as sets of tasks
  w, a,                \* current_work_wheel_index_, current_assistant_...
  turn,                \* where the tick thread is
  started,             \* timers with started_ set
  alive,               \* tasks whose object exists
  task,                \* task[t]: interval, next_fire_duration, remainder, oneshot
  add,                 \* add[t]: the AddTask call for t, and its stale index
  fired,               \* tasks whose callback Tick has handed to Async
  togo,                \* togo[t]: ticks until t is due (a clock, not code)
  error                \* error[t]: togo[t] when Tick took t, until its callback

vars == <<work, assistant, w, a, turn, started, alive, task, add, fired, togo,
          error>>

NotAdding == [pc |-> "no", from |-> 0, overtaken |-> 0]

Init ==
  /\ work = [i \in 0 .. WORK_WHEEL_SIZE - 1 |-> {}]
  /\ assistant = [i \in 0 .. ASSISTANT_WHEEL_SIZE - 1 |-> {}]
  /\ w = 0 /\ a = 0
  /\ turn = "tick"
  /\ started = {} /\ alive = {} /\ fired = {}
  /\ task = [t \in Tasks |-> [interval |-> 1, next |-> 1, remainder |-> 0, oneshot |-> FALSE]]
  /\ add = [t \in Tasks |-> NotAdding]
  /\ togo = [t \in Tasks |-> 0]
  /\ error = [t \in Tasks |-> 0]

Filing(t) == add[t].pc # "no"

Referenced(t) ==
  \/ \E i \in DOMAIN work : t \in work[i]
  \/ \E i \in DOMAIN assistant : t \in assistant[i]

(***************************************************************************)
(* Timer::Start and Stop.  A period that InitTimerTask refuses leaves      *)
(* started_ set.  A timer is not stopped while its Start still runs.       *)
(***************************************************************************)
Accepted(period) == period # 0 /\ period < TIMER_MAX_INTERVAL_MS

\* AddTask(task) reads the index it passes on
ReadIndex(t, d, pc) ==
  /\ add' = [add EXCEPT ![t] = [pc |-> pc, from |-> w, overtaken |-> 0]]
  /\ togo' = [togo EXCEPT ![t] = d]

Start(t, period, oneshot) ==
  /\ t \notin started \cup alive \cup fired
  /\ ~Referenced(t) /\ ~Filing(t)
  /\ started' = started \cup {t}
  /\ task' = [task EXCEPT ![t] =
               [interval |-> period, next |-> period, remainder |-> 0,
                oneshot |-> oneshot]]
  /\ IF Accepted(period)
     THEN alive' = alive \cup {t} /\ ReadIndex(t, period, "start")
     ELSE UNCHANGED <<alive, add, togo>>
  /\ UNCHANGED <<work, assistant, w, a, turn, fired, error>>

Stop(t) ==
  /\ t \in started /\ add[t].pc # "start"
  /\ started' = started \ {t}
  /\ alive' = alive \ {t}
  /\ togo' = [togo EXCEPT ![t] = 0]
  /\ UNCHANGED <<work, assistant, w, a, turn, task, add, fired, error>>


IntoWork(t, index) ==
  /\ work' = [work EXCEPT ![index] = @ \cup {t}]
  /\ UNCHANGED assistant

IntoAssistant(t, index) ==
  /\ assistant' = [assistant EXCEPT ![index] = @ \cup {t}]
  /\ UNCHANGED work

AddTask(t) ==
  LET index == add[t].from + task[t].next
      real == GetWorkWheelIndex(index)
      turns == index \div WORK_WHEEL_SIZE
  IN /\ Filing(t)
     /\ add' = [add EXCEPT ![t] =
                  [pc |-> "no", from |-> 0,
                   overtaken |-> @.overtaken + IF turn = "turn" THEN 1 ELSE 0]]
     /\ IF index < WORK_WHEEL_SIZE
        THEN IntoWork(t, index) /\ UNCHANGED task
        ELSE /\ task' = [task EXCEPT ![t].remainder = real]
             /\ IF turns = 1 /\ real # w
                THEN IntoWork(t, real)
                ELSE IntoAssistant(t, GetAssistantWheelIndex(a + turns))
     /\ UNCHANGED <<w, a, turn, started, alive, fired, togo, error>>

(***************************************************************************)
(* TickFunc: Tick, sleep for a tick, advance, and cascade on a full turn.  *)
(***************************************************************************)
Tick ==
  /\ turn = "tick"
  /\ work' = [work EXCEPT ![w] = {}]
  /\ fired' = fired \cup (work[w] \cap alive)
  /\ error' = [t \in Tasks |-> IF t \in work[w] \cap alive THEN togo[t] ELSE error[t]]
  /\ togo' = [t \in Tasks |-> IF t \in work[w] THEN 0 ELSE togo[t]]
  /\ turn' = "advance"
  /\ UNCHANGED <<assistant, w, a, started, alive, task, add>>

Advance ==
  /\ turn = "advance"
  /\ \A t \in Tasks : Filing(t) => add[t].overtaken < MaxDelay
  /\ w' = GetWorkWheelIndex(w + 1)
  /\ turn' = IF w' = 0 THEN "turn" ELSE "tick"
  /\ togo' = [t \in Tasks |->
               IF t \in alive /\ (Referenced(t) \/ Filing(t)) THEN togo[t] - 1
               ELSE togo[t]]
  /\ add' = [t \in Tasks |->
               IF Filing(t) THEN [add[t] EXCEPT !.overtaken = @ + 1]
               ELSE add[t]]
  /\ UNCHANGED <<work, assistant, a, started, alive, task, fired, error>>

AdvanceAssistant ==
  /\ turn = "turn"
  /\ a' = GetAssistantWheelIndex(a + 1)
  /\ turn' = "cascade"
  /\ UNCHANGED <<work, assistant, w, started, alive, task, add, fired, togo, error>>

Cascade ==
  /\ turn = "cascade"
  /\ work' = [i \in DOMAIN work |->
               work[i] \cup {t \in assistant[a] \cap alive : task[t].remainder = i}]
  /\ assistant' = [assistant EXCEPT ![a] = {}]
  /\ turn' = "tick"
  /\ UNCHANGED <<w, a, started, alive, task, add, fired, togo, error>>

(***************************************************************************)
(* The callback, on a routine of TaskManager.  A periodic task adds itself *)
(* again, corrected by its execution time and accumulated error.           *)
(***************************************************************************)
NextFire(interval, execute, err) ==
  IF execute >= interval \/ interval - execute - 1 < err
  THEN 1 ELSE interval - execute - err


Callback(t, execute, err) ==
  /\ t \in fired
  /\ fired' = fired \ {t}
  /\ IF task[t].oneshot \/ t \notin alive
     THEN UNCHANGED <<task, add, togo>>
     ELSE LET d == NextFire(task[t].interval, execute, err) IN
            /\ task' = [task EXCEPT ![t].next = d]
            /\ ReadIndex(t, d, "again")
  /\ error' = [error EXCEPT ![t] = 0]
  /\ UNCHANGED <<work, assistant, w, a, turn, started, alive>>

TickThread == Tick \/ Advance \/ AdvanceAssistant \/ Cascade

Pool(t) == \E e \in 0 .. MaxError, err \in -MaxError .. MaxError : Callback(t, e, err)

Next ==
  \/ TickThread
  \/ \E t \in Tasks : AddTask(t) \/ Stop(t) \/ Pool(t)
  \/ \E t \in Tasks, period \in Periods, oneshot \in BOOLEAN :
       Start(t, period, oneshot)

\* The tick thread, the threads that add and the task routines keep running.
Spec ==
  /\ Init /\ [][Next]_vars
  /\ WF_vars(TickThread)
  /\ \A t \in Tasks : WF_vars(AddTask(t)) /\ WF_vars(Pool(t))

-----------------------------------------------------------------------------

\* Indices stay on their wheels and a task is never due before the next tick.
TypeOK ==
  /\ w \in DOMAIN work /\ a \in DOMAIN assistant
  /\ work \in [0 .. WORK_WHEEL_SIZE - 1 -> SUBSET Tasks]
  /\ assistant \in [0 .. ASSISTANT_WHEEL_SIZE - 1 -> SUBSET Tasks]
  /\ turn \in {"tick", "advance", "turn", "cascade"}
  /\ alive \subseteq started /\ started \subseteq Tasks /\ fired \subseteq Tasks
  /\ \A t \in alive : task[t].next >= 1 /\ task[t].remainder \in DOMAIN work
  /\ \A t \in Tasks : add[t].pc \in {"no", "start", "again"} /\ add[t].from \in DOMAIN work

Places(t) ==
  Cardinality({i \in DOMAIN work : t \in work[i]})
    + Cardinality({i \in DOMAIN assistant : t \in assistant[i]})
    + (IF t \in fired THEN 1 ELSE 0)
    + (IF Filing(t) THEN 1 ELSE 0)

\* A running timer is neither lost nor doubled: its task is in exactly one
\* bucket, or its callback is pending, or it is being filed.  Only a oneshot
\* timer that has been called is nowhere.
InOnePlace ==
  \A t \in alive : Places(t) = 1 \/ (task[t].oneshot /\ Places(t) = 0)

\* A task fires when it is due if the wheel did not turn between the reads of
\* its position in AddTask, nor was turning (the two indices are advanced one
\* after the other); otherwise it may be off by full turns of the work wheel,
\* and at most one turn late.  Delays between one turn and two, which AddTask
\* may file a turn early (see NeverEarly), and delays that an early callback
\* has stretched beyond the assistant wheel are left out.
InReach(d) ==
  \/ d <= WORK_WHEEL_SIZE
  \/ 2 * WORK_WHEEL_SIZE <= d /\ d < TIMER_MAX_INTERVAL_MS



\* timer.h: a oneshot timer performs its callback "only after the first
\* timing cycle": never before the period has passed.
NeverEarly == \A t \in Tasks : task[t].oneshot => error[t] <= 0

\* timer.h: a period may be as long as 512 * 64.
LongestIsAccepted ==
  \A t \in started : task[t].interval \in 1 .. TIMER_MAX_INTERVAL_MS => t \in alive
=============================================================================
