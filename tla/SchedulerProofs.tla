-------------------------- MODULE SchedulerProofs --------------------------
(***************************************************************************)
(* Proofs about the classic scheduler with data-driven routines, for any   *)
(* number of processors, routines, levels and notifying threads.           *)
(*                                                                         *)
(* The properties do not survive a step by themselves: that one processor  *)
(* has a routine rests on lock_, which Erase takes away from a routine     *)
(* that runs, so what keeps a second processor out is that the routine is  *)
(* in no queue by then and in no list a processor still goes through.      *)
(* VisitorInv says all of that.  This module states it, shows that it      *)
(* holds initially and that the steps of tasks and notifiers, and the      *)
(* first steps of a processor's round, preserve it; VisitorProofs has the  *)
(* other steps and the conclusions.                                        *)
(***************************************************************************)
EXTENDS VisitorRoutine, TLAPS

(***************************************************************************)
(* The inductive invariant.                                                *)
(***************************************************************************)
\* c is in the queue it belongs to
Filed(c) == InQueue(c, Priority(c))

\* A routine is in the queue of its own level only, and there once.
QueuesInv ==
  /\ \A l \in Levels : \A k \in DOMAIN rq[l] : Priority(rq[l][k]) = l
  /\ \A l \in Levels : \A j, k \in DOMAIN rq[l] : rq[l][j] = rq[l][k] => j = k

\* The id table while an operation on the id is under way.
OpsInv ==
  \A i \in Ids :
    /\ id_cr[i] # Nobody => Id[id_cr[i]] = i
    /\ op[i].pc = "idle" => op[i].cr = Nobody
    /\ op[i].pc \in {"enqueue", "notify"} => op[i].cr # Nobody /\ id_cr[i] = op[i].cr
    /\ op[i].pc = "erase" =>
         op[i].cr # Nobody /\ id_cr[i] = Nobody /\ Id[op[i].cr] = i

\* What the queues hold then.
Enlisted(c) ==
  \/ id_cr[Id[c]] = c /\ op[Id[c]].pc # "enqueue"
  \/ op[Id[c]].pc = "erase" /\ op[Id[c]].cr = c

\* A routine is queued exactly while its id stands for it.
FiledInv == \A c \in Routines : Filed(c) <=> Enlisted(c)

\* A routine that is not queued yet is as the constructor left it, and no
\* processor has it.
Fresh(c) ==
  \/ born[c] \in {"no", "creating"}
  \/ op[Id[c]].pc = "enqueue" /\ op[Id[c]].cr = c

\* such a routine has no lock, no processor and no place in a queue
FreshInv ==
  \A c \in Routines : Fresh(c) =>
    /\ cr[c].state = "READY" /\ ~cr[c].lock
    /\ \A p \in Processors : ~Holds(p, c)
    /\ ~Filed(c)
    /\ born[c] \in {"no", "creating"} => id_cr[Id[c]] # c

\* What a processor has read of a level is still there, and the lock of a
\* queued routine says whether a processor has it.
LocksInv ==
  /\ \A p \in Processors : proc[p].pc \in {"scan", "check"} =>
       \A k \in DOMAIN proc[p].todo : InQueue(proc[p].todo[k], proc[p].level)
  /\ \A p \in Processors :
       proc[p].pc \in {"check", "resume", "body", "release"} => proc[p].cr # Nobody
  /\ \A c \in Routines : Filed(c) =>
       (cr[c].lock <=> \E p \in Processors : Holds(p, c))
  /\ OneHolder

\* p is awake or will look at c, or has seen it asleep, before it waits.
Watches(p, c) ==
  \/ proc[p].pc \in {"top", "resume", "body", "release", "napping", "exit"}
  \/ /\ proc[p].pc \in {"scan", "check"}
     /\ \/ proc[p].need_sleep \/ proc[p].level > Priority(c) \/ Holds(p, c)
        \/ \E k \in DOMAIN proc[p].todo : proc[p].todo[k] = c
  \/ proc[p].pc = "wait" /\ (proc[p].need_sleep \/ p \in ctx_stop)

\* every sleeping routine is watched
WatchInv ==
  \A c \in Routines :
    Filed(c) /\ cr[c].state = "SLEEP" => \E p \in Processors : Watches(p, c)

\* all of it, with WaitingHasNoData of VisitorRoutine
VisitorInv ==
  /\ TypeOK /\ QueuesInv /\ OpsInv /\ FiledInv /\ FreshInv /\ LocksInv
  /\ WatchInv /\ WaitingHasNoData

\* Priority clamps every routine to a level of the run queues.
LEMMA Levelled ==
  ASSUME NEW c \in Routines
  PROVE  Priority(c) \in Levels
  BY VisitorAssumption DEF Priority, Levels, SchedulerAssumption

\* The invariant holds of the state the constructors leave.
LEMMA InitialInv == VisitorInit => VisitorInv
<1> SUFFICES ASSUME VisitorInit PROVE VisitorInv
  OBVIOUS
<1> USE DEF VisitorInit, Init, DataInit
<1>1. TypeOK
  <2>1. 0 \in Levels /\ << >> \in Seq(Routines) /\ 0 \in 0 .. BufferSize + 1
    BY VisitorAssumption DEF Levels, SchedulerAssumption
  <2>2. Idle \in [pc : {"idle"}, cr : {Nobody}]
    BY Zenon DEF Idle
  <2>3. proc \in [Processors -> Places]
    BY Zenon, <2>1 DEF Places
  <2>4. /\ cr \in [Routines -> CRoutine] /\ op \in [Ids -> Operation]
        /\ main \in MainPlaces
    BY Zenon, <2>1 DEF States, CRoutine, Operation, MainPlaces, Idle
  <2>5. /\ id_cr \in [Ids -> Routines \cup {Nobody}]
        /\ rq \in [Levels -> Seq(Routines)]
        /\ born \in [Routines -> {"no", "creating", "refused", "registered", "created"}]
        /\ ntf \in [Notifiers -> [pc : {"idle", "flag", "wake"},
                                  cr : Routines \cup {Nobody}]]
    BY Zenon, <2>1, <2>2
  <2>6. SchedTypeOK
    BY Zenon, <2>1, <2>3, <2>4, <2>5 DEF SchedTypeOK
  <2> QED
    BY Zenon, <2>1, <2>6 DEF TypeOK
<1>2. \A c \in Routines : ~Filed(c)
  BY Levelled DEF Filed, InQueue
<1>3. \A p \in Processors : \A c \in Routines : ~Holds(p, c)
  BY Zenon DEF Holds
<1>4. QueuesInv
  BY DEF QueuesInv
<1>5. OpsInv /\ FiledInv
  BY Zenon, <1>2, VisitorAssumption
     DEF OpsInv, FiledInv, Enlisted, Idle, Ids, SchedulerAssumption
<1>6. FreshInv
  BY Zenon, <1>2, <1>3, VisitorAssumption DEF FreshInv, Fresh, Idle, Ids, SchedulerAssumption
<1>7. LocksInv
  BY Zenon, <1>2, <1>3 DEF LocksInv, OneHolder
<1>8. WatchInv /\ WaitingHasNoData
  BY Zenon, <1>2 DEF WatchInv, WaitingHasNoData
<1> QED
  BY Zenon, <1>1, <1>4, <1>5, <1>6, <1>7, <1>8 DEF VisitorInv

\* Processors that wait may have been woken, and nothing else has happened to
\* a processor.
Woken ==
  /\ proc' = [p \in Processors |-> proc'[p]]
  /\ \A p \in Processors :
       \/ proc'[p] = proc[p]
       \/ proc[p].pc \in {"asleep", "napping"} /\ proc'[p] = Awake(p)

\* notify_one and notify_all wake processors that wait.
LEMMA Notifying ==
  ASSUME TypeOK, NotifyOne \/ proc' = NotifyAll
  PROVE  Woken
  BY DEF NotifyOne, NotifyAll, Woken, Waiting, TypeOK, SchedTypeOK

\* Waking processors gives no routine to a processor and takes none from one.
LEMMA Waking ==
  ASSUME VisitorInv, Woken, UNCHANGED <<cr, rq>>, ctx_stop \subseteq ctx_stop'
  PROVE  /\ proc' \in [Processors -> Places]
         /\ \A p \in Processors, c \in Routines : Holds(p, c)' <=> Holds(p, c)
         /\ LocksInv' /\ WatchInv'
<1>1. /\ proc \in [Processors -> Places]
      /\ DOMAIN cr = Routines /\ LocksInv /\ WatchInv
  BY Zenon DEF VisitorInv, TypeOK, SchedTypeOK
<1>2. proc' \in [Processors -> Places]
  <2>1. \A p \in Processors : Awake(p) \in Places
    BY Zenon, <1>1 DEF Awake, Places
  <2> QED
    BY <1>1, <2>1 DEF Woken
<1>3. \A p \in Processors :
        \/ proc'[p] = proc[p]
        \/ proc[p].pc \in {"asleep", "napping"} /\ proc'[p].pc = "top"
  BY Zenon, <1>1 DEF Woken, Awake, Places
<1>4. \A p \in Processors, c \in Routines : Holds(p, c)' <=> Holds(p, c)
  BY <1>3 DEF Holds
<1>5. LocksInv'
  <2>1. \A p \in Processors : proc'[p].pc \in {"scan", "check"} =>
          \A k \in DOMAIN proc'[p].todo : InQueue(proc[p].todo[k], proc[p].level)'
    BY <1>1, <1>3 DEF LocksInv, InQueue
  <2>2. \A p \in Processors :
          proc'[p].pc \in {"check", "resume", "body", "release"} => proc'[p].cr # Nobody
    BY <1>1, <1>3 DEF LocksInv
  <2>3. \A c \in Routines : Filed(c)' =>
          (cr'[c].lock <=> \E p \in Processors : Holds(p, c)')
    BY Zenon, <1>1, <1>4 DEF LocksInv, Filed, InQueue
  <2>4. OneHolder'
    BY Zenon, <1>1, <1>2, <1>4 DEF LocksInv, OneHolder
  <2> QED
    BY Zenon, <2>1, <2>2, <2>3, <2>4 DEF LocksInv
<1>6. WatchInv'
  <2> SUFFICES ASSUME NEW c \in Routines, Filed(c)', cr'[c].state = "SLEEP"
               PROVE  \E p \in Processors : Watches(p, c)'
    BY DEF WatchInv
  <2>1. PICK p \in Processors : Watches(p, c)
    BY Zenon, <1>1 DEF WatchInv, Filed, InQueue
  <2>2. Watches(p, c)'
    BY Zenon, <2>1, <1>3 DEF Watches, Holds
  <2> QED
    BY <2>2
<1> QED
  BY <1>2, <1>4, <1>5, <1>6

\* DispatchTask registers a routine that no processor has and no queue holds.
LEMMA Registering ==
  ASSUME VisitorInv, NEW c \in Routines, Register(c), UNCHANGED dataVars
  PROVE  VisitorInv'
<1>1. /\ TypeOK /\ SchedTypeOK /\ QueuesInv /\ OpsInv /\ FiledInv /\ FreshInv
      /\ LocksInv /\ WatchInv /\ WaitingHasNoData /\ Id[c] \in Ids /\ c # Nobody
  BY Zenon, VisitorAssumption DEF VisitorInv, TypeOK, Ids, SchedulerAssumption
<1>2. /\ UNCHANGED <<cr, due, rq, proc, ntf, stop, ctx_stop, running, main>>
      /\ UNCHANGED <<unread, begun, hooked, stage, missed, sender>>
      /\ born[c] = "creating" /\ op[Id[c]].pc = "idle" /\ op[Id[c]].cr = Nobody
  BY DEF Register, dataVars, Idle
<1>3. QueuesInv' /\ LocksInv' /\ WatchInv'
  BY <1>1, <1>2
     DEF QueuesInv, LocksInv, WatchInv, InQueue, Filed, Watches, Holds, OneHolder
<1>4. \A d \in Routines : Id[d] \in Ids /\ (Filed(d)' <=> Filed(d))
  BY Zenon, <1>2 DEF Filed, InQueue, Ids
<1>5. CASE id_cr[Id[c]] # Nobody
  <2>1. UNCHANGED <<id_cr, op>> /\ born' = [born EXCEPT ![c] = "refused"]
    BY Zenon, <1>5 DEF Register
  <2>2. TypeOK'
    BY Zenon, <1>1, <1>2, <2>1 DEF TypeOK, SchedTypeOK
  <2>3. \A d \in Routines : Fresh(d)' => Fresh(d) /\ (born'[d] = born[d])
    BY Zenon, <1>1, <1>2, <2>1 DEF Fresh, SchedTypeOK
  <2>4. FreshInv'
    BY Zenon, <1>1, <1>2, <1>4, <2>1, <2>3 DEF FreshInv, Holds
  <2>5. OpsInv' /\ FiledInv' /\ WaitingHasNoData'
    BY <1>1, <1>2, <1>4, <2>1 DEF OpsInv, FiledInv, Enlisted, WaitingHasNoData
  <2> QED
    BY <1>3, <2>2, <2>4, <2>5 DEF VisitorInv
<1>6. CASE id_cr[Id[c]] = Nobody
  <2>1. /\ id_cr' = [id_cr EXCEPT ![Id[c]] = c]
        /\ op' = [op EXCEPT ![Id[c]] = [pc |-> "enqueue", cr |-> c]]
        /\ born' = [born EXCEPT ![c] = "registered"]
    BY Zenon, <1>6 DEF Register
  <2>2. TypeOK'
    <3>1. id_cr' \in [Ids -> Routines \cup {Nobody}]
      BY Zenon, <1>1, <2>1 DEF SchedTypeOK
    <3>2. op' \in [Ids -> Operation]
      BY Zenon, <1>1, <2>1 DEF SchedTypeOK, Operation
    <3> QED
      BY Zenon, <1>1, <1>2, <2>1, <3>1, <3>2 DEF TypeOK, SchedTypeOK
  <2>3. /\ \A i \in Ids : i # Id[c] => id_cr'[i] = id_cr[i] /\ op'[i] = op[i]
        /\ \A d \in Routines : d # c => born'[d] = born[d]
        /\ id_cr'[Id[c]] = c /\ op'[Id[c]].pc = "enqueue" /\ op'[Id[c]].cr = c
        /\ born'[c] = "registered"
    BY Zenon, <1>1, <2>1 DEF SchedTypeOK
  <2>4. /\ cr[c].state = "READY" /\ ~cr[c].lock /\ ~Filed(c)
        /\ \A p \in Processors : ~Holds(p, c)
    BY Zenon, <1>1, <1>2 DEF FreshInv, Fresh
  <2>5. OpsInv'
    BY <1>1, <2>3 DEF OpsInv
  <2>6. FiledInv'
    BY <1>1, <1>2, <1>4, <1>6, <2>3, VisitorAssumption
       DEF FiledInv, Enlisted, SchedulerAssumption
  <2>7. \A d \in Routines : Fresh(d)' => d = c \/ (Fresh(d) /\ born'[d] = born[d])
    BY Zenon, <1>4, <2>3 DEF Fresh
  <2>8. FreshInv'
    BY <1>1, <1>2, <1>4, <2>3, <2>4, <2>7 DEF FreshInv, Holds
  <2>9. WaitingHasNoData'
    BY <1>1, <1>2, <1>4, <2>3, <2>4 DEF WaitingHasNoData, SchedTypeOK
  <2> QED
    BY <1>3, <2>2, <2>5, <2>6, <2>8, <2>9 DEF VisitorInv
<1> QED
  BY <1>5, <1>6

\* The parts of the invariant, and the facts about ids and levels that every
\* step needs.
LEMMA Facts ==
  ASSUME VisitorInv
  PROVE  /\ TypeOK /\ SchedTypeOK /\ QueuesInv /\ OpsInv /\ FiledInv /\ FreshInv
         /\ LocksInv /\ WatchInv /\ WaitingHasNoData
         /\ Nobody \notin Routines
         /\ \A c \in Routines : Id[c] \in Ids /\ Priority(c) \in Levels
  BY Zenon, VisitorAssumption, Levelled DEF VisitorInv, TypeOK, Ids, SchedulerAssumption

\* c is registered, has data and waits for it.
Hungry(c) ==
  /\ id_cr[Id[c]] = c
  /\ cr[c].state = "DATA_WAIT" /\ stage[c] = "top"
  /\ unread[c] > 0 /\ c \notin missed

\* A step that leaves the notifiers alone and makes no routine wait with data
\* forgets none.
LEMMA StillNoData ==
  ASSUME SchedTypeOK, WaitingHasNoData, cr' \in [Routines -> CRoutine],
         \A c \in Routines :
           Hungry(c)' => Hungry(c) /\ (cr[c].updated => cr'[c].updated),
         stop => stop', UNCHANGED <<ntf, sender>>
  PROVE  WaitingHasNoData'
<1> SUFFICES ASSUME NEW c \in Routines, Hungry(c)', ~stop'
             PROVE  \/ cr'[c].updated
                    \/ \E n \in DOMAIN ntf :
                         \/ sender[n] = c
                         \/ ntf[n].pc = "flag" /\ ntf[n].cr = c
  BY DEF WaitingHasNoData, Hungry
<1> QED
  BY DEF WaitingHasNoData, SchedTypeOK, Hungry

\* CreateTask puts the new routine where no processor has been.
LEMMA Creating ==
  ASSUME VisitorInv, NEW c \in Routines, CreateTask(c), UNCHANGED dataVars
  PROVE  VisitorInv'
<1>1. /\ TypeOK /\ SchedTypeOK /\ QueuesInv /\ OpsInv /\ FiledInv /\ FreshInv
      /\ LocksInv /\ WatchInv /\ WaitingHasNoData
  BY Facts
<1>2. /\ UNCHANGED <<cr, due, id_cr, rq, op, proc, ntf, stop, ctx_stop, running, main>>
      /\ UNCHANGED <<unread, begun, hooked, stage, missed, sender>>
      /\ born[c] = "no" /\ born' = [born EXCEPT ![c] = "creating"]
  BY DEF CreateTask, dataVars
<1>3. QueuesInv' /\ LocksInv' /\ WatchInv' /\ WaitingHasNoData'
  BY <1>1, <1>2
     DEF QueuesInv, LocksInv, WatchInv, InQueue, Filed, Watches, Holds, OneHolder,
         WaitingHasNoData
<1>4. TypeOK'
  BY Zenon, <1>1, <1>2 DEF TypeOK, SchedTypeOK
<1>5. OpsInv' /\ FiledInv'
  BY <1>1, <1>2 DEF OpsInv, FiledInv, Enlisted, Filed, InQueue
<1>6. \A d \in Routines :
        /\ Fresh(d)' <=> Fresh(d)
        /\ born'[d] \in {"no", "creating"} <=> born[d] \in {"no", "creating"}
  BY Zenon, <1>1, <1>2 DEF Fresh, SchedTypeOK
<1>7. FreshInv'
  BY <1>1, <1>2, <1>6 DEF FreshInv, Holds, Filed, InQueue
<1> QED
  BY <1>3, <1>4, <1>5, <1>7 DEF VisitorInv

\* DispatchTask queues the registered routine at a level nobody looks through.
LEMMA Enqueueing ==
  ASSUME VisitorInv, NEW i \in Ids, Enqueue(i), UNCHANGED dataVars
  PROVE  VisitorInv'
<1>1. /\ TypeOK /\ SchedTypeOK /\ QueuesInv /\ OpsInv /\ FiledInv /\ FreshInv
      /\ LocksInv /\ WatchInv /\ WaitingHasNoData
      /\ Nobody \notin Routines
      /\ \A d \in Routines : Id[d] \in Ids /\ Priority(d) \in Levels
  BY Facts
<1>2. /\ UNCHANGED <<cr, due, id_cr, born, proc, ntf, stop, ctx_stop, running, main>>
      /\ UNCHANGED <<unread, begun, hooked, stage, missed, sender>>
      /\ op[i].pc = "enqueue" /\ op' = [op EXCEPT ![i].pc = "notify"]
  BY Zenon DEF Enqueue, dataVars
<1>a. PICK c \in Routines : c = op[i].cr
  <2>1. op[i].cr # Nobody /\ op[i].cr \in Routines \cup {Nobody}
    BY Zenon, <1>1, <1>2 DEF OpsInv, SchedTypeOK, Operation
  <2> QED
    BY <2>1
<1>b. PICK l \in Levels : l = Priority(c)
  BY <1>1
<1>3. /\ Id[c] = i /\ id_cr[i] = c
      /\ Unread(l) /\ rq' = [rq EXCEPT ![l] = Append(@, c)]
  BY Zenon, <1>1, <1>2, <1>a, <1>b DEF OpsInv, SchedTypeOK, Enqueue
<1>4. /\ cr[c].state = "READY" /\ ~cr[c].lock /\ ~Filed(c)
      /\ born[c] \notin {"no", "creating"}
      /\ \A p \in Processors : ~Holds(p, c)
  BY Zenon, <1>1, <1>2, <1>a, <1>3 DEF FreshInv, Fresh
<1>5. /\ \A j \in Ids : j # i => op'[j] = op[j]
      /\ op'[i].pc = "notify" /\ op'[i].cr = c
      /\ op' \in [Ids -> Operation]
  <2>1. /\ \A j \in Ids : j # i => op'[j] = op[j]
        /\ op'[i] = [op[i] EXCEPT !.pc = "notify"] /\ op[i] \in Operation
    BY Zenon, <1>1, <1>2 DEF SchedTypeOK
  <2>2. op'[i].pc = "notify" /\ op'[i].cr = c /\ op'[i] \in Operation
    BY <1>a, <2>1 DEF Operation
  <2> QED
    BY Zenon, <1>1, <1>2, <2>1, <2>2 DEF SchedTypeOK
<1>6. /\ rq' \in [Levels -> Seq(Routines)]
      /\ \A m \in Levels : m # l => rq'[m] = rq[m]
      /\ Len(rq'[l]) = Len(rq[l]) + 1 /\ rq'[l][Len(rq[l]) + 1] = c
      /\ \A k \in 1 .. Len(rq[l]) : rq'[l][k] = rq[l][k]
      /\ rq[l] \in Seq(Routines) /\ Len(rq[l]) \in Nat
  BY <1>1, <1>2, <1>3 DEF SchedTypeOK
<1>7. \A d \in Routines, m \in Levels :
        InQueue(d, m)' <=> InQueue(d, m) \/ (d = c /\ m = l)
  <2> SUFFICES ASSUME NEW d \in Routines, NEW m \in Levels
               PROVE  InQueue(d, m)' <=> InQueue(d, m) \/ (d = c /\ m = l)
    OBVIOUS
  <2>1. CASE m # l
    BY Zenon, <1>6, <2>1 DEF InQueue
  <2>2. CASE m = l
    <3>1. DOMAIN rq[l] = 1 .. Len(rq[l]) /\ DOMAIN rq'[l] = 1 .. Len(rq[l]) + 1
      BY <1>6
    <3>2. ASSUME NEW k \in 1 .. Len(rq[l]) + 1, rq'[l][k] = d
          PROVE  InQueue(d, l) \/ d = c
      <4>1. k \in 1 .. Len(rq[l]) \/ k = Len(rq[l]) + 1
        BY <1>6
      <4> QED
        BY Zenon, <1>6, <3>1, <3>2, <4>1 DEF InQueue
    <3>3. ASSUME NEW k \in 1 .. Len(rq[l]), rq[l][k] = d
          PROVE  InQueue(d, l)'
      <4>1. k \in 1 .. Len(rq[l]) + 1 /\ rq'[l][k] = d
        BY <1>6, <3>3
      <4> QED
        BY <3>1, <4>1 DEF InQueue
    <3>4. InQueue(c, l)'
      <4>1. Len(rq[l]) + 1 \in 1 .. Len(rq[l]) + 1
        BY <1>6
      <4> QED
        BY Zenon, <1>6, <3>1, <4>1 DEF InQueue
    <3> QED
      BY Zenon, <2>2, <3>1, <3>2, <3>3, <3>4 DEF InQueue
  <2> QED
    BY <2>1, <2>2
<1>8. \A d \in Routines : Filed(d)' <=> Filed(d) \/ d = c
  BY <1>1, <1>b, <1>7 DEF Filed
<1>9. TypeOK'
  BY Zenon, <1>1, <1>2, <1>5, <1>6 DEF TypeOK, SchedTypeOK
<1>10. QueuesInv'
  <2>1. DOMAIN rq[l] = 1 .. Len(rq[l]) /\ DOMAIN rq'[l] = 1 .. Len(rq[l]) + 1
    BY <1>3, <1>6
  <2>2. \A k \in 1 .. Len(rq[l]) : rq[l][k] # c
    BY Zenon, <1>b, <1>4, <2>1 DEF Filed, InQueue
  <2>3. \A m \in Levels : \A k \in DOMAIN rq'[m] : Priority(rq'[m][k]) = m
    <3> SUFFICES ASSUME NEW m \in Levels, NEW k \in DOMAIN rq'[m]
                 PROVE  Priority(rq'[m][k]) = m
      OBVIOUS
    <3>1. CASE m # l
      BY Zenon, <1>1, <1>6, <3>1 DEF QueuesInv
    <3>2. CASE m = l /\ k = Len(rq[l]) + 1
      BY Zenon, <1>b, <1>6, <3>2
    <3>3. CASE m = l /\ k \in 1 .. Len(rq[l])
      BY <1>1, <1>3, <1>6, <2>1, <3>3 DEF QueuesInv
    <3> QED
      BY <1>6, <2>1, <3>1, <3>2, <3>3
  <2>4. \A m \in Levels : \A j, k \in DOMAIN rq'[m] : rq'[m][j] = rq'[m][k] => j = k
    <3> SUFFICES ASSUME NEW m \in Levels, NEW j \in DOMAIN rq'[m],
                        NEW k \in DOMAIN rq'[m], rq'[m][j] = rq'[m][k]
                 PROVE  j = k
      OBVIOUS
    <3>1. CASE m # l
      BY Zenon, <1>1, <1>6, <3>1 DEF QueuesInv
    <3>2. CASE m = l /\ j \in 1 .. Len(rq[l]) /\ k \in 1 .. Len(rq[l])
      BY <1>1, <1>3, <1>6, <2>1, <3>2 DEF QueuesInv
    <3>3. CASE m = l /\ j = Len(rq[l]) + 1 /\ k \in 1 .. Len(rq[l])
      BY Zenon, <1>6, <2>2, <3>3
    <3>4. CASE m = l /\ k = Len(rq[l]) + 1 /\ j \in 1 .. Len(rq[l])
      BY Zenon, <1>6, <2>2, <3>4
    <3>5. CASE m = l
      <4>1. /\ j \in 1 .. Len(rq[l]) \/ j = Len(rq[l]) + 1
            /\ k \in 1 .. Len(rq[l]) \/ k = Len(rq[l]) + 1
        BY <1>6, <2>1, <3>5
      <4> QED
        BY Zenon, <3>2, <3>3, <3>4, <3>5, <4>1
    <3> QED
      BY <3>1, <3>5
  <2> QED
    BY <2>3, <2>4 DEF QueuesInv
<1>11. OpsInv'
  BY <1>1, <1>2, <1>3, <1>5 DEF OpsInv
<1>12. FiledInv'
  BY <1>1, <1>2, <1>3, <1>5, <1>8 DEF FiledInv, Enlisted
<1>13. FreshInv'
  <2>1. \A d \in Routines : Fresh(d)' => d # c /\ Fresh(d)
    BY Zenon, <1>1, <1>2, <1>3, <1>4, <1>5 DEF Fresh
  <2> QED
    BY Zenon, <1>1, <1>2, <1>8, <2>1 DEF FreshInv, Holds
<1>14. LocksInv'
  <2>1. \A p \in Processors : proc'[p].pc \in {"scan", "check"} =>
          \A k \in DOMAIN proc'[p].todo : InQueue(proc[p].todo[k], proc[p].level)'
    BY <1>1, <1>2, <1>7 DEF LocksInv, SchedTypeOK, Places
  <2>2. \A d \in Routines : Filed(d)' =>
          (cr'[d].lock <=> \E p \in Processors : Holds(p, d)')
    BY <1>1, <1>2, <1>4, <1>8 DEF LocksInv, Holds
  <2> QED
    BY Zenon, <1>1, <1>2, <2>1, <2>2 DEF LocksInv, OneHolder, Holds
<1>15. WatchInv' /\ WaitingHasNoData'
  BY <1>1, <1>2, <1>4, <1>8 DEF WatchInv, WaitingHasNoData, Watches, Holds
<1> QED
  BY <1>9, <1>10, <1>11, <1>12, <1>13, <1>14, <1>15 DEF VisitorInv

\* The end of DispatchTask.
LEMMA Created ==
  ASSUME VisitorInv, NEW i \in Ids, NotifyCreated(i), UNCHANGED dataVars
  PROVE  VisitorInv'
<1> DEFINE c == op[i].cr
<1>1. /\ TypeOK /\ SchedTypeOK /\ QueuesInv /\ OpsInv /\ FiledInv /\ FreshInv
      /\ WaitingHasNoData
      /\ Nobody \notin Routines /\ \A d \in Routines : Id[d] \in Ids
  BY Facts
<1>2. /\ UNCHANGED <<cr, due, id_cr, rq, ntf, stop, ctx_stop, running, main>>
      /\ UNCHANGED <<unread, begun, hooked, stage, missed, sender>>
      /\ op[i].pc = "notify" /\ op' = [op EXCEPT ![i] = Idle]
      /\ born' = [born EXCEPT ![c] = "created"]
  BY DEF NotifyCreated, dataVars
<1>3. /\ proc' \in [Processors -> Places]
      /\ \A p \in Processors, d \in Routines : Holds(p, d)' <=> Holds(p, d)
      /\ LocksInv' /\ WatchInv'
  BY Zenon, <1>1, <1>2, Notifying, Waking DEF NotifyCreated
<1>4. c \in Routines /\ Id[c] = i /\ id_cr[i] = c
  BY <1>1, <1>2 DEF OpsInv, SchedTypeOK
<1>5. /\ \A j \in Ids : j # i => op'[j] = op[j]
      /\ op'[i].pc = "idle" /\ op'[i].cr = Nobody
      /\ op' \in [Ids -> Operation]
      /\ \A d \in Routines : d # c => born'[d] = born[d]
      /\ born'[c] = "created"
  BY Zenon, <1>1, <1>2, <1>4 DEF SchedTypeOK, Idle, Operation
<1>6. TypeOK'
  BY Zenon, <1>1, <1>2, <1>3, <1>5 DEF TypeOK, SchedTypeOK
<1>7. QueuesInv' /\ WaitingHasNoData'
  BY <1>1, <1>2 DEF QueuesInv, WaitingHasNoData
<1>8. \A d \in Routines : Filed(d)' <=> Filed(d)
  BY Zenon, <1>2 DEF Filed, InQueue
<1>9. OpsInv' /\ FiledInv'
  BY <1>1, <1>2, <1>4, <1>5, <1>8 DEF OpsInv, FiledInv, Enlisted
<1>10. FreshInv'
  <2>1. \A d \in Routines : Fresh(d)' => Fresh(d) /\ born'[d] = born[d]
    BY Zenon, <1>1, <1>4, <1>5 DEF Fresh
  <2> QED
    BY Zenon, <1>1, <1>2, <1>3, <1>8, <2>1 DEF FreshInv
<1> QED
  BY <1>3, <1>6, <1>7, <1>9, <1>10 DEF VisitorInv

\* RemoveCRoutine, the first half: the routine leaves the id table and is
\* told to stop.
LEMMA Unregistering ==
  ASSUME VisitorInv, NEW i \in Ids, op[i] = Idle, id_cr[i] # Nobody,
         cr' = [cr EXCEPT ![id_cr[i]].force_stop = TRUE],
         id_cr' = [id_cr EXCEPT ![i] = Nobody],
         op' = [op EXCEPT ![i] = [pc |-> "erase", cr |-> id_cr[i]]],
         UNCHANGED <<due, born, rq, proc, ntf, stop, ctx_stop, running>>,
         main' \in MainPlaces,
         UNCHANGED dataVars
  PROVE  VisitorInv'
<1>1. /\ TypeOK /\ SchedTypeOK /\ QueuesInv /\ OpsInv /\ FiledInv /\ FreshInv
      /\ LocksInv /\ WatchInv /\ WaitingHasNoData
      /\ Nobody \notin Routines /\ \A d \in Routines : Id[d] \in Ids
  BY Zenon, Facts
<1>2. UNCHANGED <<unread, begun, hooked, stage, missed, sender>> /\ op[i].pc = "idle"
  BY DEF dataVars, Idle
<1>3. PICK c \in Routines : c = id_cr[i] /\ Id[c] = i
  BY Zenon, <1>1 DEF OpsInv, SchedTypeOK
<1>4. /\ \A j \in Ids : j # i => op'[j] = op[j] /\ id_cr'[j] = id_cr[j]
      /\ op'[i].pc = "erase" /\ op'[i].cr = c /\ id_cr'[i] = Nobody
      /\ op' \in [Ids -> Operation]
      /\ id_cr' \in [Ids -> Routines \cup {Nobody}]
  BY Zenon, <1>1, <1>3 DEF SchedTypeOK, Operation
<1>5. /\ \A d \in Routines : /\ cr'[d].state = cr[d].state
                             /\ cr'[d].lock = cr[d].lock
                             /\ cr'[d].updated = cr[d].updated
      /\ cr' \in [Routines -> CRoutine]
  <2>1. /\ \A d \in Routines : d # c => cr'[d] = cr[d]
        /\ cr'[c] = [cr[c] EXCEPT !.force_stop = TRUE] /\ cr[c] \in CRoutine
    BY Zenon, <1>1, <1>3 DEF SchedTypeOK
  <2>2. \A r \in CRoutine : LET n == [r EXCEPT !.force_stop = TRUE] IN
          /\ n \in CRoutine /\ n.state = r.state
          /\ n.lock = r.lock /\ n.updated = r.updated
    BY Zenon DEF CRoutine
  <2> QED
    BY <1>1, <2>1, <2>2 DEF SchedTypeOK
<1>6. TypeOK'
  BY Zenon, <1>1, <1>2, <1>4, <1>5 DEF TypeOK, SchedTypeOK
<1>7. QueuesInv'
  BY Zenon, <1>1 DEF QueuesInv
<1>8. \A d \in Routines : Filed(d)' <=> Filed(d)
  BY Zenon DEF Filed, InQueue
<1>9. OpsInv' /\ FiledInv'
  BY <1>1, <1>2, <1>3, <1>4, <1>8 DEF OpsInv, FiledInv, Enlisted
<1>10. FreshInv'
  <2>1. \A d \in Routines : Fresh(d)' => Fresh(d)
    BY Zenon, <1>1, <1>4 DEF Fresh
  <2> QED
    BY <1>1, <1>4, <1>5, <1>8, <2>1 DEF FreshInv, Holds
<1>11. LocksInv' /\ WatchInv'
  <2>1. OneHolder'
    BY <1>1, <1>5 DEF LocksInv, OneHolder, Holds, SchedTypeOK
  <2> QED
    BY <1>1, <1>5, <1>8, <2>1 DEF LocksInv, WatchInv, InQueue, Watches, Holds
<1>12. WaitingHasNoData'
  BY <1>1, <1>2, <1>4, <1>5 DEF WaitingHasNoData, SchedTypeOK
<1> QED
  BY Zenon, <1>6, <1>7, <1>9, <1>10, <1>11, <1>12 DEF VisitorInv

\* RemoveCRoutine, the second half: the first routine of the level with the
\* id is the routine that was unregistered, and no other leaves the queue.
LEMMA Erasing ==
  ASSUME VisitorInv, NEW i \in Ids, Erase(i), UNCHANGED dataVars
  PROVE  VisitorInv'
<1>1. /\ TypeOK /\ SchedTypeOK /\ QueuesInv /\ OpsInv /\ FiledInv /\ FreshInv
      /\ LocksInv /\ WatchInv /\ WaitingHasNoData
      /\ Nobody \notin Routines
      /\ \A d \in Routines : Id[d] \in Ids /\ Priority(d) \in Levels
  BY Facts
<1>2. /\ UNCHANGED <<due, id_cr, born, proc, ntf, stop, ctx_stop, running, main>>
      /\ UNCHANGED <<unread, begun, hooked, stage, missed, sender>>
      /\ op[i].pc = "erase" /\ op' = [op EXCEPT ![i] = Idle]
  BY Zenon DEF Erase, dataVars
<1>a. PICK c \in Routines : c = op[i].cr
  <2>1. op[i].cr # Nobody /\ op[i].cr \in Routines \cup {Nobody}
    BY Zenon, <1>1, <1>2 DEF OpsInv, SchedTypeOK, Operation
  <2> QED
    BY <2>1
<1>b. PICK l \in Levels : l = Priority(c)
  BY <1>1
<1>3. /\ Id[c] = i /\ id_cr[i] = Nobody
      /\ Unread(l) /\ EraseFirst(i, l)
  BY Zenon, <1>1, <1>2, <1>a, <1>b DEF OpsInv, Erase
<1>4. /\ \A j \in Ids : j # i => op'[j] = op[j]
      /\ op'[i].pc = "idle" /\ op'[i].cr = Nobody
      /\ op' \in [Ids -> Operation]
  BY Zenon, <1>1, <1>2 DEF SchedTypeOK, Idle, Operation
<1>5. PICK at \in DOMAIN rq[l] : rq[l][at] = c
  BY <1>1, <1>2, <1>a, <1>b, <1>3 DEF FiledInv, Enlisted, Filed, InQueue
<1>6. rq[l] \in Seq(Routines) /\ at \in 1 .. Len(rq[l]) /\ Len(rq[l]) \in Nat
  BY <1>1, <1>5 DEF SchedTypeOK
<1>7. ASSUME NEW k \in DOMAIN rq[l], Id[rq[l][k]] = i
      PROVE  k = at
  <2>1. rq[l][k] \in Routines /\ Priority(rq[l][k]) = l
    BY <1>1, <1>6 DEF QueuesInv
  <2>2. Enlisted(rq[l][k])
    BY Zenon, <1>1, <2>1 DEF FiledInv, Filed, InQueue
  <2>3. rq[l][k] = c
    BY Zenon, <1>1, <1>a, <1>3, <1>7, <2>1, <2>2 DEF Enlisted
  <2> QED
    BY Zenon, <1>1, <1>5, <2>3 DEF QueuesInv
<1>8. /\ rq' = [rq EXCEPT ![l] = Without(rq[l], at)]
      /\ cr' = [cr EXCEPT ![c].force_stop = TRUE, ![c].lock = FALSE]
  BY Zenon, <1>3, <1>5, <1>7 DEF EraseFirst
<1>9. /\ rq' \in [Levels -> Seq(Routines)]
      /\ \A m \in Levels : m # l => rq'[m] = rq[m]
      /\ Len(rq'[l]) = Len(rq[l]) - 1
      /\ \A k \in 1 .. Len(rq[l]) - 1 :
           rq'[l][k] = IF k < at THEN rq[l][k] ELSE rq[l][k + 1]
  <2>1. /\ Without(rq[l], at) \in Seq(Routines)
        /\ Len(Without(rq[l], at)) = Len(rq[l]) - 1
        /\ \A k \in 1 .. Len(rq[l]) - 1 :
             Without(rq[l], at)[k] = IF k < at THEN rq[l][k] ELSE rq[l][k + 1]
    BY <1>6 DEF Without
  <2> QED
    BY Zenon, <1>1, <1>8, <2>1 DEF SchedTypeOK
<1>10. /\ \A d \in Routines : /\ cr'[d].state = cr[d].state
                              /\ cr'[d].updated = cr[d].updated
                              /\ d # c => cr'[d].lock = cr[d].lock
       /\ cr' \in [Routines -> CRoutine]
  <2>1. /\ \A d \in Routines : d # c => cr'[d] = cr[d]
        /\ cr'[c] = [cr[c] EXCEPT !.force_stop = TRUE, !.lock = FALSE]
        /\ cr[c] \in CRoutine
    BY Zenon, <1>1, <1>8 DEF SchedTypeOK
  <2>2. \A r \in CRoutine : LET n == [r EXCEPT !.force_stop = TRUE, !.lock = FALSE] IN
          n \in CRoutine /\ n.state = r.state /\ n.updated = r.updated
    BY Zenon DEF CRoutine
  <2>3. cr'[c] \in CRoutine /\ cr'[c].state = cr[c].state /\ cr'[c].updated = cr[c].updated
    BY Zenon, <2>1, <2>2
  <2>4. cr' \in [Routines -> CRoutine]
    BY Zenon, <1>1, <1>8, <2>1, <2>3 DEF SchedTypeOK
  <2> QED
    BY Zenon, <2>1, <2>3, <2>4
<1>11. /\ DOMAIN rq[l] = 1 .. Len(rq[l]) /\ DOMAIN rq'[l] = 1 .. Len(rq[l]) - 1
       /\ \A k \in DOMAIN rq[l] : rq[l][k] = c => k = at
  BY <1>1, <1>3, <1>5, <1>6, <1>9 DEF QueuesInv
<1>12. \A d \in Routines, m \in Levels :
         InQueue(d, m)' <=> InQueue(d, m) /\ ~(d = c /\ m = l)
  <2> SUFFICES ASSUME NEW d \in Routines, NEW m \in Levels
               PROVE  InQueue(d, m)' <=> InQueue(d, m) /\ ~(d = c /\ m = l)
    OBVIOUS
  <2>1. CASE m # l
    BY Zenon, <1>9, <2>1 DEF InQueue
  <2>2. CASE m = l
    <3>1. ASSUME NEW k \in 1 .. Len(rq[l]) - 1, rq'[l][k] = d
          PROVE  d # c /\ InQueue(d, l)
      <4>1. CASE k < at
        <5>1. k \in 1 .. Len(rq[l]) /\ k # at /\ rq[l][k] = d
          BY <1>6, <1>9, <3>1, <4>1
        <5> QED
          BY Zenon, <1>11, <5>1 DEF InQueue
      <4>2. CASE k >= at
        <5>1. k + 1 \in 1 .. Len(rq[l]) /\ k + 1 # at /\ rq[l][k + 1] = d
          BY <1>6, <1>9, <3>1, <4>2
        <5> QED
          BY Zenon, <1>11, <5>1 DEF InQueue
      <4> QED
        BY <1>6, <4>1, <4>2
    <3>2. ASSUME NEW k \in 1 .. Len(rq[l]), rq[l][k] = d, d # c
          PROVE  InQueue(d, l)'
      <4>1. k # at
        BY <1>5, <3>2
      <4>2. CASE k < at
        <5>1. k \in 1 .. Len(rq[l]) - 1 /\ rq'[l][k] = d
          BY <1>6, <1>9, <3>2, <4>2
        <5> QED
          BY Zenon, <1>11, <5>1 DEF InQueue
      <4>3. CASE k > at
        <5>1. k - 1 \in 1 .. Len(rq[l]) - 1 /\ rq'[l][k - 1] = d
          BY <1>6, <1>9, <3>2, <4>3
        <5> QED
          BY Zenon, <1>11, <5>1 DEF InQueue
      <4> QED
        BY <1>6, <4>1, <4>2, <4>3
    <3> QED
      BY Zenon, <1>11, <2>2, <3>1, <3>2 DEF InQueue
  <2> QED
    BY <2>1, <2>2
<1>13. \A d \in Routines : Filed(d)' <=> Filed(d) /\ d # c
  BY <1>1, <1>b, <1>12 DEF Filed
<1>14. TypeOK'
  BY Zenon, <1>1, <1>2, <1>4, <1>9, <1>10 DEF TypeOK, SchedTypeOK
<1>15. QueuesInv'
  <2>1. \A m \in Levels : \A k \in DOMAIN rq'[m] : Priority(rq'[m][k]) = m
    <3>1. ASSUME NEW k \in 1 .. Len(rq[l]) - 1
          PROVE  Priority(rq'[l][k]) = l
      <4>1. k \in DOMAIN rq[l] /\ k + 1 \in DOMAIN rq[l]
        BY <1>6, <1>11
      <4>2. Priority(rq[l][k]) = l /\ Priority(rq[l][k + 1]) = l
        BY Zenon, <1>1, <4>1 DEF QueuesInv
      <4> QED
        BY Zenon, <1>9, <4>2
    <3>2. ASSUME NEW m \in Levels, m # l
          PROVE  \A k \in DOMAIN rq'[m] : Priority(rq'[m][k]) = m
      BY Zenon, <1>1, <1>9, <3>2 DEF QueuesInv
    <3> QED
      BY Zenon, <1>11, <3>1, <3>2
  <2>2. \A m \in Levels : \A j, k \in DOMAIN rq'[m] : rq'[m][j] = rq'[m][k] => j = k
    <3>1. ASSUME NEW m \in Levels, m # l
          PROVE  \A j, k \in DOMAIN rq'[m] : rq'[m][j] = rq'[m][k] => j = k
      BY Zenon, <1>1, <1>9, <3>1 DEF QueuesInv
    <3>2. ASSUME NEW j \in 1 .. Len(rq[l]) - 1, NEW k \in 1 .. Len(rq[l]) - 1,
                 rq'[l][j] = rq'[l][k]
          PROVE  j = k
      <4>1. \A a, b \in 1 .. Len(rq[l]) : rq[l][a] = rq[l][b] => a = b
        BY Zenon, <1>1, <1>3, <1>11 DEF QueuesInv
      <4>2. j + 1 \in 1 .. Len(rq[l]) /\ k + 1 \in 1 .. Len(rq[l])
            /\ j \in 1 .. Len(rq[l]) /\ k \in 1 .. Len(rq[l])
        BY <1>6
      <4>3. rq'[l][j] = (IF j < at THEN rq[l][j] ELSE rq[l][j + 1])
        BY Zenon, <1>9
      <4>4. rq'[l][k] = (IF k < at THEN rq[l][k] ELSE rq[l][k + 1])
        BY Zenon, <1>9
      <4>5. CASE j < at /\ k < at
        BY Zenon, <3>2, <4>1, <4>2, <4>3, <4>4, <4>5
      <4>6. CASE j < at /\ ~(k < at)
        <5>1. j = k + 1
          BY Zenon, <3>2, <4>1, <4>2, <4>3, <4>4, <4>6
        <5> QED
          BY <1>6, <4>6, <5>1
      <4>7. CASE ~(j < at) /\ k < at
        <5>1. j + 1 = k
          BY Zenon, <3>2, <4>1, <4>2, <4>3, <4>4, <4>7
        <5> QED
          BY <1>6, <4>7, <5>1
      <4>8. CASE ~(j < at) /\ ~(k < at)
        <5>1. j + 1 = k + 1
          BY Zenon, <3>2, <4>1, <4>2, <4>3, <4>4, <4>8
        <5> QED
          BY <5>1
      <4> QED
        BY <4>5, <4>6, <4>7, <4>8
    <3> QED
      BY Zenon, <1>11, <3>1, <3>2
  <2> QED
    BY <2>1, <2>2 DEF QueuesInv
<1>16. OpsInv' /\ FiledInv'
  <2>1. OpsInv'
    BY Zenon, <1>1, <1>2, <1>4 DEF OpsInv
  <2>2. \A d \in Routines : Enlisted(d)' <=> Enlisted(d) /\ d # c
    <3>1. ASSUME NEW d \in Routines, Id[d] = i
          PROVE  (Enlisted(d) <=> d = c) /\ ~Enlisted(d)'
      BY Zenon, <1>1, <1>2, <1>a, <1>3, <1>4, <3>1 DEF Enlisted
    <3>2. ASSUME NEW d \in Routines, Id[d] # i
          PROVE  d # c /\ (Enlisted(d)' <=> Enlisted(d))
      BY Zenon, <1>1, <1>2, <1>3, <1>4, <3>2 DEF Enlisted
    <3> QED
      BY Zenon, <3>1, <3>2
  <2> QED
    BY Zenon, <1>1, <1>13, <2>1, <2>2 DEF FiledInv
<1>17. FreshInv'
  <2>1. \A d \in Routines : Fresh(d)' => Fresh(d)
    BY Zenon, <1>1, <1>2, <1>4 DEF Fresh
  <2>2. \A d \in Routines : Fresh(d) => d # c
    BY Zenon, <1>1, <1>b, <1>5 DEF FreshInv, Filed, InQueue
  <2>3. \A d \in Routines, p \in Processors : Holds(p, d)' <=> Holds(p, d)
    BY Zenon, <1>2 DEF Holds
  <2> QED
    BY Zenon, <1>1, <1>2, <1>10, <1>13, <2>1, <2>2, <2>3 DEF FreshInv
<1>18. LocksInv'
  <2>1. \A p \in Processors : proc'[p].pc \in {"scan", "check"} =>
          \A k \in DOMAIN proc'[p].todo : InQueue(proc[p].todo[k], proc[p].level)'
    <3> SUFFICES ASSUME NEW p \in Processors, proc[p].pc \in {"scan", "check"},
                        NEW k \in DOMAIN proc[p].todo
                 PROVE  InQueue(proc[p].todo[k], proc[p].level)'
      BY Zenon, <1>2
    <3>1. proc[p].level \in Levels /\ proc[p].todo \in Seq(Routines)
      BY Zenon, <1>1 DEF SchedTypeOK, Places
    <3>2. proc[p].todo[k] \in Routines
      BY <3>1
    <3>3. InQueue(proc[p].todo[k], proc[p].level) /\ proc[p].level # l
      BY Zenon, <1>1, <1>3 DEF LocksInv, Unread
    <3>4. PICK d \in Routines, m \in Levels : d = proc[p].todo[k] /\ m = proc[p].level
      BY Zenon, <3>1, <3>2
    <3>5. InQueue(d, m)'
      BY Zenon, <1>12, <3>3, <3>4
    <3> QED
      BY Zenon, <1>2, <3>4, <3>5 DEF InQueue
  <2>2. \A d \in Routines : Filed(d)' =>
          (cr'[d].lock <=> \E p \in Processors : Holds(p, d)')
    <3>1. \A d \in Routines, p \in Processors : Holds(p, d)' <=> Holds(p, d)
      BY Zenon, <1>2 DEF Holds
    <3> QED
      BY Zenon, <1>1, <1>10, <1>13, <3>1 DEF LocksInv
  <2>3. OneHolder'
    <3>1. DOMAIN cr' = DOMAIN cr /\ OneHolder
      BY Zenon, <1>1, <1>10 DEF LocksInv, SchedTypeOK
    <3> QED
      BY Zenon, <1>2, <3>1 DEF OneHolder, Holds
  <2> QED
    BY Zenon, <1>1, <1>2, <2>1, <2>2, <2>3 DEF LocksInv
<1>19. WatchInv'
  <2>1. \A d \in Routines, p \in Processors : Watches(p, d)' <=> Watches(p, d)
    BY Zenon, <1>2 DEF Watches, Holds
  <2> QED
    BY Zenon, <1>1, <1>10, <1>13, <2>1 DEF WatchInv
<1>20. WaitingHasNoData'
  BY Zenon, <1>1, <1>2, <1>10, StillNoData DEF Hungry
<1> QED
  BY <1>20, <1>14, <1>15, <1>16, <1>17, <1>18, <1>19 DEF VisitorInv

\* A step that leaves the tables, the queues and the processors alone, and the
\* state and the lock of every routine.
LEMMA Aside ==
  ASSUME VisitorInv, UNCHANGED <<id_cr, born, rq, op, proc>>,
         ctx_stop \subseteq ctx_stop', cr' \in [Routines -> CRoutine],
         \A c \in Routines : cr'[c].state = cr[c].state /\ cr'[c].lock = cr[c].lock
  PROVE  QueuesInv' /\ OpsInv' /\ FiledInv' /\ FreshInv' /\ LocksInv' /\ WatchInv'
<1>1. /\ SchedTypeOK /\ QueuesInv /\ OpsInv /\ FiledInv /\ FreshInv
      /\ LocksInv /\ WatchInv
  BY Facts
<1>2. QueuesInv' /\ OpsInv'
  BY <1>1 DEF QueuesInv, OpsInv
<1>3. \A c \in Routines : /\ Filed(c)' <=> Filed(c)
                          /\ Enlisted(c)' <=> Enlisted(c)
                          /\ Fresh(c)' <=> Fresh(c)
  BY Zenon DEF Filed, InQueue, Enlisted, Fresh
<1>4. FiledInv' /\ FreshInv'
  BY Zenon, <1>1, <1>3 DEF FiledInv, FreshInv, Holds
<1>5. OneHolder'
  BY <1>1 DEF LocksInv, OneHolder, Holds, SchedTypeOK
<1>6. LocksInv'
  BY <1>1, <1>3, <1>5 DEF LocksInv, InQueue, Holds
<1>7. WatchInv'
  BY <1>1, <1>3 DEF WatchInv, Watches, Holds
<1> QED
  BY <1>2, <1>4, <1>6, <1>7

\* A step that only wakes processors, as far as the scheduler goes.
LEMMA OnlyWaking ==
  ASSUME VisitorInv, UNCHANGED <<cr, id_cr, born, rq, op>>, Woken,
         ctx_stop \subseteq ctx_stop'
  PROVE  /\ QueuesInv' /\ OpsInv' /\ FiledInv' /\ FreshInv' /\ LocksInv' /\ WatchInv'
         /\ proc' \in [Processors -> Places]
<1>1. SchedTypeOK /\ QueuesInv /\ OpsInv /\ FiledInv /\ FreshInv
  BY Facts
<1>2. /\ proc' \in [Processors -> Places]
      /\ \A p \in Processors, d \in Routines : Holds(p, d)' <=> Holds(p, d)
      /\ LocksInv' /\ WatchInv'
  BY Waking
<1>3. QueuesInv' /\ OpsInv'
  BY <1>1 DEF QueuesInv, OpsInv
<1>4. \A c \in Routines : /\ Filed(c)' <=> Filed(c)
                          /\ Enlisted(c)' <=> Enlisted(c)
                          /\ Fresh(c)' <=> Fresh(c)
  BY DEF Filed, InQueue, Enlisted, Fresh
<1>5. FiledInv' /\ FreshInv'
  BY Zenon, <1>1, <1>2, <1>4 DEF FiledInv, FreshInv
<1> QED
  BY <1>2, <1>3, <1>5

\* NotifyProcessor sets the update flag of a routine that was in DATA_WAIT.
LEMMA Flagging ==
  ASSUME VisitorInv, NEW n \in Notifiers, SetUpdateFlag(n), UNCHANGED dataVars
  PROVE  VisitorInv'
<1>1. TypeOK /\ SchedTypeOK /\ WaitingHasNoData
  BY Facts
<1>2. /\ UNCHANGED <<due, id_cr, born, rq, op, proc, stop, ctx_stop, running, main>>
      /\ UNCHANGED <<unread, begun, hooked, stage, missed, sender>>
      /\ ntf[n].pc = "flag" /\ ntf' = [ntf EXCEPT ![n].pc = "wake"]
      /\ cr' = [cr EXCEPT ![ntf[n].cr].updated = TRUE]
  BY Zenon DEF SetUpdateFlag, dataVars
<1>3. /\ cr' \in [Routines -> CRoutine]
      /\ \A c \in Routines :
           /\ cr'[c].state = cr[c].state /\ cr'[c].lock = cr[c].lock
           /\ cr[c].updated \/ c = ntf[n].cr => cr'[c].updated
  <2>3. ASSUME NEW c \in Routines
        PROVE  /\ cr'[c] \in CRoutine /\ cr'[c].state = cr[c].state
               /\ cr'[c].lock = cr[c].lock
               /\ cr[c].updated \/ c = ntf[n].cr => cr'[c].updated
    <3>1. PICK r \in CRoutine : r = cr[c]
      BY <1>1 DEF SchedTypeOK
    <3>2. CASE c = ntf[n].cr
      <4>1. cr'[c] = [r EXCEPT !.updated = TRUE]
        BY Zenon, <1>1, <1>2, <3>1, <3>2 DEF SchedTypeOK
      <4> QED
        BY Zenon, <3>1, <4>1 DEF CRoutine
    <3>3. CASE c # ntf[n].cr
      BY Zenon, <1>1, <1>2, <3>1, <3>3 DEF SchedTypeOK
    <3> QED
      BY Zenon, <3>2, <3>3
  <2>4. cr' \in [Routines -> CRoutine]
    BY Zenon, <1>1, <1>2, <2>3 DEF SchedTypeOK
  <2> QED
    BY Zenon, <2>3, <2>4
<1>4. /\ ntf' \in [Notifiers -> [pc : {"idle", "flag", "wake"},
                                 cr : Routines \cup {Nobody}]]
      /\ \A m \in Notifiers : m # n => ntf'[m] = ntf[m]
  BY <1>1, <1>2 DEF SchedTypeOK
<1>5. TypeOK'
  BY Zenon, <1>1, <1>2, <1>3, <1>4 DEF TypeOK, SchedTypeOK
<1>6. WaitingHasNoData'
  <2> SUFFICES ASSUME NEW c \in Routines, id_cr[Id[c]] = c, ~stop,
                      cr[c].state = "DATA_WAIT", stage[c] = "top",
                      unread[c] > 0, c \notin missed, ~cr'[c].updated
               PROVE  \E m \in Notifiers :
                        \/ sender[m] = c
                        \/ ntf'[m].pc = "flag" /\ ntf'[m].cr = c
    BY <1>2, <1>3, <1>4 DEF WaitingHasNoData
  <2>1. c # ntf[n].cr /\ ~cr[c].updated
    BY Zenon, <1>3
  <2>2. PICK m \in Notifiers :
               \/ sender[m] = c
               \/ ntf[m].pc = "flag" /\ ntf[m].cr = c
    BY <1>1, <2>1 DEF WaitingHasNoData, SchedTypeOK
  <2> QED
    BY Zenon, <1>4, <2>1, <2>2
<1> QED
  BY Zenon, <1>2, <1>3, <1>5, <1>6, Aside DEF VisitorInv

\* The notification itself.
LEMMA WakingOne ==
  ASSUME VisitorInv, NEW n \in Notifiers, Notify(n), UNCHANGED dataVars
  PROVE  VisitorInv'
<1>1. TypeOK /\ SchedTypeOK /\ WaitingHasNoData /\ Woken
  BY Zenon, Facts, Notifying DEF Notify
<1>2. /\ UNCHANGED <<cr, due, id_cr, born, rq, op, stop, ctx_stop, running, main>>
      /\ UNCHANGED <<unread, begun, hooked, stage, missed, sender>>
      /\ ntf[n].pc = "wake" /\ ntf' = [ntf EXCEPT ![n] = Idle]
  BY DEF Notify, dataVars
<1>3. /\ QueuesInv' /\ OpsInv' /\ FiledInv' /\ FreshInv' /\ LocksInv' /\ WatchInv'
      /\ proc' \in [Processors -> Places]
  BY Zenon, <1>1, <1>2, OnlyWaking
<1>4. /\ ntf' \in [Notifiers -> [pc : {"idle", "flag", "wake"},
                                 cr : Routines \cup {Nobody}]]
      /\ \A m \in Notifiers : ntf[m].pc = "flag" => ntf'[m] = ntf[m]
  BY Zenon, <1>1, <1>2 DEF SchedTypeOK, Idle
<1>5. TypeOK'
  BY Zenon, <1>1, <1>2, <1>3, <1>4 DEF TypeOK, SchedTypeOK
<1>6. WaitingHasNoData'
  BY <1>1, <1>2, <1>4 DEF WaitingHasNoData, SchedTypeOK
<1> QED
  BY <1>3, <1>5, <1>6 DEF VisitorInv

\* A processor that has no routine moves on.
LEMMA Moving ==
  ASSUME VisitorInv, NEW p \in Processors, NEW r \in Places,
         UNCHANGED <<cr, due, id_cr, born, rq, op, ntf, stop, ctx_stop, running, main>>,
         UNCHANGED dataVars, proc' = [proc EXCEPT ![p] = r],
         {proc[p].pc, r.pc} \cap {"check", "resume", "body", "release"} = {},
         r.pc = "scan" => \A k \in DOMAIN r.todo : InQueue(r.todo[k], r.level),
         \A c \in Routines :
           Filed(c) /\ Watches(p, c) => \E q \in Processors : Watches(q, c)'
  PROVE  VisitorInv'
<1>1. /\ TypeOK /\ SchedTypeOK /\ QueuesInv /\ OpsInv /\ FiledInv /\ FreshInv
      /\ LocksInv /\ WatchInv /\ WaitingHasNoData
  BY Zenon, Facts
<1>2. UNCHANGED <<unread, begun, hooked, stage, missed, sender>>
  BY Zenon DEF dataVars
<1>3. /\ proc' \in [Processors -> Places] /\ proc'[p] = r
      /\ \A q \in Processors : q # p => proc'[q] = proc[q]
  BY Zenon, <1>1 DEF SchedTypeOK
<1>4. \A q \in Processors, c \in Routines : Holds(q, c)' <=> Holds(q, c)
  BY Zenon, <1>3 DEF Holds
<1>5. TypeOK' /\ QueuesInv' /\ OpsInv' /\ WaitingHasNoData'
  <2>1. TypeOK'
    BY Zenon, <1>1, <1>2, <1>3 DEF TypeOK, SchedTypeOK
  <2> QED
    BY Zenon, <1>1, <1>2, <2>1 DEF QueuesInv, OpsInv, WaitingHasNoData
<1>6. \A c \in Routines : /\ Filed(c)' <=> Filed(c)
                          /\ Enlisted(c)' <=> Enlisted(c)
                          /\ Fresh(c)' <=> Fresh(c)
  BY Zenon DEF Filed, InQueue, Enlisted, Fresh
<1>7. FiledInv' /\ FreshInv'
  BY Zenon, <1>1, <1>4, <1>6 DEF FiledInv, FreshInv
<1>8. LocksInv'
  <2>1. OneHolder'
    <3>1. DOMAIN proc' = DOMAIN proc /\ DOMAIN proc = Processors /\ DOMAIN cr = Routines
      BY Zenon, <1>1, <1>3 DEF SchedTypeOK
    <3>2. OneHolder
      BY Zenon, <1>1 DEF LocksInv
    <3> QED
      BY <1>4, <3>1, <3>2 DEF OneHolder
  <2>2. \A q \in Processors : proc'[q].pc \in {"scan", "check"} =>
          \A k \in DOMAIN proc'[q].todo : InQueue(proc[q].todo[k], proc[q].level)'
    <3>1. ASSUME NEW q \in Processors, q # p, proc[q].pc \in {"scan", "check"},
                 NEW k \in DOMAIN proc[q].todo
          PROVE  InQueue(proc[q].todo[k], proc[q].level)'
      BY <1>1, <1>3, <3>1 DEF LocksInv, InQueue
    <3>2. ASSUME r.pc = "scan", NEW k \in DOMAIN r.todo
          PROVE  InQueue(proc[p].todo[k], proc[p].level)'
      BY Zenon, <1>3, <3>2 DEF InQueue
    <3> QED
      BY Zenon, <1>3, <3>1, <3>2
  <2>3. \A q \in Processors :
          proc'[q].pc \in {"check", "resume", "body", "release"} => proc'[q].cr # Nobody
    BY Zenon, <1>1, <1>3 DEF LocksInv
  <2> QED
    BY Zenon, <1>1, <1>4, <1>6, <2>1, <2>2, <2>3 DEF LocksInv
<1>9. WatchInv'
  <2> SUFFICES ASSUME NEW c \in Routines, Filed(c), cr[c].state = "SLEEP"
               PROVE  \E q \in Processors : Watches(q, c)'
    BY Zenon, <1>6 DEF WatchInv
  <2>1. PICK q \in Processors : Watches(q, c)
    BY Zenon, <1>1 DEF WatchInv
  <2>2. CASE q # p
    <3>1. proc'[q] = proc[q]
      BY Zenon, <1>3, <2>2
    <3>2. Watches(q, c)'
      BY Zenon, <2>1, <3>1 DEF Watches, Holds
    <3> QED
      BY Zenon, <3>2
  <2> QED
    BY Zenon, <2>1, <2>2
<1> QED
  BY Zenon, <1>5, <1>7, <1>8, <1>9 DEF VisitorInv

\* NextRoutine begins with the highest level, unless the processor was
\* stopped.
LEMMA Topping ==
  ASSUME VisitorInv, NEW p \in Processors, Top(p), UNCHANGED dataVars
  PROVE  VisitorInv'
<1>1. SchedTypeOK /\ proc[p] \in Places /\ MAX_PRIO - 1 \in Levels
      /\ \A c \in Routines : Priority(c) \in Levels
  BY Facts, VisitorAssumption DEF SchedTypeOK, Levels, SchedulerAssumption
<1>2. PICK r :
        /\ proc' = [proc EXCEPT ![p] = r]
        /\ r = IF p \notin running THEN [proc[p] EXCEPT !.pc = "exit"]
               ELSE IF p \in ctx_stop THEN [proc[p] EXCEPT !.pc = "wait"]
               ELSE [proc[p] EXCEPT !.pc = "scan", !.level = MAX_PRIO - 1,
                                    !.todo = rq[MAX_PRIO - 1]]
  BY Zenon DEF Top
<1>3. r \in Places /\ proc'[p] = r /\ proc[p].pc = "top"
  BY Zenon, <1>1, <1>2 DEF SchedTypeOK, Places, Top
<1>4. \/ r.pc = "exit"
      \/ r.pc = "wait" /\ p \in ctx_stop
      \/ r.pc = "scan" /\ r.level = MAX_PRIO - 1 /\ r.todo = rq[MAX_PRIO - 1]
  BY Zenon, <1>1, <1>2 DEF Places
<1>5. r.pc = "scan" => \A k \in DOMAIN r.todo : InQueue(r.todo[k], r.level)
  BY <1>4 DEF InQueue
<1>6. ASSUME NEW c \in Routines, Filed(c)
      PROVE  Watches(p, c)'
  <2>1. Priority(c) = MAX_PRIO - 1 \/ MAX_PRIO - 1 > Priority(c)
    BY <1>1, VisitorAssumption DEF Levels, SchedulerAssumption
  <2>2. CASE r.pc = "scan"
    BY Zenon, <1>3, <1>4, <1>6, <2>1, <2>2 DEF Watches, Filed, InQueue, Top
  <2>3. CASE r.pc # "scan"
    BY Zenon, <1>3, <1>4, <2>3 DEF Watches, Top
  <2> QED
    BY <2>2, <2>3
<1>7. UNCHANGED <<cr, due, id_cr, born, rq, op, ntf, stop, ctx_stop, running, main>>
  BY DEF Top
<1>8. {proc[p].pc, r.pc} \cap {"check", "resume", "body", "release"} = {}
  BY <1>3, <1>4
<1> QED
  BY Zenon, <1>2, <1>3, <1>5, <1>6, <1>7, <1>8, Moving

\* The next level down, or nothing left to look at.
LEMMA GoingDown ==
  ASSUME VisitorInv, NEW p \in Processors, NextLevel(p), UNCHANGED dataVars
  PROVE  VisitorInv'
<1>1. /\ SchedTypeOK /\ proc[p] \in Places
      /\ proc[p].pc = "scan" /\ proc[p].todo = << >> /\ proc[p].level \in Levels
      /\ \A c \in Routines : Priority(c) \in Levels
  BY Zenon, Facts DEF SchedTypeOK, NextLevel, Places
<1>2. PICK r :
        /\ proc' = [proc EXCEPT ![p] = r]
        /\ r = IF proc[p].level = 0 THEN [proc[p] EXCEPT !.pc = "wait"]
               ELSE [proc[p] EXCEPT !.level = proc[p].level - 1,
                                    !.todo = rq[proc[p].level - 1]]
  BY Zenon DEF NextLevel
<1>3. proc[p].level # 0 => proc[p].level - 1 \in Levels
  BY <1>1, VisitorAssumption DEF Levels, SchedulerAssumption
<1>4. r \in Places /\ proc'[p] = r /\ r.need_sleep = proc[p].need_sleep
  BY Zenon, <1>1, <1>2, <1>3 DEF SchedTypeOK, Places
<1>5. \/ r.pc = "wait" /\ proc[p].level = 0
      \/ /\ r.pc = "scan" /\ proc[p].level # 0
         /\ r.level = proc[p].level - 1 /\ r.todo = rq[r.level]
  BY Zenon, <1>1, <1>2 DEF Places
<1>6. r.pc = "scan" => \A k \in DOMAIN r.todo : InQueue(r.todo[k], r.level)
  BY <1>5 DEF InQueue
<1>7. ASSUME NEW c \in Routines, Filed(c), Watches(p, c)
      PROVE  Watches(p, c)'
  <2>1. proc[p].need_sleep \/ proc[p].level > Priority(c)
    BY <1>1, <1>7 DEF Watches, Holds
  <2>2. CASE proc[p].need_sleep
    BY Zenon, <1>4, <1>5, <2>2 DEF Watches
  <2>3. CASE proc[p].level > Priority(c)
    <3>1. /\ r.pc = "scan" /\ r.todo = rq[r.level]
          /\ r.level = Priority(c) \/ r.level > Priority(c)
      BY <1>1, <1>5, <2>3, VisitorAssumption DEF Levels, SchedulerAssumption
    <3> QED
      BY Zenon, <1>4, <1>7, <3>1 DEF Watches, Filed, InQueue
  <2> QED
    BY <2>1, <2>2, <2>3
<1>8. UNCHANGED <<cr, due, id_cr, born, rq, op, ntf, stop, ctx_stop, running, main>>
  BY DEF NextLevel
<1>9. {proc[p].pc, r.pc} \cap {"check", "resume", "body", "release"} = {}
  BY <1>1, <1>5
<1> QED
  BY Zenon, <1>2, <1>4, <1>6, <1>7, <1>8, <1>9, Moving

\* ClassicContext::Wait begins, with a limit if the processor saw a sleeper.
LEMMA BeginningToWait ==
  ASSUME VisitorInv, NEW p \in Processors, Wait(p), UNCHANGED dataVars
  PROVE  VisitorInv'
<1>1. SchedTypeOK /\ proc[p] \in Places /\ proc[p].pc = "wait"
  BY Zenon, Facts DEF SchedTypeOK, Wait
<1>2. PICK r :
        /\ proc' = [proc EXCEPT ![p] = r]
        /\ r = [proc[p] EXCEPT !.pc =
                  IF p \in ctx_stop THEN "top"
                  ELSE IF proc[p].need_sleep THEN "napping" ELSE "asleep"]
  BY Zenon DEF Wait
<1>3. r \in Places /\ proc'[p] = r
  BY Zenon, <1>1, <1>2 DEF SchedTypeOK, Places
<1>4. r.pc = IF p \in ctx_stop THEN "top"
             ELSE IF proc[p].need_sleep THEN "napping" ELSE "asleep"
  BY <1>1, <1>2 DEF Places
<1>5. \A c \in Routines : Watches(p, c) => Watches(p, c)'
  BY Zenon, <1>1, <1>3, <1>4 DEF Watches
<1>6. UNCHANGED <<cr, due, id_cr, born, rq, op, ntf, stop, ctx_stop, running, main>>
  BY DEF Wait
<1>7. {proc[p].pc, r.pc} \cap {"check", "resume", "body", "release"} = {}
      /\ r.pc # "scan"
  BY <1>1, <1>4
<1> QED
  BY Zenon, <1>2, <1>3, <1>5, <1>6, <1>7, Moving

\* The elements of a sequence are its head and the elements of its tail.
LEMMA Tails ==
  ASSUME NEW S, NEW s \in Seq(S), s # << >>
  PROVE  /\ Tail(s) \in Seq(S)
         /\ \E j \in DOMAIN s : s[j] = Head(s)
         /\ \A k \in DOMAIN Tail(s) : \E j \in DOMAIN s : s[j] = Tail(s)[k]
         /\ \A j \in DOMAIN s : s[j] # Head(s) =>
              \E k \in DOMAIN Tail(s) : Tail(s)[k] = s[j]
<1>1. /\ Len(s) \in Nat \ {0} /\ DOMAIN s = 1 .. Len(s) /\ s[1] = Head(s)
      /\ Tail(s) \in Seq(S) /\ DOMAIN Tail(s) = 1 .. Len(s) - 1
      /\ \A k \in 1 .. Len(s) - 1 : Tail(s)[k] = s[k + 1]
  OBVIOUS
<1>2. ASSUME NEW k \in 1 .. Len(s) - 1
      PROVE  \E j \in 1 .. Len(s) : s[j] = Tail(s)[k]
  <2>1. k + 1 \in 1 .. Len(s)
    BY <1>1
  <2> QED
    BY <1>1, <2>1
<1>3. ASSUME NEW j \in 1 .. Len(s), s[j] # Head(s)
      PROVE  \E k \in 1 .. Len(s) - 1 : Tail(s)[k] = s[j]
  <2>1. j # 1
    BY <1>1, <1>3
  <2>2. j - 1 \in 1 .. Len(s) - 1 /\ (j - 1) + 1 = j
    BY <1>1, <2>1
  <2>3. Tail(s)[j - 1] = s[j]
    BY <1>1, <2>2
  <2> QED
    BY <2>2, <2>3
<1>4. 1 \in 1 .. Len(s)
  BY <1>1
<1> QED
  BY Zenon, <1>1, <1>2, <1>3, <1>4
=============================================================================
