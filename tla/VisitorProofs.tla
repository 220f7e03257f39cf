--------------------------- MODULE VisitorProofs ---------------------------
(***************************************************************************)
(* The rest of the proofs about the classic scheduler: a processor with a  *)
(* routine, the routine it runs, Shutdown and the arrival of messages      *)
(* preserve VisitorInv, and what follows from it.                          *)
(***************************************************************************)
EXTENDS SchedulerProofs

\* Acquire: a routine that another processor has is passed over, and that
\* processor will look at it again; any other routine of the queue is free.
LEMMA Acquiring ==
  ASSUME VisitorInv, NEW p \in Processors, Acquire(p), UNCHANGED dataVars
  PROVE  VisitorInv'
<1>1. /\ TypeOK /\ SchedTypeOK /\ QueuesInv /\ OpsInv /\ FiledInv /\ FreshInv
      /\ LocksInv /\ WatchInv /\ WaitingHasNoData
      /\ Nobody \notin Routines
      /\ proc[p] \in Places /\ proc[p].pc = "scan" /\ proc[p].todo # << >>
      /\ proc[p].todo \in Seq(Routines)
  BY Zenon, Facts DEF SchedTypeOK, Places, Acquire
<1>2. /\ UNCHANGED <<due, id_cr, born, rq, op, ntf, stop, ctx_stop, running, main>>
      /\ UNCHANGED <<unread, begun, hooked, stage, missed, sender>>
  BY Zenon DEF Acquire, dataVars
<1>3. PICK c \in Routines : c = Head(proc[p].todo)
  BY <1>1
<1>4. PICK rest \in Seq(Routines) :
        /\ rest = Tail(proc[p].todo)
        /\ \E j \in DOMAIN proc[p].todo : proc[p].todo[j] = c
        /\ \A k \in DOMAIN rest : \E j \in DOMAIN proc[p].todo : proc[p].todo[j] = rest[k]
        /\ \A j \in DOMAIN proc[p].todo : proc[p].todo[j] # c =>
             \E k \in DOMAIN rest : rest[k] = proc[p].todo[j]
  <2>1. ASSUME NEW s \in Seq(Routines), s # << >>
        PROVE  \E rest \in Seq(Routines) :
                 /\ rest = Tail(s)
                 /\ \E j \in DOMAIN s : s[j] = Head(s)
                 /\ \A k \in DOMAIN rest : \E j \in DOMAIN s : s[j] = rest[k]
                 /\ \A j \in DOMAIN s : s[j] # Head(s) =>
                      \E k \in DOMAIN rest : rest[k] = s[j]
    BY Zenon, <2>1, Tails
  <2>2. proc[p].todo \in Seq(Routines) /\ proc[p].todo # << >> /\ Head(proc[p].todo) = c
    BY Zenon, <1>1, <1>3
  <2> QED
    BY Zenon, <2>1, <2>2
<1>e. /\ \E j \in DOMAIN proc[p].todo : proc[p].todo[j] = c
      /\ \A k \in DOMAIN rest : \E j \in DOMAIN proc[p].todo : proc[p].todo[j] = rest[k]
      /\ \A j \in DOMAIN proc[p].todo : proc[p].todo[j] # c =>
           \E k \in DOMAIN rest : rest[k] = proc[p].todo[j]
  BY Zenon, <1>4
<1>5. InQueue(c, proc[p].level) /\ Filed(c)
  <2>1. InQueue(c, proc[p].level) /\ proc[p].level \in Levels
    BY <1>1, <1>e DEF LocksInv, Places
  <2> QED
    BY <1>1, <2>1 DEF QueuesInv, InQueue, Filed
<1>6. CASE cr[c].lock
  <2>1. UNCHANGED cr
    <3>1. cr[c] \in CRoutine /\ [cr[c] EXCEPT !.lock = TRUE] = cr[c]
      BY <1>1, <1>6 DEF SchedTypeOK, CRoutine
    <3> QED
      BY Zenon, <1>1, <1>3, <3>1 DEF SchedTypeOK, Acquire
  <2>2. PICK r \in Places : /\ r = [proc[p] EXCEPT !.todo = rest]
                            /\ proc' = [proc EXCEPT ![p] = r]
    <3>1. [proc[p] EXCEPT !.todo = rest] \in Places
      BY Zenon, <1>1, <1>4 DEF Places
    <3> QED
      BY Zenon, <1>3, <1>4, <1>6, <3>1 DEF Acquire
  <2>3. /\ proc'[p] = r /\ \A q \in Processors : q # p => proc'[q] = proc[q]
        /\ r.pc = "scan" /\ r.todo = rest /\ r.level = proc[p].level
        /\ r.need_sleep = proc[p].need_sleep
    BY Zenon, <1>1, <2>2 DEF SchedTypeOK, Places
  <2>4. \A k \in DOMAIN r.todo : InQueue(r.todo[k], r.level)
    BY <1>1, <1>e, <2>3 DEF LocksInv
  <2>5. \E q \in Processors : Watches(q, c)'
    <3>1. PICK q \in Processors : Holds(q, c)
      BY Zenon, <1>1, <1>5, <1>6 DEF LocksInv
    <3>2. q # p
      BY <1>1, <3>1 DEF Holds
    <3>3. Watches(q, c)'
      BY Zenon, <2>3, <3>1, <3>2 DEF Holds, Watches
    <3> QED
      BY <3>3
  <2>6. ASSUME NEW d \in Routines, d # c, Watches(p, d)
        PROVE  Watches(p, d)'
    <3>1. CASE proc[p].need_sleep \/ proc[p].level > Priority(d)
      BY Zenon, <2>3, <3>1 DEF Watches
    <3>2. CASE \E k \in DOMAIN proc[p].todo : proc[p].todo[k] = d
      <4>1. \E k \in DOMAIN r.todo : r.todo[k] = d
        BY <1>e, <2>3, <2>6, <3>2
      <4> QED
        BY Zenon, <2>3, <4>1 DEF Watches
    <3> QED
      BY Zenon, <1>1, <2>6, <3>1, <3>2 DEF Watches, Holds
  <2>7. {proc[p].pc, r.pc} \cap {"check", "resume", "body", "release"} = {}
    BY Zenon, <1>1, <2>3
  <2>8. \A d \in Routines :
          Filed(d) /\ Watches(p, d) => \E q \in Processors : Watches(q, d)'
    BY <2>5, <2>6
  <2>9. UNCHANGED <<cr, due, id_cr, born, rq, op, ntf, stop, ctx_stop, running, main>>
    BY <1>2, <2>1
  <2> QED
    BY Zenon, <2>2, <2>4, <2>7, <2>8, <2>9, Moving
<1>7. CASE ~cr[c].lock
  <2>1. PICK r \in Places :
          /\ r = [proc[p] EXCEPT !.todo = rest, !.pc = "check", !.cr = c]
          /\ proc' = [proc EXCEPT ![p] = r]
    <3>1. [proc[p] EXCEPT !.todo = rest, !.pc = "check", !.cr = c] \in Places
      BY Zenon, <1>1, <1>4 DEF Places
    <3> QED
      BY Zenon, <1>3, <1>4, <1>7, <3>1 DEF Acquire
  <2>2. /\ proc'[p] = r /\ \A q \in Processors : q # p => proc'[q] = proc[q]
        /\ proc' \in [Processors -> Places]
        /\ r.pc = "check" /\ r.cr = c
        /\ r.todo = rest /\ r.level = proc[p].level
        /\ r.need_sleep = proc[p].need_sleep
    BY Zenon, <1>1, <2>1 DEF SchedTypeOK, Places
  <2>3. /\ \A d \in Routines : d # c => cr'[d] = cr[d]
        /\ cr' \in [Routines -> CRoutine]
        /\ cr'[c].lock /\ cr'[c].state = cr[c].state /\ cr'[c].updated = cr[c].updated
    <3>1. PICK o \in CRoutine : o = cr[c]
      BY Zenon, <1>1 DEF SchedTypeOK
    <3>2. /\ [o EXCEPT !.lock = TRUE] \in CRoutine
          /\ [o EXCEPT !.lock = TRUE].lock
          /\ [o EXCEPT !.lock = TRUE].state = o.state
          /\ [o EXCEPT !.lock = TRUE].updated = o.updated
      BY Zenon DEF CRoutine
    <3> QED
      BY Zenon, <1>1, <1>3, <3>1, <3>2 DEF SchedTypeOK, Acquire
  <2>4. \A q \in Processors, d \in Routines :
          Holds(q, d)' <=> Holds(q, d) \/ (q = p /\ d = c)
    BY Zenon, <1>1, <2>2 DEF Holds
  <2>5. \A q \in Processors : ~Holds(q, c)
    BY Zenon, <1>1, <1>5, <1>7 DEF LocksInv
  <2>6. TypeOK'
    BY Zenon, <1>1, <1>2, <2>2, <2>3 DEF TypeOK, SchedTypeOK
  <2>7. QueuesInv' /\ OpsInv'
    BY Zenon, <1>1, <1>2 DEF QueuesInv, OpsInv
  <2>8. \A d \in Routines : /\ Filed(d)' <=> Filed(d)
                            /\ Enlisted(d)' <=> Enlisted(d)
                            /\ Fresh(d)' <=> Fresh(d)
    BY Zenon, <1>2 DEF Filed, InQueue, Enlisted, Fresh
  <2>9. ~Fresh(c)
    BY Zenon, <1>1, <1>5 DEF FreshInv
  <2>10. FiledInv' /\ FreshInv'
    BY <1>1, <1>2, <2>3, <2>4, <2>8, <2>9 DEF FiledInv, FreshInv
  <2>11. LocksInv'
    <3>1. OneHolder'
      <4>1. DOMAIN proc' = Processors /\ DOMAIN cr' = Routines
        BY Zenon, <2>6 DEF TypeOK, SchedTypeOK
      <4>2. \A q, z \in Processors, d \in Routines :
              Holds(q, d) /\ Holds(z, d) => q = z
        BY <1>1 DEF LocksInv, OneHolder, SchedTypeOK
      <4> QED
        BY <2>4, <2>5, <4>1, <4>2 DEF OneHolder
    <3>2. ASSUME NEW q \in Processors, proc'[q].pc \in {"scan", "check"},
                 NEW k \in DOMAIN proc'[q].todo
          PROVE  InQueue(proc[q].todo[k], proc[q].level)'
      <4>1. CASE q # p
        <5>1. InQueue(proc[q].todo[k], proc[q].level) /\ proc'[q] = proc[q]
          BY Zenon, <1>1, <2>2, <3>2, <4>1 DEF LocksInv
        <5> QED
          BY Zenon, <1>2, <5>1 DEF InQueue
      <4>2. CASE q = p
        <5>1. PICK j \in DOMAIN proc[p].todo : proc[p].todo[j] = proc'[p].todo[k]
          BY Zenon, <1>e, <2>2, <3>2, <4>2
        <5>2. InQueue(proc[p].todo[j], proc[p].level)
          BY Zenon, <1>1, <5>1 DEF LocksInv
        <5> QED
          BY Zenon, <1>2, <2>2, <4>2, <5>1, <5>2 DEF InQueue
      <4> QED
        BY <4>1, <4>2
    <3>3. \A q \in Processors :
            proc'[q].pc \in {"check", "resume", "body", "release"} => proc'[q].cr # Nobody
      BY <1>1, <2>2 DEF LocksInv
    <3>4. \A d \in Routines : Filed(d)' =>
            (cr'[d].lock <=> \E q \in Processors : Holds(q, d)')
      BY Zenon, <1>1, <2>3, <2>4, <2>8 DEF LocksInv
    <3> QED
      BY Zenon, <3>1, <3>2, <3>3, <3>4 DEF LocksInv
  <2>12. WatchInv'
    <3> SUFFICES ASSUME NEW d \in Routines, Filed(d), cr[d].state = "SLEEP"
                 PROVE  \E q \in Processors : Watches(q, d)'
      BY Zenon, <2>3, <2>8 DEF WatchInv
    <3>1. PICK q \in Processors : Watches(q, d)
      BY Zenon, <1>1 DEF WatchInv
    <3>2. CASE q # p
      BY Zenon, <1>2, <2>2, <3>1, <3>2 DEF Watches, Holds
    <3>3. CASE q = p
      <4>1. CASE d = c
        BY Zenon, <2>2, <2>4, <4>1 DEF Watches
      <4>2. CASE proc[p].need_sleep \/ proc[p].level > Priority(d)
        BY Zenon, <2>2, <4>2 DEF Watches
      <4>3. CASE d # c /\ \E k \in DOMAIN proc[p].todo : proc[p].todo[k] = d
        <5>1. \E k \in DOMAIN r.todo : r.todo[k] = d
          BY <1>e, <2>2, <4>3
        <5> QED
          BY Zenon, <2>2, <5>1 DEF Watches
      <4> QED
        BY Zenon, <1>1, <3>1, <3>3, <4>1, <4>2, <4>3 DEF Watches, Holds
    <3> QED
      BY <3>2, <3>3
  <2>13. WaitingHasNoData'
    BY <1>1, <1>2, <2>3, StillNoData DEF Hungry
  <2> QED
    BY <2>6, <2>7, <2>10, <2>11, <2>12, <2>13 DEF VisitorInv
<1> QED
  BY <1>6, <1>7

\* A processor lets go of the routine it has: the lock is cleared, and no
\* other processor can have the routine.
LEMMA LettingGo ==
  ASSUME VisitorInv, NEW p \in Processors, NEW c \in Routines, Holds(p, c),
         NEW r \in Places, NEW o \in CRoutine,
         UNCHANGED <<id_cr, born, rq, op, ctx_stop>>,
         proc' = [proc EXCEPT ![p] = r], cr' = [cr EXCEPT ![c] = o],
         r.pc = "top" \/ (proc[p].pc = "check" /\ r.pc = "scan"),
         r.level = proc[p].level, r.todo = proc[p].todo, ~o.lock, o.state = cr[c].state,
         r.pc = "scan" /\ (proc[p].need_sleep \/ o.state = "SLEEP") => r.need_sleep
  PROVE  /\ QueuesInv' /\ OpsInv' /\ FiledInv' /\ FreshInv' /\ LocksInv' /\ WatchInv'
         /\ proc' \in [Processors -> Places] /\ cr' \in [Routines -> CRoutine]
<1>1. /\ SchedTypeOK /\ QueuesInv /\ OpsInv /\ FiledInv /\ FreshInv
      /\ LocksInv /\ WatchInv /\ OneHolder
  BY Zenon, Facts DEF LocksInv
<1>2. /\ proc' \in [Processors -> Places] /\ proc'[p] = r
      /\ \A q \in Processors : q # p => proc'[q] = proc[q]
  BY Zenon, <1>1 DEF SchedTypeOK
<1>3. /\ cr' \in [Routines -> CRoutine] /\ cr'[c] = o
      /\ \A d \in Routines : d # c => cr'[d] = cr[d]
  BY Zenon, <1>1 DEF SchedTypeOK
<1>4. \A q \in Processors, d \in Routines : Holds(q, d)' <=> Holds(q, d) /\ q # p
  BY Zenon, <1>2 DEF Holds
<1>5. \A q \in Processors, d \in Routines :
        /\ Holds(p, d) => d = c
        /\ Holds(q, c) => q = p
  BY Zenon, <1>1 DEF OneHolder, Holds, SchedTypeOK
<1>6. QueuesInv' /\ OpsInv'
  BY <1>1 DEF QueuesInv, OpsInv
<1>7. \A d \in Routines : /\ Filed(d)' <=> Filed(d)
                          /\ Enlisted(d)' <=> Enlisted(d)
                          /\ Fresh(d)' <=> Fresh(d)
  BY Zenon DEF Filed, InQueue, Enlisted, Fresh
<1>8. FiledInv' /\ FreshInv'
  BY <1>1, <1>3, <1>4, <1>7 DEF FiledInv, FreshInv
<1>9. LocksInv'
  <2>1. OneHolder'
    BY <1>1, <1>2, <1>3, <1>4 DEF OneHolder, SchedTypeOK
  <2>2. ASSUME NEW q \in Processors, proc'[q].pc \in {"scan", "check"},
               NEW k \in DOMAIN proc'[q].todo
        PROVE  InQueue(proc[q].todo[k], proc[q].level)'
    <3>1. /\ proc'[q].todo = proc[q].todo /\ proc'[q].level = proc[q].level
          /\ proc[q].pc \in {"scan", "check"}
      BY Zenon, <1>2, <2>2
    <3>2. InQueue(proc[q].todo[k], proc[q].level)
      BY Zenon, <1>1, <2>2, <3>1 DEF LocksInv
    <3> QED
      BY Zenon, <3>1, <3>2 DEF InQueue
  <2>3. \A q \in Processors :
          proc'[q].pc \in {"check", "resume", "body", "release"} => proc'[q].cr # Nobody
    BY Zenon, <1>1, <1>2 DEF LocksInv
  <2>4. \A d \in Routines : Filed(d)' =>
          (cr'[d].lock <=> \E q \in Processors : Holds(q, d)')
    BY <1>1, <1>3, <1>4, <1>5, <1>7 DEF LocksInv
  <2> QED
    BY Zenon, <2>1, <2>2, <2>3, <2>4 DEF LocksInv
<1>10. WatchInv'
  <2> SUFFICES ASSUME NEW d \in Routines, Filed(d), cr'[d].state = "SLEEP"
               PROVE  \E q \in Processors : Watches(q, d)'
    BY Zenon, <1>7 DEF WatchInv
  <2>1. cr[d].state = "SLEEP"
    BY Zenon, <1>3
  <2>2. PICK q \in Processors : Watches(q, d)
    BY Zenon, <1>1, <2>1 DEF WatchInv
  <2>3. CASE q # p
    BY <1>2, <2>2, <2>3 DEF Watches, Holds
  <2>4. CASE q = p /\ r.pc = "top"
    BY Zenon, <1>2, <2>4 DEF Watches
  <2>5. CASE q = p /\ r.pc = "scan" /\ d = c
    BY <1>2, <1>3, <2>5 DEF Watches
  <2>6. CASE q = p /\ r.pc = "scan" /\ d # c
    BY <1>2, <1>5, <2>2, <2>6 DEF Watches
  <2> QED
    BY Zenon, <2>3, <2>4, <2>5, <2>6
<1> QED
  BY Zenon, <1>2, <1>3, <1>6, <1>8, <1>9, <1>10

\* A processor keeps the routine it has, on its way to the end of a resume.
LEMMA Keeping ==
  ASSUME VisitorInv, NEW p \in Processors, NEW c \in Routines, Holds(p, c),
         NEW r \in Places, NEW o \in CRoutine,
         UNCHANGED <<id_cr, born, rq, op, ctx_stop>>,
         proc' = [proc EXCEPT ![p] = r], cr' = [cr EXCEPT ![c] = o],
         r.pc \in {"resume", "body", "release"}, r.cr = c,
         o.lock \/ o.lock = cr[c].lock
  PROVE  /\ QueuesInv' /\ OpsInv' /\ FiledInv' /\ FreshInv' /\ LocksInv' /\ WatchInv'
         /\ proc' \in [Processors -> Places] /\ cr' \in [Routines -> CRoutine]
<1>1. /\ SchedTypeOK /\ QueuesInv /\ OpsInv /\ FiledInv /\ FreshInv
      /\ LocksInv /\ WatchInv /\ OneHolder /\ Nobody \notin Routines
  BY Zenon, Facts DEF LocksInv
<1>2. /\ proc' \in [Processors -> Places] /\ proc'[p] = r
      /\ \A q \in Processors : q # p => proc'[q] = proc[q]
  BY Zenon, <1>1 DEF SchedTypeOK
<1>3. /\ cr' \in [Routines -> CRoutine] /\ cr'[c] = o
      /\ \A d \in Routines : d # c => cr'[d] = cr[d]
  BY Zenon, <1>1 DEF SchedTypeOK
<1>4. \A q \in Processors, d \in Routines : Holds(q, d)' <=> Holds(q, d)
  BY Zenon, <1>2 DEF Holds
<1>5. QueuesInv' /\ OpsInv'
  BY <1>1 DEF QueuesInv, OpsInv
<1>6. \A d \in Routines : /\ Filed(d)' <=> Filed(d)
                          /\ Enlisted(d)' <=> Enlisted(d)
                          /\ Fresh(d)' <=> Fresh(d)
  BY Zenon DEF Filed, InQueue, Enlisted, Fresh
<1>7. FiledInv' /\ FreshInv'
  BY <1>1, <1>3, <1>4, <1>6 DEF FiledInv, FreshInv
<1>8. LocksInv'
  <2>1. OneHolder'
    BY <1>1, <1>2, <1>3, <1>4 DEF OneHolder, SchedTypeOK
  <2>2. ASSUME NEW q \in Processors, proc'[q].pc \in {"scan", "check"},
               NEW k \in DOMAIN proc'[q].todo
        PROVE  InQueue(proc[q].todo[k], proc[q].level)'
    <3>1. proc'[q] = proc[q]
      BY Zenon, <1>2, <2>2
    <3>2. InQueue(proc[q].todo[k], proc[q].level)
      BY Zenon, <1>1, <2>2, <3>1 DEF LocksInv
    <3> QED
      BY Zenon, <3>1, <3>2 DEF InQueue
  <2>3. \A q \in Processors :
          proc'[q].pc \in {"check", "resume", "body", "release"} => proc'[q].cr # Nobody
    BY Zenon, <1>1, <1>2 DEF LocksInv
  <2>4. \A d \in Routines : Filed(d)' =>
          (cr'[d].lock <=> \E q \in Processors : Holds(q, d)')
    BY <1>1, <1>3, <1>4, <1>6 DEF LocksInv
  <2> QED
    BY Zenon, <2>1, <2>2, <2>3, <2>4 DEF LocksInv
<1>9. WatchInv'
  BY Zenon, <1>2 DEF WatchInv, Watches
<1> QED
  BY Zenon, <1>2, <1>3, <1>5, <1>7, <1>8, <1>9

\* UpdateState under the lock: a routine that is ready stays with the
\* processor, any other one is let go.
LEMMA Checking ==
  ASSUME VisitorInv, NEW p \in Processors, Check(p), UNCHANGED dataVars
  PROVE  VisitorInv'
<1>1. /\ TypeOK /\ SchedTypeOK /\ LocksInv /\ WaitingHasNoData
      /\ proc[p] \in Places /\ proc[p].pc = "check"
  BY Zenon, Facts DEF SchedTypeOK, Check
<1>2. /\ UNCHANGED <<id_cr, born, rq, op, ntf, stop, ctx_stop, running, main>>
      /\ UNCHANGED <<unread, begun, hooked, stage, missed, sender>>
  BY Zenon DEF Check, dataVars
<1>3. PICK c \in Routines : c = proc[p].cr
  BY Zenon, <1>1 DEF LocksInv, Places
<1>4. PICK u \in CRoutine :
        /\ u = Updated(c)
        /\ u.state = "READY" \/ u.state = cr[c].state
        /\ u.state = "DATA_WAIT" => u.updated = cr[c].updated
  <2>1. PICK o \in CRoutine : o = cr[c]
    BY <1>1 DEF SchedTypeOK
  <2>2. CASE o.state = "SLEEP" /\ c \in due
    <3>1. Updated(c) = [o EXCEPT !.state = "READY"]
      BY <2>1, <2>2 DEF Updated
    <3>2. /\ [o EXCEPT !.state = "READY"] \in CRoutine
          /\ [o EXCEPT !.state = "READY"].state = "READY"
      BY DEF CRoutine, States
    <3> QED
      BY Zenon, <3>1, <3>2
  <2>3. CASE ~(o.state = "SLEEP" /\ c \in due)
    <3> DEFINE s == IF o.updated /\ o.state \in {"DATA_WAIT", "IO_WAIT"}
                    THEN "READY" ELSE o.state
               v == [o EXCEPT !.updated = FALSE, !.state = s]
    <3>1. Updated(c) = v
      BY <2>1, <2>3 DEF Updated
    <3>2. v \in CRoutine /\ v.state = s /\ v.updated = FALSE
      BY Zenon DEF CRoutine, States
    <3>3. s = "DATA_WAIT" => o.updated = FALSE
      BY DEF CRoutine
    <3>4. /\ v.state = "READY" \/ v.state = cr[c].state
          /\ v.state = "DATA_WAIT" => v.updated = cr[c].updated
      BY Zenon, <2>1, <3>2, <3>3
    <3>5. v \in CRoutine
      BY <3>2
    <3> HIDE DEF v
    <3> QED
      BY <3>1, <3>4, <3>5
  <2> QED
    BY Zenon, <2>2, <2>3
<1>5. PICK o \in CRoutine :
        /\ cr' = [cr EXCEPT ![c] = o]
        /\ o.state = u.state /\ o.updated = u.updated /\ o.lock = (u.state = "READY")
  <2>1. cr' = [cr EXCEPT ![c] = [u EXCEPT !.lock = (u.state = "READY")]]
    BY Zenon, <1>3, <1>4 DEF Check
  <2>2. [u EXCEPT !.lock = (u.state = "READY")] \in CRoutine
    BY Zenon DEF CRoutine
  <2>3. /\ [u EXCEPT !.lock = (u.state = "READY")].state = u.state
        /\ [u EXCEPT !.lock = (u.state = "READY")].updated = u.updated
        /\ [u EXCEPT !.lock = (u.state = "READY")].lock = (u.state = "READY")
    BY DEF CRoutine
  <2> QED
    BY Zenon, <2>1, <2>2, <2>3
<1>6. Holds(p, c) /\ due' \subseteq Routines
  BY Zenon, <1>1, <1>3 DEF Holds, Check, SchedTypeOK
<1>7. WaitingHasNoData'
  <2>1. cr' \in [Routines -> CRoutine] /\ cr'[c] = o
        /\ \A d \in Routines : d # c => cr'[d] = cr[d]
    BY Zenon, <1>1, <1>5 DEF SchedTypeOK
  <2>2. \A d \in Routines : Hungry(d)' => Hungry(d) /\ (cr[d].updated => cr'[d].updated)
    BY <1>2, <1>4, <1>5, <2>1 DEF Hungry
  <2> QED
    BY Zenon, <1>1, <1>2, <2>1, <2>2, StillNoData
<1>8. CASE u.state = "READY"
  <2>1. PICK r \in Places : /\ r = [proc[p] EXCEPT !.pc = "resume", !.todo = << >>]
                            /\ proc' = [proc EXCEPT ![p] = r]
    <3>1. [proc[p] EXCEPT !.pc = "resume", !.todo = << >>] \in Places
      <4>1. << >> \in Seq(Routines)
        OBVIOUS
      <4> QED
        BY Zenon, <1>1, <4>1 DEF Places
    <3> QED
      BY Zenon, <1>3, <1>4, <1>8, <3>1 DEF Check
  <2>2. r.pc = "resume" /\ r.cr = c
    BY <1>1, <1>3, <2>1 DEF Places
  <2>3. /\ QueuesInv' /\ OpsInv' /\ FiledInv' /\ FreshInv' /\ LocksInv' /\ WatchInv'
        /\ proc' \in [Processors -> Places] /\ cr' \in [Routines -> CRoutine]
    BY Zenon, <1>2, <1>5, <1>6, <1>8, <2>1, <2>2, Keeping
  <2>4. TypeOK'
    BY Zenon, <1>1, <1>2, <1>6, <2>3 DEF TypeOK, SchedTypeOK
  <2> QED
    BY <1>7, <2>3, <2>4 DEF VisitorInv
<1>9. CASE u.state # "READY"
  <2>1. PICK r \in Places :
          /\ r = [proc[p] EXCEPT !.pc = "scan", !.cr = Nobody,
                                 !.need_sleep = proc[p].need_sleep \/ u.state = "SLEEP"]
          /\ proc' = [proc EXCEPT ![p] = r]
    <3>1. [proc[p] EXCEPT !.pc = "scan", !.cr = Nobody,
                          !.need_sleep = proc[p].need_sleep \/ u.state = "SLEEP"] \in Places
      BY Zenon, <1>1 DEF Places
    <3> QED
      BY Zenon, <1>3, <1>4, <1>9, <3>1 DEF Check
  <2>2. /\ r.pc = "scan" /\ r.level = proc[p].level /\ r.todo = proc[p].todo
        /\ r.need_sleep = (proc[p].need_sleep \/ u.state = "SLEEP")
    BY Zenon, <1>1, <2>1 DEF Places
  <2>3. /\ QueuesInv' /\ OpsInv' /\ FiledInv' /\ FreshInv' /\ LocksInv' /\ WatchInv'
        /\ proc' \in [Processors -> Places] /\ cr' \in [Routines -> CRoutine]
    BY Zenon, <1>1, <1>2, <1>4, <1>5, <1>6, <1>9, <2>1, <2>2, LettingGo
  <2>4. TypeOK'
    BY Zenon, <1>1, <1>2, <1>6, <2>3 DEF TypeOK, SchedTypeOK
  <2> QED
    BY <1>7, <2>3, <2>4 DEF VisitorInv
<1> QED
  BY <1>8, <1>9

\* CRoutine::Resume: a routine that was told to stop is finished, any other
\* one is swapped in.
LEMMA Resuming ==
  ASSUME VisitorInv, NEW p \in Processors, Resume(p), UNCHANGED dataVars
  PROVE  VisitorInv'
<1>1. /\ TypeOK /\ SchedTypeOK /\ LocksInv /\ WaitingHasNoData
      /\ proc[p] \in Places /\ proc[p].pc = "resume"
  BY Zenon, Facts DEF SchedTypeOK, Resume
<1>2. /\ UNCHANGED <<due, id_cr, born, rq, op, ntf, stop, ctx_stop, running, main>>
      /\ UNCHANGED <<unread, begun, hooked, stage, missed, sender>>
  BY Zenon DEF Resume, dataVars
<1>3. PICK c \in Routines : c = proc[p].cr
  BY Zenon, <1>1 DEF LocksInv, Places
<1>4. PICK o \in CRoutine :
        /\ cr' = [cr EXCEPT ![c] = o] /\ o.lock = cr[c].lock
        /\ o.state = "FINISHED" \/ o = cr[c]
  <2>1. PICK b \in CRoutine : b = cr[c]
    BY <1>1 DEF SchedTypeOK
  <2>2. CASE b.force_stop
    <3>1. cr' = [cr EXCEPT ![c] = [b EXCEPT !.state = "FINISHED"]]
      BY Zenon, <1>3, <2>1, <2>2 DEF Resume
    <3>2. /\ [b EXCEPT !.state = "FINISHED"] \in CRoutine
          /\ [b EXCEPT !.state = "FINISHED"].lock = b.lock
          /\ [b EXCEPT !.state = "FINISHED"].state = "FINISHED"
      BY DEF CRoutine, States
    <3> QED
      BY Zenon, <2>1, <3>1, <3>2
  <2>3. CASE ~b.force_stop
    <3>1. UNCHANGED cr
      BY Zenon, <1>3, <2>1, <2>3 DEF Resume
    <3>2. cr' = [cr EXCEPT ![c] = cr[c]]
      BY Zenon, <1>1, <3>1 DEF SchedTypeOK
    <3> QED
      BY Zenon, <2>1, <3>2
  <2> QED
    BY <2>2, <2>3
<1>5. PICK r \in Places : /\ proc' = [proc EXCEPT ![p] = r]
                          /\ r.pc \in {"body", "release"} /\ r.cr = c
  <2>1. PICK x \in {"body", "release"} :
          proc' = [proc EXCEPT ![p] = [proc[p] EXCEPT !.pc = x]]
    BY Zenon DEF Resume
  <2>2. /\ [proc[p] EXCEPT !.pc = x] \in Places
        /\ [proc[p] EXCEPT !.pc = x].pc = x /\ [proc[p] EXCEPT !.pc = x].cr = c
    BY <1>1, <1>3 DEF Places
  <2> QED
    BY Zenon, <2>1, <2>2
<1>6. Holds(p, c)
  BY <1>1, <1>3 DEF Holds
<1>7. /\ QueuesInv' /\ OpsInv' /\ FiledInv' /\ FreshInv' /\ LocksInv' /\ WatchInv'
      /\ proc' \in [Processors -> Places] /\ cr' \in [Routines -> CRoutine]
  BY Zenon, <1>2, <1>4, <1>5, <1>6, Keeping
<1>8. WaitingHasNoData'
  <2>1. cr'[c] = o /\ \A d \in Routines : d # c => cr'[d] = cr[d]
    BY Zenon, <1>1, <1>4 DEF SchedTypeOK
  <2>2. \A d \in Routines : Hungry(d)' => Hungry(d) /\ (cr[d].updated => cr'[d].updated)
    BY <1>2, <1>4, <2>1 DEF Hungry
  <2> QED
    BY Zenon, <1>1, <1>2, <1>7, <2>2, StillNoData
<1>9. TypeOK'
  BY Zenon, <1>1, <1>2, <1>7 DEF TypeOK, SchedTypeOK
<1> QED
  BY <1>7, <1>8, <1>9 DEF VisitorInv

\* The end of a round of Processor::Run.
LEMMA Releasing ==
  ASSUME VisitorInv, NEW p \in Processors, Release(p), UNCHANGED dataVars
  PROVE  VisitorInv'
<1>1. /\ TypeOK /\ SchedTypeOK /\ LocksInv /\ WaitingHasNoData
      /\ proc[p] \in Places /\ proc[p].pc = "release"
  BY Zenon, Facts DEF SchedTypeOK, Release
<1>2. /\ UNCHANGED <<due, id_cr, born, rq, op, ntf, stop, ctx_stop, running, main>>
      /\ UNCHANGED <<unread, begun, hooked, stage, missed, sender>>
  BY Zenon DEF Release, dataVars
<1>3. PICK c \in Routines : c = proc[p].cr
  BY Zenon, <1>1 DEF LocksInv, Places
<1>4. PICK o \in CRoutine :
        /\ cr' = [cr EXCEPT ![c] = o] /\ ~o.lock
        /\ o.state = cr[c].state /\ o.updated = cr[c].updated
  <2>1. PICK b \in CRoutine : b = cr[c]
    BY Zenon, <1>1 DEF SchedTypeOK
  <2>2. cr' = [cr EXCEPT ![c] = [b EXCEPT !.lock = FALSE]]
    BY Zenon, <1>3, <2>1 DEF Release
  <2>3. /\ [b EXCEPT !.lock = FALSE] \in CRoutine /\ ~[b EXCEPT !.lock = FALSE].lock
        /\ [b EXCEPT !.lock = FALSE].state = b.state
        /\ [b EXCEPT !.lock = FALSE].updated = b.updated
    BY Zenon DEF CRoutine
  <2> QED
    BY Zenon, <2>1, <2>2, <2>3
<1>5. PICK r \in Places : /\ proc' = [proc EXCEPT ![p] = r] /\ r.pc = "top"
                          /\ r.level = proc[p].level /\ r.todo = proc[p].todo
  <2>1. PICK b \in Places : b = proc[p]
    BY <1>1
  <2>2. proc' = [proc EXCEPT ![p] = [b EXCEPT !.pc = "top", !.cr = Nobody]]
    BY Zenon, <1>1, <2>1 DEF Release, SchedTypeOK
  <2>3. /\ [b EXCEPT !.pc = "top", !.cr = Nobody] \in Places
        /\ [b EXCEPT !.pc = "top", !.cr = Nobody].pc = "top"
        /\ [b EXCEPT !.pc = "top", !.cr = Nobody].level = b.level
        /\ [b EXCEPT !.pc = "top", !.cr = Nobody].todo = b.todo
    BY Zenon DEF Places
  <2> QED
    BY Zenon, <2>1, <2>2, <2>3
<1>6. Holds(p, c)
  BY <1>1, <1>3 DEF Holds
<1>7. /\ QueuesInv' /\ OpsInv' /\ FiledInv' /\ FreshInv' /\ LocksInv' /\ WatchInv'
      /\ proc' \in [Processors -> Places] /\ cr' \in [Routines -> CRoutine]
  BY Zenon, <1>2, <1>4, <1>5, <1>6, LettingGo
<1>8. WaitingHasNoData'
  <2>1. cr'[c] = o /\ \A d \in Routines : d # c => cr'[d] = cr[d]
    BY Zenon, <1>1, <1>4 DEF SchedTypeOK
  <2>2. \A d \in Routines : Hungry(d)' => Hungry(d) /\ (cr[d].updated => cr'[d].updated)
    BY <1>2, <1>4, <2>1 DEF Hungry
  <2> QED
    BY Zenon, <1>1, <1>2, <1>7, <2>2, StillNoData
<1>9. TypeOK'
  BY Zenon, <1>1, <1>2, <1>7 DEF TypeOK, SchedTypeOK
<1> QED
  BY <1>7, <1>8, <1>9 DEF VisitorInv

\* What the body of a routine may do to the scheduler: set its own state and
\* leave the processor.
LEMMA InBody ==
  ASSUME VisitorInv, NEW p \in Processors, NEW c \in Routines, Runs(p, c),
         UNCHANGED <<id_cr, born, rq, op, ctx_stop>>,
         UNCHANGED proc \/ SwapOut(p),
         UNCHANGED cr \/ \E s \in States : SetState(c, s)
  PROVE  /\ QueuesInv' /\ OpsInv' /\ FiledInv' /\ FreshInv' /\ LocksInv' /\ WatchInv'
         /\ proc' \in [Processors -> Places] /\ cr' \in [Routines -> CRoutine]
         /\ \A d \in Routines : d # c => cr'[d] = cr[d]
<1>1. /\ SchedTypeOK /\ proc[p].pc = "body" /\ proc[p].cr = c
      /\ proc[p] \in Places /\ cr[c] \in CRoutine
  BY Zenon, Facts DEF SchedTypeOK, Runs
<1>2. PICK o \in CRoutine : cr' = [cr EXCEPT ![c] = o] /\ o.lock = cr[c].lock
  <2>1. CASE UNCHANGED cr
    BY Zenon, <1>1, <2>1 DEF SchedTypeOK
  <2>2. ASSUME NEW s \in States, SetState(c, s)
        PROVE  \E o \in CRoutine : cr' = [cr EXCEPT ![c] = o] /\ o.lock = cr[c].lock
    <3>1. PICK b \in CRoutine : b = cr[c]
      BY <1>1
    <3>2. cr' = [cr EXCEPT ![c] = [b EXCEPT !.state = s]]
      BY Zenon, <2>2, <3>1 DEF SetState
    <3>3. [b EXCEPT !.state = s] \in CRoutine /\ [b EXCEPT !.state = s].lock = b.lock
      BY DEF CRoutine
    <3> QED
      BY Zenon, <3>1, <3>2, <3>3
  <2> QED
    BY <2>1, <2>2
<1>3. PICK r \in Places : /\ proc' = [proc EXCEPT ![p] = r]
                          /\ r.pc \in {"body", "release"} /\ r.cr = c
  <2>1. CASE UNCHANGED proc
    BY Zenon, <1>1, <2>1 DEF SchedTypeOK
  <2>2. CASE SwapOut(p)
    <3>1. PICK b \in Places : b = proc[p]
      BY <1>1
    <3>2. proc' = [proc EXCEPT ![p] = [b EXCEPT !.pc = "release"]]
      BY <2>2, <3>1 DEF SwapOut
    <3>3. /\ [b EXCEPT !.pc = "release"] \in Places
          /\ [b EXCEPT !.pc = "release"].pc = "release"
          /\ [b EXCEPT !.pc = "release"].cr = b.cr
      BY DEF Places
    <3> QED
      BY Zenon, <1>1, <3>1, <3>2, <3>3
  <2> QED
    BY <2>1, <2>2
<1>4. Holds(p, c)
  BY <1>1 DEF Holds
<1>5. \A d \in Routines : d # c => cr'[d] = cr[d]
  BY Zenon, <1>1, <1>2 DEF SchedTypeOK
<1> QED
  BY Zenon, <1>2, <1>3, <1>4, <1>5, Keeping

\* The routine announces that it waits before it looks at its buffer.
LEMMA Announcing ==
  ASSUME VisitorInv, NEW p \in Processors, NEW c \in Routines, AnnounceWait(p, c)
  PROVE  VisitorInv'
<1>1. TypeOK /\ SchedTypeOK /\ WaitingHasNoData
  BY Facts
<1>2. /\ UNCHANGED <<due, id_cr, born, rq, op, proc, ntf, stop, ctx_stop, running, main>>
      /\ UNCHANGED <<unread, begun, hooked, missed, sender>>
      /\ Runs(p, c) /\ stage' = [stage EXCEPT ![c] = "fetch"]
      /\ \E s \in States : SetState(c, s)
  BY DEF AnnounceWait, States
<1>3. /\ QueuesInv' /\ OpsInv' /\ FiledInv' /\ FreshInv' /\ LocksInv' /\ WatchInv'
      /\ proc' \in [Processors -> Places] /\ cr' \in [Routines -> CRoutine]
      /\ \A d \in Routines : d # c => cr'[d] = cr[d]
  BY Zenon, <1>2, InBody
<1>4. TypeOK'
  BY Zenon, <1>1, <1>2, <1>3 DEF TypeOK, SchedTypeOK
<1>5. stage'[c] = "fetch" /\ \A d \in Routines : d # c => stage'[d] = stage[d]
  BY Zenon, <1>1, <1>2 DEF TypeOK
<1>6. \A d \in Routines : Hungry(d)' => Hungry(d) /\ (cr[d].updated => cr'[d].updated)
  BY Zenon, <1>2, <1>3, <1>5 DEF Hungry
<1>7. WaitingHasNoData'
  BY Zenon, <1>1, <1>2, <1>3, <1>6, StillNoData
<1> QED
  BY <1>3, <1>4, <1>7 DEF VisitorInv

\* It leaves the processor if the buffer is empty.
LEMMA Fetching ==
  ASSUME VisitorInv, NEW p \in Processors, NEW c \in Routines, TryFetch(p, c)
  PROVE  VisitorInv'
<1>1. TypeOK /\ SchedTypeOK /\ WaitingHasNoData
  BY Facts
<1>2. /\ UNCHANGED <<cr, due, id_cr, born, rq, op, ntf, stop, ctx_stop, running, main>>
      /\ UNCHANGED <<hooked, sender>>
      /\ Runs(p, c) /\ (UNCHANGED proc \/ SwapOut(p))
  BY Zenon DEF TryFetch
<1>3. /\ QueuesInv' /\ OpsInv' /\ FiledInv' /\ FreshInv' /\ LocksInv' /\ WatchInv'
      /\ proc' \in [Processors -> Places] /\ cr' \in [Routines -> CRoutine]
  BY Zenon, <1>2, InBody
<1>4. unread[c] \in 0 .. BufferSize + 1 /\ BufferSize \in Nat
  BY <1>1, VisitorAssumption DEF TypeOK
<1>5. /\ TypeOK'
      /\ \A d \in Routines : Hungry(d)' => Hungry(d) /\ (cr[d].updated => cr'[d].updated)
  <2>1. CASE unread[c] = 0
    <3>1. UNCHANGED <<unread, begun, missed>> /\ stage' = [stage EXCEPT ![c] = "top"]
      BY <2>1 DEF TryFetch
    <3>2. \A d \in Routines : d # c => stage'[d] = stage[d]
      BY <1>1, <3>1 DEF TypeOK
    <3>3. ~Hungry(c)'
      BY <2>1, <3>1 DEF Hungry
    <3>4. \A d \in Routines : Hungry(d)' => Hungry(d) /\ (cr[d].updated => cr'[d].updated)
      BY Zenon, <1>2, <3>1, <3>2, <3>3 DEF Hungry
    <3>5. TypeOK'
      BY Zenon, <1>1, <1>2, <1>3, <3>1 DEF TypeOK, SchedTypeOK
    <3> QED
      BY <3>4, <3>5
  <2>2. CASE unread[c] # 0
    <3>1. /\ stage' = [stage EXCEPT ![c] = "func"] /\ begun' = begun \cup {c}
          /\ unread' = [unread EXCEPT ![c] = Left(c)] /\ missed' = missed \ {c}
      BY Zenon, <2>2 DEF TryFetch
    <3>2. \A d \in Routines : d # c => stage'[d] = stage[d] /\ unread'[d] = unread[d]
      BY <1>1, <3>1 DEF TypeOK
    <3>3. ~Hungry(c)'
      BY <1>1, <3>1 DEF Hungry, TypeOK
    <3>4. \A d \in Routines : Hungry(d)' => Hungry(d) /\ (cr[d].updated => cr'[d].updated)
      BY Zenon, <1>2, <3>1, <3>2, <3>3 DEF Hungry
    <3>5. Left(c) \in 0 .. BufferSize + 1
      BY <1>4, <2>2 DEF Left
    <3>6. TypeOK'
      BY Zenon, <1>1, <1>2, <1>3, <3>1, <3>5 DEF TypeOK, SchedTypeOK
    <3> QED
      BY <3>4, <3>6
  <2> QED
    BY <2>1, <2>2
<1>6. WaitingHasNoData'
  BY Zenon, <1>1, <1>2, <1>3, <1>5, StillNoData
<1> QED
  BY Zenon, <1>3, <1>5, <1>6 DEF VisitorInv

\* The handler sleeps, or returns.
LEMMA Handling ==
  ASSUME VisitorInv, NEW p \in Processors, NEW c \in Routines,
         SleepInFunc(p, c) \/ FuncDone(p, c)
  PROVE  VisitorInv'
<1>1. TypeOK /\ SchedTypeOK /\ WaitingHasNoData
  BY Facts
<1>2. PICK s \in {"SLEEP", "READY"} :
        /\ UNCHANGED <<due, id_cr, born, rq, op, ntf, stop, ctx_stop, running, main>>
        /\ UNCHANGED <<unread, begun, hooked, missed, sender>>
        /\ Runs(p, c) /\ SwapOut(p) /\ SetState(c, s)
        /\ \E t \in {"slept", "top"} : stage' = [stage EXCEPT ![c] = t]
  BY Zenon DEF SleepInFunc, FuncDone
<1>3. /\ QueuesInv' /\ OpsInv' /\ FiledInv' /\ FreshInv' /\ LocksInv' /\ WatchInv'
      /\ proc' \in [Processors -> Places] /\ cr' \in [Routines -> CRoutine]
      /\ \A d \in Routines : d # c => cr'[d] = cr[d]
  BY Zenon, <1>2, InBody DEF States
<1>4. stage' \in [Routines -> {"top", "fetch", "func", "slept"}]
  BY Zenon, <1>1, <1>2 DEF TypeOK
<1>e. TypeOK'
  BY Zenon, <1>1, <1>2, <1>3, <1>4 DEF TypeOK, SchedTypeOK
<1>5. cr'[c].state = s /\ \A d \in Routines : d # c => stage'[d] = stage[d]
  BY <1>1, <1>2 DEF TypeOK, SchedTypeOK, SetState, CRoutine
<1>6. \A d \in Routines : Hungry(d)' => Hungry(d) /\ (cr[d].updated => cr'[d].updated)
  BY Zenon, <1>2, <1>3, <1>5 DEF Hungry
<1>7. WaitingHasNoData'
  BY Zenon, <1>1, <1>2, <1>3, <1>6, StillNoData
<1> QED
  BY <1>3, <1>e, <1>7 DEF VisitorInv

\* Time passes, and a wait ends for no reason.
LEMMA Passing ==
  ASSUME VisitorInv, UNCHANGED dataVars,
         \/ \E c \in Routines : WakeTime(c)
         \/ \E p \in Processors : EndOfNap(p) \/ Spurious(p)
  PROVE  VisitorInv'
<1>1. TypeOK /\ SchedTypeOK /\ WaitingHasNoData
  BY Facts
<1>2. /\ UNCHANGED <<cr, id_cr, born, rq, op, ntf, stop, ctx_stop, running, main>>
      /\ UNCHANGED <<unread, begun, hooked, stage, missed, sender>>
      /\ due' \subseteq Routines
  BY Zenon, <1>1 DEF WakeTime, EndOfNap, Spurious, dataVars, SchedTypeOK
<1>3. Woken
  BY <1>1 DEF WakeTime, EndOfNap, Spurious, Woken, SchedTypeOK
<1>4. /\ QueuesInv' /\ OpsInv' /\ FiledInv' /\ FreshInv' /\ LocksInv' /\ WatchInv'
      /\ proc' \in [Processors -> Places]
  BY Zenon, <1>2, <1>3, OnlyWaking
<1>5. TypeOK'
  BY Zenon, <1>1, <1>2, <1>4 DEF TypeOK, SchedTypeOK
<1>6. WaitingHasNoData'
  BY <1>1, <1>2 DEF WaitingHasNoData
<1> QED
  BY <1>4, <1>5, <1>6 DEF VisitorInv

\* Shutdown moves on without touching a routine.
LEMMA ShuttingDown ==
  ASSUME VisitorInv, UNCHANGED dataVars,
         \/ Shutdown \/ ListRoutines \/ StopProcessors \/ Join
         \/ \E p \in Processors : ShutContext(p) \/ StopProcessor(p)
         \/ \E i \in Ids : ShutRemove(i) /\ id_cr[i] = Nobody
  PROVE  VisitorInv'
<1>1. TypeOK /\ SchedTypeOK /\ WaitingHasNoData /\ main \in MainPlaces
  BY Zenon, Facts DEF SchedTypeOK, MainPlaces
<1>2. /\ UNCHANGED <<cr, due, id_cr, born, rq, op, ntf>>
      /\ UNCHANGED <<unread, begun, hooked, stage, missed, sender>>
      /\ UNCHANGED proc \/ proc' = NotifyAll
      /\ ctx_stop \subseteq ctx_stop' /\ ctx_stop' \subseteq Processors
      /\ running' \subseteq Processors
      /\ stop' \in BOOLEAN /\ (stop => stop')
  BY Zenon, <1>1 DEF Shutdown, ListRoutines, StopProcessors, Join, ShutContext,
              StopProcessor, ShutRemove, dataVars, SchedTypeOK
<1>3. main' \in MainPlaces
  <2>1. PICK m \in MainPlaces : m = main
    BY <1>1
  <2>2. \A v \in {"contexts", "remove", "stop", "join", "done"} :
          \A w \in SUBSET (Processors \cup Ids) :
            \A e \in SUBSET Ids :
              /\ [m EXCEPT !.pc = v] \in MainPlaces
              /\ [m EXCEPT !.left = w] \in MainPlaces
              /\ [m EXCEPT !.pc = v, !.left = w] \in MainPlaces
              /\ [m EXCEPT !.left = w, !.pc = v] \in MainPlaces
              /\ [m EXCEPT !.left = w, !.erasing = e] \in MainPlaces
    BY Zenon DEF MainPlaces
  <2>3. m.left \subseteq Processors \cup Ids
    BY DEF MainPlaces
  <2>4. CASE Shutdown
    BY Zenon, <2>1, <2>2, <2>4 DEF Shutdown
  <2>5. CASE ListRoutines
    <3>1. {i \in Ids : id_cr[i] # Nobody} \in SUBSET (Processors \cup Ids)
      OBVIOUS
    <3> QED
      BY Zenon, <2>1, <2>2, <2>5, <3>1 DEF ListRoutines
  <2>6. CASE StopProcessors
    BY Zenon, <2>1, <2>2, <2>6 DEF StopProcessors
  <2>7. CASE Join
    BY Zenon, <2>1, <2>2, <2>7 DEF Join
  <2>8. ASSUME NEW p \in Processors, ShutContext(p)
        PROVE  main' \in MainPlaces
    <3>1. m.left \ {p} \in SUBSET (Processors \cup Ids)
      BY <2>3
    <3> QED
      BY Zenon, <2>1, <2>2, <2>8, <3>1 DEF ShutContext
  <2>9. ASSUME NEW p \in Processors, StopProcessor(p)
        PROVE  main' \in MainPlaces
    <3>1. m.left \ {p} \in SUBSET (Processors \cup Ids)
      BY <2>3
    <3> QED
      BY Zenon, <2>1, <2>2, <2>9, <3>1 DEF StopProcessor
  <2>10. ASSUME NEW i \in Ids, ShutRemove(i)
         PROVE  main' \in MainPlaces
    <3>1. m.left \ {i} \in SUBSET (Processors \cup Ids) /\ {i} \in SUBSET Ids
      BY <2>3
    <3> QED
      BY Zenon, <2>1, <2>2, <2>10, <3>1 DEF ShutRemove
  <2> QED
    BY <2>4, <2>5, <2>6, <2>7, <2>8, <2>9, <2>10
<1>4. Woken
  BY Zenon, <1>1, <1>2, Notifying DEF Woken, SchedTypeOK
<1>5. /\ QueuesInv' /\ OpsInv' /\ FiledInv' /\ FreshInv' /\ LocksInv' /\ WatchInv'
      /\ proc' \in [Processors -> Places]
  BY Zenon, <1>2, <1>4, OnlyWaking
<1>6. TypeOK'
  BY Zenon, <1>1, <1>2, <1>3, <1>5 DEF TypeOK, SchedTypeOK, MainPlaces
<1>7. WaitingHasNoData'
  BY <1>1, <1>2 DEF WaitingHasNoData
<1> QED
  BY <1>5, <1>6, <1>7 DEF VisitorInv

\* RemoveTask and Shutdown take a routine out of the id table alike.
LEMMA Removing ==
  ASSUME VisitorInv, UNCHANGED dataVars, NEW i \in Ids,
         RemoveTask(i) \/ (ShutRemove(i) /\ id_cr[i] # Nobody)
  PROVE  VisitorInv'
<1>1. main \in MainPlaces
  BY Zenon, Facts DEF SchedTypeOK, MainPlaces
<1>2. main' \in MainPlaces
  <2>1. CASE RemoveTask(i)
    BY Zenon, <1>1, <2>1 DEF RemoveTask, Unregister
  <2>2. CASE ShutRemove(i)
    <3>1. PICK m \in MainPlaces : m = main
      BY <1>1
    <3>2. \A w \in SUBSET (Processors \cup Ids) :
            [m EXCEPT !.left = w, !.erasing = {i}] \in MainPlaces
      BY Zenon DEF MainPlaces
    <3>3. m.left \ {i} \in SUBSET (Processors \cup Ids)
      BY DEF MainPlaces
    <3> QED
      BY Zenon, <2>2, <3>1, <3>2, <3>3 DEF ShutRemove
  <2> QED
    BY <2>1, <2>2
<1>3. /\ op[i] = Idle /\ id_cr[i] # Nobody
      /\ cr' = [cr EXCEPT ![id_cr[i]].force_stop = TRUE]
      /\ id_cr' = [id_cr EXCEPT ![i] = Nobody]
      /\ op' = [op EXCEPT ![i] = [pc |-> "erase", cr |-> id_cr[i]]]
      /\ UNCHANGED <<due, born, rq, proc, ntf, stop, ctx_stop, running>>
  BY Zenon DEF RemoveTask, Unregister, ShutRemove
<1> QED
  BY Zenon, <1>2, <1>3, Unregistering DEF MainPlaces

\* A message enters the buffer, or the callback is installed.
LEMMA Delivering ==
  ASSUME VisitorInv,
         \/ \E c \in Routines : RegisterNotifyCallback(c)
         \/ \E n \in Notifiers, c \in Routines : Fill(n, c)
  PROVE  VisitorInv'
<1>1. TypeOK /\ SchedTypeOK /\ WaitingHasNoData
  BY Facts
<1>2. UNCHANGED <<cr, due, id_cr, born, rq, op, proc, ntf, stop, ctx_stop, running, main>>
  BY Zenon DEF RegisterNotifyCallback, Fill, schedVars
<1>3. /\ QueuesInv' /\ OpsInv' /\ FiledInv' /\ FreshInv' /\ LocksInv' /\ WatchInv'
  BY Zenon, <1>1, <1>2, Aside DEF SchedTypeOK
<1>4. CASE \E c \in Routines : RegisterNotifyCallback(c)
  <2>1. UNCHANGED <<unread, begun, stage, missed, sender>> /\ hooked' \subseteq Routines
    BY <1>1, <1>4 DEF RegisterNotifyCallback, TypeOK
  <2>2. TypeOK'
    BY Zenon, <1>1, <1>2, <2>1 DEF TypeOK, SchedTypeOK
  <2>3. WaitingHasNoData'
    BY <1>1, <1>2, <2>1 DEF WaitingHasNoData
  <2> QED
    BY <1>3, <2>2, <2>3 DEF VisitorInv
<1>5. ASSUME NEW n \in Notifiers, NEW c \in Routines, Fill(n, c)
      PROVE  VisitorInv'
  <2>1. /\ UNCHANGED <<begun, hooked, stage, missed>>
        /\ sender[n] = Nobody /\ sender' = [sender EXCEPT ![n] = c]
    BY Zenon, <1>5 DEF Fill
  <2>2. PICK u \in 0 .. BufferSize + 1 : unread' = [unread EXCEPT ![c] = u]
    <3>1. PICK v \in 0 .. BufferSize + 1 : v = unread[c]
      BY <1>1 DEF TypeOK
    <3>2. (IF c \notin begun THEN 1 ELSE IF v > BufferSize THEN v ELSE v + 1)
            \in 0 .. BufferSize + 1
      BY VisitorAssumption
    <3>3. unread' = [unread EXCEPT ![c] =
                      IF c \notin begun THEN 1
                      ELSE IF v > BufferSize THEN v ELSE v + 1]
      BY Zenon, <1>5, <3>1 DEF Fill
    <3> QED
      BY Zenon, <3>2, <3>3
  <2>3. TypeOK'
    BY Zenon, <1>1, <1>2, <2>1, <2>2 DEF TypeOK, SchedTypeOK
  <2>4. /\ \A d \in Routines : d # c => unread'[d] = unread[d]
        /\ sender'[n] = c /\ \A m \in Notifiers : m # n => sender'[m] = sender[m]
        /\ DOMAIN ntf = Notifiers /\ DOMAIN cr = Routines
    BY Zenon, <1>1, <2>1, <2>2 DEF TypeOK, SchedTypeOK
  <2>5. Nobody \notin Routines
    BY Facts
  <2>6. WaitingHasNoData'
    BY <1>1, <1>2, <2>1, <2>4, <2>5 DEF WaitingHasNoData
  <2> QED
    BY <1>3, <2>3, <2>6 DEF VisitorInv
<1> QED
  BY <1>4, <1>5

\* The callback of a routine that waits will set its flag.
LEMMA Calling ==
  ASSUME VisitorInv, NEW n \in Notifiers, Callback(n)
  PROVE  VisitorInv'
<1>1. /\ TypeOK /\ SchedTypeOK /\ WaitingHasNoData /\ OpsInv /\ Nobody \notin Routines
      /\ \A c \in Routines : Id[c] \in Ids
  BY Facts
<1>2. UNCHANGED <<cr, due, id_cr, born, rq, op, proc, stop, ctx_stop, running, main,
                  unread, begun, hooked, stage>>
  BY DEF Callback
<1>3. QueuesInv' /\ OpsInv' /\ FiledInv' /\ FreshInv' /\ LocksInv' /\ WatchInv'
  BY Zenon, <1>1, <1>2, Aside DEF SchedTypeOK
<1>4. PICK c \in Routines : /\ sender[n] = c
                            /\ sender' = [sender EXCEPT ![n] = Nobody]
  BY Zenon, <1>1 DEF Callback, TypeOK
<1>5. /\ \A m \in Notifiers : m # n => sender'[m] = sender[m]
      /\ DOMAIN ntf = Notifiers /\ DOMAIN cr = Routines
  BY Zenon, <1>1, <1>4 DEF TypeOK, SchedTypeOK
<1>6. CASE c \notin hooked
  <2>1. UNCHANGED ntf /\ missed' = missed \cup {c}
    BY <1>4, <1>6 DEF Callback
  <2>2. TypeOK'
    BY Zenon, <1>1, <1>2, <1>4, <2>1 DEF TypeOK, SchedTypeOK
  <2>3. WaitingHasNoData'
    BY <1>1, <1>2, <1>4, <1>5, <2>1 DEF WaitingHasNoData
  <2> QED
    BY <1>3, <2>2, <2>3 DEF VisitorInv
<1>7. CASE c \in hooked
  <2>1. StartNotify(n, Id[c]) /\ UNCHANGED missed
    BY <1>4, <1>7 DEF Callback
  <2>2. PICK r \in [pc : {"idle", "flag", "wake"}, cr : Routines \cup {Nobody}] :
          /\ ntf[n] = Idle /\ ntf' = [ntf EXCEPT ![n] = r]
          /\ ~stop /\ id_cr[Id[c]] = c /\ cr[c].state = "DATA_WAIT"
               => r.pc = "flag" /\ r.cr = c
    <3>1. PICK b \in Routines \cup {Nobody} : b = id_cr[Id[c]]
      BY Zenon, <1>1 DEF SchedTypeOK
    <3> DEFINE f == IF cr[b].state = "DATA_WAIT" THEN "flag" ELSE "wake"
               r == IF stop \/ b = Nobody THEN [pc |-> "idle", cr |-> Nobody]
                    ELSE [pc |-> f, cr |-> b]
    <3>2. ntf[n] = Idle /\ ntf' = [ntf EXCEPT ![n] = r]
      BY Zenon, <2>1, <3>1 DEF StartNotify, Idle
    <3>3. f \in {"flag", "wake"}
      OBVIOUS
    <3>4. r \in [pc : {"idle", "flag", "wake"}, cr : Routines \cup {Nobody}]
      BY <3>3
    <3>5. ~stop /\ b = c /\ cr[c].state = "DATA_WAIT" => r.pc = "flag" /\ r.cr = c
      BY <1>1
    <3> QED
      BY Zenon, <3>1, <3>2, <3>4, <3>5
  <2>3. /\ ntf' \in [Notifiers -> [pc : {"idle", "flag", "wake"},
                                   cr : Routines \cup {Nobody}]]
        /\ ntf'[n] = r /\ \A m \in Notifiers : m # n => ntf'[m] = ntf[m]
    BY Zenon, <1>1, <2>2 DEF SchedTypeOK
  <2>4. TypeOK'
    BY Zenon, <1>1, <1>2, <1>4, <2>1, <2>3 DEF TypeOK, SchedTypeOK
  <2>5. ASSUME NEW d \in Routines, Hungry(d)', ~stop', ~cr'[d].updated
        PROVE  \E m \in Notifiers : \/ sender'[m] = d
                                    \/ ntf'[m].pc = "flag" /\ ntf'[m].cr = d
    <3>1. Hungry(d) /\ ~stop /\ ~cr[d].updated
      BY Zenon, <1>2, <2>1, <2>5 DEF Hungry
    <3>2. PICK m \in Notifiers : sender[m] = d \/ (ntf[m].pc = "flag" /\ ntf[m].cr = d)
      BY Zenon, <1>1, <1>5, <3>1 DEF WaitingHasNoData, Hungry
    <3>3. CASE m # n
      BY Zenon, <1>5, <2>3, <3>2, <3>3
    <3>4. CASE m = n
      <4>1. d = c
        BY <1>4, <2>2, <3>2, <3>4 DEF Idle
      <4> QED
        BY Zenon, <2>2, <2>3, <3>1, <4>1 DEF Hungry
    <3> QED
      BY <3>3, <3>4
  <2>6. DOMAIN ntf' = Notifiers /\ DOMAIN cr' = Routines
    BY Zenon, <1>2, <1>5, <2>3
  <2>7. WaitingHasNoData'
    BY Zenon, <2>5, <2>6 DEF WaitingHasNoData, Hungry
  <2> QED
    BY <1>3, <2>4, <2>7 DEF VisitorInv
<1> QED
  BY <1>6, <1>7

\* Every step preserves the invariant.
LEMMA NextInv ==
  ASSUME VisitorInv, [Next]_vars
  PROVE  VisitorInv'
<1>1. CASE SchedulerStep /\ UNCHANGED dataVars
  <2>1. ASSUME NEW p \in Processors, ProcessorStep(p) \/ Spurious(p)
        PROVE  VisitorInv'
    BY Zenon, <1>1, <2>1, Topping, GoingDown, Acquiring, Checking, Resuming, Releasing,
       BeginningToWait, Passing DEF ProcessorStep
  <2>2. ASSUME NEW c \in Routines, CreateTask(c) \/ Register(c) \/ WakeTime(c)
        PROVE  VisitorInv'
    BY <1>1, <2>2, Creating, Registering, Passing
  <2>3. ASSUME NEW i \in Ids, RemoveTask(i) \/ TaskStep(i)
        PROVE  VisitorInv'
    BY <1>1, <2>3, Removing, Enqueueing, Created, Erasing DEF TaskStep
  <2>4. ASSUME NEW n \in Notifiers, NotifierStep(n)
        PROVE  VisitorInv'
    BY <1>1, <2>4, Flagging, WakingOne DEF NotifierStep
  <2>5. CASE Shutdown \/ ShutdownStep
    <3>1. ASSUME NEW i \in Ids, ShutRemove(i)
          PROVE  VisitorInv'
      BY <1>1, <3>1, ShuttingDown, Removing
    <3> QED
      BY <1>1, <2>5, <3>1, ShuttingDown DEF ShutdownStep
  <2> QED
    BY <1>1, <2>1, <2>2, <2>3, <2>4, <2>5 DEF SchedulerStep
<1>2. CASE \E c \in Routines : RegisterNotifyCallback(c)
  BY <1>2, Delivering
<1>3. CASE \E n \in Notifiers : Callback(n) \/ \E c \in Routines : Fill(n, c)
  BY <1>3, Delivering, Calling
<1>4. CASE \E p \in Processors : Body(p)
  BY <1>4, Announcing, Fetching, Handling DEF Body
<1>5. CASE UNCHANGED vars
  <2>1. TypeOK /\ SchedTypeOK /\ WaitingHasNoData
    BY Facts
  <2>2. QueuesInv' /\ OpsInv' /\ FiledInv' /\ FreshInv' /\ LocksInv' /\ WatchInv'
    BY Zenon, <1>5, <2>1, Aside DEF SchedTypeOK, vars
  <2>3. TypeOK' /\ WaitingHasNoData'
    BY <1>5, <2>1 DEF TypeOK, SchedTypeOK, WaitingHasNoData, vars
  <2> QED
    BY <2>2, <2>3 DEF VisitorInv
<1> QED
  BY <1>1, <1>2, <1>3, <1>4, <1>5 DEF Next

\* The invariant holds whatever the number of processors, routines, levels and
\* notifying threads: the tables have their shapes, the queues, the id table
\* and the locks agree at every point of DispatchTask, RemoveCRoutine and
\* NextRoutine.
THEOREM SchedulerIsSound == SafetySpec => []VisitorInv
<1>1. VisitorInit => VisitorInv
  BY InitialInv
<1>2. VisitorInv /\ [Next]_vars => VisitorInv'
  BY NextInv
<1> QED
  BY <1>1, <1>2, PTL DEF SafetySpec

\* A routine is looked at or run by one processor at a time, and the queues
\* hold the registered routines: OneRunner of ClassicScheduler.
THEOREM OneProcessorPerRoutine == SafetySpec => []OneRunner
<1>1. ASSUME VisitorInv
      PROVE  OneRunner
  <2>1. /\ SchedTypeOK /\ QueuesInv /\ OpsInv /\ FiledInv /\ LocksInv
        /\ \A c \in Routines : Id[c] \in Ids /\ Priority(c) \in Levels
        /\ Nobody \notin Routines
    BY <1>1, Facts
  <2>2. ASSUME NEW i \in Ids, op[i] = Idle, NEW c \in Routines, Id[c] = i
        PROVE  (\E l \in Levels : InQueue(c, l)) <=> id_cr[i] = c
    <3>1. \A l \in Levels : InQueue(c, l) => l = Priority(c)
      BY <2>1 DEF QueuesInv, InQueue
    <3>2. (\E l \in Levels : InQueue(c, l)) <=> Filed(c)
      BY <2>1, <3>1 DEF Filed
    <3>3. op[i].pc = "idle"
      BY <2>2 DEF Idle
    <3>4. Enlisted(c) <=> id_cr[i] = c
      BY <2>2, <3>3 DEF Enlisted
    <3> QED
      BY <2>1, <3>2, <3>4 DEF FiledInv
  <2>3. DOMAIN op = Ids /\ DOMAIN cr = Routines /\ DOMAIN rq = Levels
    BY <2>1 DEF SchedTypeOK
  <2>4. QueuesMatchIds
    BY <2>2, <2>3 DEF QueuesMatchIds
  <2> QED
    BY Zenon, <2>1, <2>4 DEF OneRunner, LocksInv
<1> QED
  BY <1>1, SchedulerIsSound, PTL

\* Neither a sleeping routine nor one whose buffer holds a message is
\* forgotten: NobodyForgotten of VisitorRoutine.
THEOREM SleepersAndReadersAreSeen == SafetySpec => []NobodyForgotten
<1>1. ASSUME VisitorInv
      PROVE  NobodyForgotten
  <2>1. /\ SchedTypeOK /\ QueuesInv /\ WatchInv /\ WaitingHasNoData
        /\ \A c \in Routines : Priority(c) \in Levels
    BY <1>1, Facts
  <2>2. ASSUME NEW c \in Routines, NEW l \in Levels, InQueue(c, l),
               cr[c].state = "SLEEP"
        PROVE  \E p \in Processors : proc[p].pc # "asleep"
    <3>1. Filed(c)
      BY <2>1, <2>2 DEF QueuesInv, InQueue, Filed
    <3>2. PICK p \in Processors : Watches(p, c)
      BY <2>1, <2>2, <3>1 DEF WatchInv
    <3> QED
      BY Zenon, <3>2 DEF Watches
  <2>3. DOMAIN cr = Routines /\ DOMAIN rq = Levels /\ DOMAIN proc = Processors
    BY <2>1 DEF SchedTypeOK
  <2> QED
    BY <2>1, <2>2, <2>3 DEF NobodyForgotten, SleeperIsWatched
<1> QED
  BY <1>1, SchedulerIsSound, PTL

\* A processor enters the body of a routine only through Resume, which tests
\* force_stop_.
LEMMA Entering ==
  ASSUME VisitorInv, [Next]_vars, NEW q \in Processors, proc'[q].pc = "body"
  PROVE  /\ proc'[q].cr = proc[q].cr
         /\ proc[q].pc = "body" \/ ~cr[proc[q].cr].force_stop
<1>1. TypeOK /\ SchedTypeOK /\ proc \in [Processors -> Places]
  BY Zenon, Facts DEF SchedTypeOK
<1>2. ASSUME Woken
      PROVE  proc'[q] = proc[q]
  BY Zenon, <1>1, <1>2 DEF Woken, Awake, Places
<1>4. ASSUME NEW p \in Processors, ProcessorStep(p) \/ Spurious(p)
      PROVE  /\ proc'[q].cr = proc[q].cr
             /\ proc[q].pc = "body" \/ ~cr[proc[q].cr].force_stop
  <2>2. CASE Resume(p)
    <3>1. CASE p = q
      BY <1>1, <2>2, <3>1 DEF Resume, Places
    <3>2. CASE p # q
      BY Zenon, <1>1, <2>2, <3>2 DEF Resume
    <3> QED
      BY Zenon, <3>1, <3>2
  <2>3. CASE Top(p)
    BY <1>1, <2>3 DEF Top, Places
  <2>4. CASE NextLevel(p)
    BY Zenon, <1>1, <2>4 DEF NextLevel, Places
  <2>5. CASE Acquire(p)
    BY Zenon, <1>1, <2>5 DEF Acquire, Places
  <2>6. CASE Check(p)
    BY <1>1, <2>6 DEF Check, Places
  <2>7. CASE Release(p)
    BY Zenon, <1>1, <2>7 DEF Release, Places
  <2>8. CASE Wait(p)
    BY <1>1, <2>8 DEF Wait, Places
  <2>9. CASE EndOfNap(p) \/ Spurious(p)
    <3>1. Woken
      BY Zenon, <1>1, <2>9 DEF EndOfNap, Spurious, Woken
    <3> QED
      BY <1>2, <3>1
  <2> QED
    BY Zenon, <1>4, <2>2, <2>3, <2>4, <2>5, <2>6, <2>7, <2>8, <2>9 DEF ProcessorStep
<1>5. CASE NotifyOne \/ proc' = NotifyAll
  BY <1>1, <1>2, <1>5, Notifying
<1>6. CASE UNCHANGED proc
  BY <1>6
<1>7. ASSUME NEW p \in Processors, SwapOut(p)
      PROVE  proc'[q] = proc[q]
  BY <1>1, <1>7 DEF SwapOut, Places
<1>8. \/ \E p \in Processors : ProcessorStep(p) \/ Spurious(p) \/ SwapOut(p)
      \/ NotifyOne \/ proc' = NotifyAll \/ UNCHANGED proc
  BY Zenon DEF Next, SchedulerStep, CreateTask, Register, WakeTime, RemoveTask, Unregister,
         TaskStep, Enqueue, NotifyCreated, Erase, NotifierStep, SetUpdateFlag, Notify,
         Shutdown, ShutdownStep, ListRoutines, StopProcessors, Join, ShutContext,
         StopProcessor, ShutRemove, RegisterNotifyCallback, Callback, Fill, Body,
         AnnounceWait, TryFetch, SleepInFunc, FuncDone, vars, schedVars
<1> QED
  BY Zenon, <1>4, <1>5, <1>6, <1>7, <1>8

\* A stopped routine that is off the processors never gets one again:
\* StoppedStaysStopped of ClassicScheduler.
THEOREM RemovedNeverRuns == SafetySpec => StoppedStaysStopped
<1>1. ASSUME VisitorInv, [Next]_vars
      PROVE  StaysStopped
  <2>1. ASSUME NEW c \in Routines, cr[c].force_stop,
               \A p \in Processors : ~Runs(p, c), NEW q \in Processors, Runs(q, c)'
        PROVE  FALSE
    BY Zenon, <1>1, <2>1, Entering DEF Runs
  <2>2. DOMAIN cr = Routines /\ DOMAIN proc = Processors
    BY Zenon, <1>1, Facts DEF SchedTypeOK
  <2> QED
    BY <2>1, <2>2 DEF StaysStopped
<1>2. ASSUME VisitorInv, [Next]_vars
      PROVE  [StaysStopped]_schedVars
  BY <1>1, <1>2
<1> QED
  BY <1>2, SchedulerIsSound, PTL DEF SafetySpec, StoppedStaysStopped
============================================================================
