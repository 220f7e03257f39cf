--------------------------- MODULE VisitorRoutine ---------------------------
(***************************************************************************)
(* Data-driven routines on the classic scheduler: the routine body of      *)
(* croutine/routine_factory.h, and the threads that receive messages and   *)
(* go through DataDispatcher::Dispatch and DataNotifier::Notify            *)
(* (data/data_dispatcher.h, data/data_notifier.h).                         *)
(*                                                                         *)
(* A buffer is the number of messages its routine has not fetched; more    *)
(* than BufferSize means that the oldest of them has been overwritten, and *)
(* then, as for its first fetch, the routine takes the newest one.         *)
(***************************************************************************)
EXTENDS ClassicScheduler

CONSTANT BufferSize   \* pending_queue_size of the channel buffers

ASSUME VisitorAssumption == SchedulerAssumption /\ BufferSize \in Nat \ {0}

VARIABLES
  unread,    \* unread[c]: messages in c's buffer past its index
  begun,     \* routines that have fetched a message
  hooked,    \* routines whose visitor has the notify callback
  stage,     \* stage[c]: where the body of c continues
  missed,    \* history: routines with a message that met no callback
  sender     \* sender[n]: the message thread n is dispatching, and to whom

dataVars == <<unread, begun, hooked, stage, missed, sender>>
vars == <<cr, due, id_cr, born, rq, op, proc, ntf, stop, ctx_stop, running,
          main, unread, begun, hooked, stage, missed, sender>>

DataInit ==
  /\ unread = [c \in Routines |-> 0]
  /\ begun = {}
  /\ hooked = {}
  /\ stage = [c \in Routines |-> "top"]
  /\ missed = {}
  /\ sender = [n \in Notifiers |-> Nobody]

VisitorInit == Init /\ DataInit

\* the end of CreateTask: RegisterNotifyCallback, after DispatchTask returned
RegisterNotifyCallback(c) ==
  /\ born[c] = "created" /\ c \notin hooked
  /\ hooked' = hooked \cup {c}
  /\ UNCHANGED <<schedVars, unread, begun, stage, missed, sender>>

(***************************************************************************)
(* Dispatch: the message enters the buffer, then the callback is called.   *)
(* The visitor of a routine lives from CreateTask until the task is        *)
(* removed.                                                                *)
(***************************************************************************)
Visiting(c) == born[c] \in {"creating", "registered", "created"} /\ ~cr[c].force_stop

Fill(n, c) ==
  /\ Visiting(c)
  /\ sender[n] = Nobody /\ ntf[n] = Idle
  /\ sender' = [sender EXCEPT ![n] = c]
  /\ unread' = [unread EXCEPT ![c] =
                 IF c \notin begun THEN 1
                 ELSE IF @ > BufferSize THEN @ ELSE @ + 1]
  /\ UNCHANGED <<schedVars, begun, hooked, stage, missed>>

Callback(n) ==
  /\ sender[n] # Nobody
  /\ sender' = [sender EXCEPT ![n] = Nobody]
  /\ IF sender[n] \in hooked
     THEN StartNotify(n, Id[sender[n]]) /\ UNCHANGED missed
     ELSE UNCHANGED ntf /\ missed' = missed \cup {sender[n]}
  /\ UNCHANGED <<cr, due, id_cr, born, rq, op, proc, stop, ctx_stop, running,
                 main, unread, begun, hooked, stage>>

(***************************************************************************)
(* The body: wait for data is announced before the buffer is looked at.    *)
(***************************************************************************)
Left(c) == IF c \notin begun \/ unread[c] > BufferSize THEN 0 ELSE unread[c] - 1

AnnounceWait(p, c) ==
  /\ Runs(p, c) /\ stage[c] = "top"
  /\ SetState(c, "DATA_WAIT")
  /\ stage' = [stage EXCEPT ![c] = "fetch"]
  /\ UNCHANGED <<due, id_cr, born, rq, op, proc, ntf, stop, ctx_stop, running,
                 main, unread, begun, hooked, missed, sender>>

TryFetch(p, c) ==
  /\ Runs(p, c) /\ stage[c] = "fetch"
  /\ IF unread[c] = 0
     THEN /\ SwapOut(p)
          /\ stage' = [stage EXCEPT ![c] = "top"]
          /\ UNCHANGED <<unread, begun, missed>>
     ELSE /\ stage' = [stage EXCEPT ![c] = "func"]
          /\ unread' = [unread EXCEPT ![c] = Left(c)]
          /\ begun' = begun \cup {c}
          /\ missed' = missed \ {c}
          /\ UNCHANGED proc
  /\ UNCHANGED <<cr, due, id_cr, born, rq, op, ntf, stop, ctx_stop, running,
                 main, hooked, sender>>

\* the message handler may sleep once
SleepInFunc(p, c) ==
  /\ Runs(p, c) /\ stage[c] = "func"
  /\ SetState(c, "SLEEP") /\ SwapOut(p)
  /\ stage' = [stage EXCEPT ![c] = "slept"]
  /\ UNCHANGED <<due, id_cr, born, rq, op, ntf, stop, ctx_stop, running, main,
                 unread, begun, hooked, missed, sender>>

\* Mutant: after a message the routine waits for the next notification
FuncDoneWaits(p, c) ==
  /\ Runs(p, c) /\ stage[c] \in {"func", "slept"}
  /\ SetState(c, "DATA_WAIT") /\ SwapOut(p)
  /\ stage' = [stage EXCEPT ![c] = "top"]
  /\ UNCHANGED <<due, id_cr, born, rq, op, ntf, stop, ctx_stop, running, main,
                 unread, begun, hooked, missed, sender>>

FuncDone(p, c) ==
  /\ Runs(p, c) /\ stage[c] \in {"func", "slept"}
  /\ SetState(c, "READY") /\ SwapOut(p)
  /\ stage' = [stage EXCEPT ![c] = "top"]
  /\ UNCHANGED <<due, id_cr, born, rq, op, ntf, stop, ctx_stop, running, main,
                 unread, begun, hooked, missed, sender>>

Body(p) == \E c \in Routines :
  AnnounceWait(p, c) \/ TryFetch(p, c) \/ SleepInFunc(p, c) \/ FuncDone(p, c)

Next ==
  \/ SchedulerStep /\ UNCHANGED dataVars
  \/ \E c \in Routines : RegisterNotifyCallback(c)
  \/ \E n \in Notifiers : Callback(n) \/ \E c \in Routines : Fill(n, c)
  \/ \E p \in Processors : Body(p)
  \/ main.pc = "done" /\ UNCHANGED vars

SafetySpec == VisitorInit /\ [][Next]_vars

\* Threads run, and a handler that was called returns; messages need not come.
Spec ==
  /\ SafetySpec
  /\ SchedulerFairness
  /\ \A c \in Routines : WF_vars(RegisterNotifyCallback(c))
  /\ \A n \in Notifiers : WF_vars(Callback(n))
  /\ \A p \in Processors : WF_vars(Body(p))

-----------------------------------------------------------------------------

\* Tables, queues and threads have the shapes of the code.
TypeOK ==
  /\ SchedTypeOK
  /\ unread \in [Routines -> 0 .. BufferSize + 1]
  /\ begun \subseteq Routines /\ missed \subseteq Routines
  /\ hooked \subseteq Routines
  /\ stage \in [Routines -> {"top", "fetch", "func", "slept"}]
  /\ sender \in [Notifiers -> Routines \cup {Nobody}]

\* A routine that has data and waits is never forgotten: its update flag is
\* set, or a thread is about to set it.  The routine announces DATA_WAIT
\* before it looks at the buffer, the dispatcher fills the buffer before it
\* looks at the state, and UpdateState may consume the flag at any time.  The
\* one exception is a message dispatched before RegisterNotifyCallback.
WaitingHasNoData ==
  \A c \in DOMAIN cr :
    /\ id_cr[Id[c]] = c /\ ~stop
    /\ cr[c].state = "DATA_WAIT" /\ stage[c] = "top"
    /\ unread[c] > 0 /\ c \notin missed
    => \/ cr[c].updated
       \/ \E n \in DOMAIN ntf :
            \/ sender[n] = c
            \/ ntf[n].pc = "flag" /\ ntf[n].cr = c

\* Neither a sleeper nor a routine with data is forgotten.
NobodyForgotten == SleeperIsWatched /\ WaitingHasNoData

\* As long as messages keep coming, a message in a buffer is fetched: the
\* notification that Wait missed is made good by the next one.
DataIsFetched ==
  \A c \in Routines :
    ([]<>(\E n \in DOMAIN ntf : ntf[n].pc = "wake") /\ []~stop)
      => [](unread[c] > 0 /\ id_cr[Id[c]] = c
              => <>(unread[c] = 0 \/ id_cr[Id[c]] # c))

=============================================================================
