----------------------------- MODULE MCProgress -----------------------------
(***************************************************************************)
(* What must eventually happen, on instances small enough for the check of *)
(* liveness.  A behaviour is one of the instance that subject names.       *)
(***************************************************************************)
EXTENDS AtomicRWLock, Sequences, TLC

CONSTANTS Subjects, t1, t2, t3, Junk, Nobody
VARIABLES
    subject,
    head, tail, commit, pool, break, queue_pc, call, elem, old, claimed, taken,     \* queue
    next_seq, infos, seqs, writer, listener,                                        \* notifier
    requests, ctrl_params, poller, is_shutdown, epoll, ready, rt,                   \* poller
    slots, roles, enabled, peer_pc, todo, testing, gone, peer_crashed, listed,      \* peers
    sequence_number, pending, mutex, promise, caller, inbox, responses, tasks,
    receiver, inited, worker, owner, shutdown,                                      \* service
    active, flush, chunks, header, is_writing, flush_mutex, app, flusher, flushed,  \* chunk writer
    is_opened, file, files, segment_raw_size, segment_begin_time, number, written,
    accepted, crashed, readers, v, buffer, out,                                     \* record
    state, active_buf, buf, log_thread, pos, wake, logs, synced, log_pc, loaded,
    passes, woken, logged, mark, dropped                                            \* logger

lockVars == <<lock_num, write_lock_wait_num, pc, seen>>
queueVars == <<head, tail, commit, pool, break, queue_pc, call, elem, old, claimed, taken>>
ringVars == <<next_seq, infos, seqs, writer, listener>>
pollerVars == <<requests, ctrl_params, poller, is_shutdown, epoll, ready, rt>>
peerVars == <<slots, roles, enabled, peer_pc, todo, testing, gone, peer_crashed, listed>>
callVars == <<sequence_number, pending, mutex, promise, caller, inbox, responses, tasks,
              receiver, inited, worker, owner, shutdown>>
chunkVars == <<active, flush, chunks, header, is_writing, flush_mutex, app, flusher, flushed>>
recordVars == <<is_opened, file, files, segment_raw_size, segment_begin_time, number, written,
                accepted, crashed, readers, v, buffer, out>>
logVars == <<state, active_buf, buf, log_thread, pos, wake, logs, synced, log_pc, loaded,
             passes, woken, logged, mark, dropped>>

baseVars == <<queueVars, ringVars, pollerVars>>
appVars == <<peerVars, callVars, chunkVars, recordVars, logVars>>

Queue == INSTANCE BoundedQueue WITH
    Threads <- {t1, t2}, Values <- {"a"}, Size <- 2, Strategy <- "sleep", MaxTicket <- 3, pc <- queue_pc
\* BlockWaitStrategy, the default
Blocked == INSTANCE BoundedQueue WITH
    Threads <- {t1, t2}, Values <- {"a"}, Size <- 2, Strategy <- "block", MaxTicket <- 3, pc <- queue_pc
Ring == INSTANCE ConditionNotifier WITH
    Notifiers <- {t1, t2}, Listeners <- {t1}, kBufLength <- 2, MaxSeq <- 5, KeepsUp <- TRUE
\* one routine waits for a socket with and without a time-out
Socket == INSTANCE Poller WITH
    Routines <- {t1}, Fds <- {3}, FdsOf <- t1 :> {3}, Dirs <- {"in", "out"}, Timeouts <- {-1, 0, 2},
    Waits <- {0, 1}, MaxOpen <- 1, MayShutdown <- FALSE

\* only the remote writer leaves
Peers == INSTANCE PeerDiscovery WITH
    Writers <- {"w", "v"}, Readers <- {"r"}, Remote <- {"v"}, Id <- [w |-> "w", v |-> "v", r |-> "r"],
    MayLeave <- {"v"}, pc <- peer_pc, crashed <- peer_crashed
\* two callers of one client; nothing fails, or anything may
Calls == INSTANCE Service WITH
    Callers <- {t1, t2}, Clients <- {"c"}, Servers <- {"s"}, ClientOf <- t1 :> "c" @@ t2 :> "c",
    MaxRequests <- 2, Faults <- {}, requests <- inbox
Ending == INSTANCE Service WITH
    Callers <- {t1, t2}, Clients <- {"c"}, Servers <- {"s"}, ClientOf <- t1 :> "c" @@ t2 :> "c",
    MaxRequests <- 2, Faults <- {"loss", "destroy", "shutdown", "fail"}, requests <- inbox
Chunks == INSTANCE RecordFileWriter WITH
    MaxMessages <- 5, ChunkLimit <- 1, KeepsUp <- FALSE, mutex <- flush_mutex, file <- chunks,
    written <- flushed
View == INSTANCE RecordViewer WITH
    Channels <- {"c"}, Times <- 1 .. 4, InOrder <- TRUE, SegmentInterval <- 2, SegmentSize <- 2,
    ChunkInterval <- 0, ChunkSize <- 1, MayFail <- FALSE, MaxMessages <- 3,
    Views <- {<<0, 9>>, <<2, 3>>}, Filters <- {{}}, Step <- 1, BufferMin <- 2
Logger == INSTANCE AsyncLogger WITH
    Threads <- {t1, t2}, Modules <- {"m"}, Half <- 1, MaxAccept <- 2, pc <- log_pc,
    active <- active_buf, flusher <- log_thread, file <- logs, accepted <- logged

ASSUME LockAssumption
ASSUME Ring!LengthAssumption /\ Ring!MaxSeqAssumption
ASSUME Socket!TimeoutsAssumption /\ Socket!FdsAssumption /\ Socket!MaxOpenAssumption
ASSUME Peers!PeerAssumption /\ Calls!ServiceAssumption /\ Ending!ServiceAssumption

ProgressInit ==
    /\ subject \in Subjects
    /\ Init /\ Queue!Init /\ Ring!Init /\ Socket!Init
    /\ Peers!Init /\ Calls!Init /\ Chunks!Init /\ View!ViewInit /\ Logger!Init

ProgressNext ==
    /\ UNCHANGED subject
    /\ \/ subject = "lock" /\ Next /\ UNCHANGED <<baseVars, appVars>>
       \/ /\ (subject = "queue" /\ Queue!Next) \/ (subject = "blocked" /\ Blocked!Next)
          /\ UNCHANGED <<lockVars, ringVars, pollerVars, appVars>>
       \/ subject = "ring" /\ Ring!Next /\ UNCHANGED <<lockVars, queueVars, pollerVars, appVars>>
       \/ subject = "socket" /\ Socket!Next /\ UNCHANGED <<lockVars, queueVars, ringVars, appVars>>
       \/ /\ UNCHANGED <<lockVars, baseVars>>
          /\ \/ subject = "peers" /\ Peers!Next /\ UNCHANGED <<callVars, chunkVars, recordVars, logVars>>
             \/ /\ (subject = "calls" /\ Calls!Next) \/ (subject = "ending" /\ Ending!Next)
                /\ UNCHANGED <<peerVars, chunkVars, recordVars, logVars>>
             \/ subject = "chunks" /\ Chunks!Next /\ UNCHANGED <<peerVars, callVars, recordVars, logVars>>
             \/ subject = "view" /\ View!Next /\ UNCHANGED <<peerVars, callVars, chunkVars, logVars>>
             \/ subject = "logger" /\ Logger!Next /\ UNCHANGED <<peerVars, callVars, chunkVars, recordVars>>

ProgressSpec == ProgressInit /\ [][ProgressNext]_<<subject, lockVars, baseVars, appVars>>

\* The fairness each module states, for the instance that runs.
lockQueueVars == <<lockVars, queueVars>>
OnQueue(A, B) == \/ subject = "queue" /\ A
                 \/ subject = "blocked" /\ B
ThreadsRun ==
    /\ \A t \in {t1, t2, t3} : /\ WF_lockVars(subject = "lock" /\ ReadStep(t))
                               /\ WF_lockVars(subject = "lock" /\ WriteStep(t))
    /\ \A t \in {t1, t2} : WF_queueVars(OnQueue(Queue!Progress(t), Blocked!Progress(t)))
    /\ WF_queueVars(OnQueue(Queue!NotifyAll, Blocked!NotifyAll))
    /\ SF_lockQueueVars(
         \/ subject = "lock" /\ (\E t \in Threads : EnterRead(t)) /\ UNCHANGED queueVars
         \/ /\ \E t \in {t1, t2} : OnQueue(Queue!ClaimTail(t), Blocked!ClaimTail(t))
            /\ UNCHANGED lockVars)
    /\ SF_queueVars(\E t \in {t1, t2} : OnQueue(Queue!TakeHead(t), Blocked!TakeHead(t)))
    /\ \A t \in {t1, t2} : WF_ringVars(subject = "ring" /\ Ring!NotifyStep(t))
    /\ WF_ringVars(subject = "ring" /\ Ring!ListenStep(t1))
    /\ WF_pollerVars(subject = "socket" /\ Socket!PollerStep)
    /\ WF_pollerVars(subject = "socket" /\ Socket!RoutineStep(t1))

OnCalls(A, B) == \/ subject = "calls" /\ A
                 \/ subject = "ending" /\ B
FlusherStep ==
    Logger!FlusherTop \/ Logger!FlusherWake \/ Logger!FlusherWrite \/ Logger!FlusherClear
    \/ Logger!FlusherRelock
ServicesRun ==
    /\ \A e \in {"w", "v", "r"} : WF_peerVars(subject = "peers" /\ Peers!Proceed(e))
    /\ \A t \in {t1, t2} : WF_callVars(OnCalls(Calls!CallerStep(t), Ending!CallerStep(t)))
    /\ SF_callVars(OnCalls(Calls!HandleResponse("c"), Ending!HandleResponse("c")))
    /\ WF_callVars(OnCalls(Calls!Start("s"), Ending!Start("s")))
    /\ WF_callVars(OnCalls(Calls!Enqueue("s"), Ending!Enqueue("s")))
    /\ WF_callVars(OnCalls(Calls!WorkerStep("s"), Ending!WorkerStep("s")))
    /\ WF_callVars(OnCalls(Calls!DestroyStep("s"), Ending!DestroyStep("s")))
    /\ WF_chunkVars(subject = "chunks" /\ Chunks!AppNext)
    /\ WF_chunkVars(subject = "chunks" /\ Chunks!FlusherNext)
    /\ WF_recordVars(subject = "view" /\ View!ViewerStep)
    /\ WF_logVars(subject = "logger" /\ FlusherStep)
    /\ \A t \in {t1, t2} :
         WF_logVars(subject = "logger" /\ (Logger!WriteCheck(t) \/ Logger!WriteAdd(t)
                                           \/ Logger!FlushWake(t)))

ThreadSpec == ProgressSpec /\ ThreadsRun
ServiceSpec == ProgressSpec /\ ServicesRun

-----------------------------------------------------------------------------
\* BoundedQueue: a WaitDequeue call with a strategy that polls does not sleep
\* through an element, and after BreakAllWait every WaitEnqueue and WaitDequeue
\* call returns.  ConditionNotifier: when the notifications cease, a listener
\* that was not lapped gets to the last one.  Poller: a registered handler is
\* called back once the socket is ready, or once its time-out has passed.
WaitsEnd ==
    /\ Queue!WaitDequeueReturns /\ Queue!BreakEndsWaits
    /\ subject = "ring" => Ring!CatchesUp
    /\ Socket!Served

\* bounded_queue_test.cc:124-125 "queue.Enqueue(100);" "t.join();": with
\* BlockWaitStrategy too a WaitDequeue call does not sleep through an element.
BlockedDequeueReturns == Blocked!WaitDequeueReturns

\* A writer and a reader that never shut down come to have each other enabled,
\* for good.  Service: where nothing is lost and no server stops, a request
\* under way to a server is answered; and destroy() and the destructor return,
\* whatever the worker was doing.
ServicesRespond ==
    /\ subject = "peers" => Peers!Meet
    /\ subject = "calls" => Calls!Answered
    /\ Ending!DestroyReturns

\* RecordFileWriter: a chunk that was handed over is written.  RecordViewer: an
\* iteration comes to its end.  AsyncLogger: every accepted message is written
\* sooner or later, through notifications alone; a Flush returns, even if the
\* logger is stopped meanwhile, and a Stop comes to its join.
OutputIsWritten ==
    /\ Chunks!FlushHappens
    /\ View!ViewEnds
    /\ Logger!Written /\ Logger!CallsReturn
=============================================================================
