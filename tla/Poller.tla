------------------------------- MODULE Poller -------------------------------
(***************************************************************************)
(* Socket I/O in routines (io/): a Session tries an operation on its       *)
(* non-blocking socket and, when the socket is not ready, its PollHandler  *)
(* registers a request with the Poller and yields.  The poller's thread    *)
(* passes registrations on to epoll, waits, ages the time-outs, and calls  *)
(* the handlers back; a handler called back marks its routine as updated.  *)
(*                                                                         *)
(* A routine owns one session.  The poller's pipe only shortens a wait     *)
(* that ends by itself after kPollTimeoutMs, so a wait may end at any      *)
(* time.  poll_data_lock_ is held over the call of a handler; the other    *)
(* sections under it are one step.  The sockets and epoll are external:    *)
(* an armed descriptor (EPOLLONESHOT) reports once when it is ready.       *)
(***************************************************************************)
EXTENDS Integers, FiniteSets

CONSTANTS
    Routines,     \* routines, each with a session
    Fds,          \* file descriptors
    FdsOf,        \* FdsOf[r]: those the kernel may hand out to r
    Dirs,         \* what a session can wait for: "in", "out"
    Timeouts,     \* values of timeout_ms that callers pass
    Waits,        \* how long a wait of the poller may take, in ms
    MaxOpen,      \* bound on the sockets a session opens in turn
    MayShutdown   \* whether Poller::Shutdown may be called

TimeoutsAssumption == Timeouts \subseteq Int /\ Waits \subseteq Nat
FdsAssumption == FdsOf \in [Routines -> SUBSET Fds] /\ Fds \subseteq Nat
MaxOpenAssumption == MaxOpen \in Nat /\ MayShutdown \in BOOLEAN

NoFd == -1

NoRequest == [owner |-> "none", dir |-> "none", timeout_ms |-> -1]
NoChange == [op |-> "none", dir |-> "none"]

VARIABLES
    requests,      \* requests_: the request registered for a descriptor
    ctrl_params,   \* ctrl_params_: changes to be passed on to epoll
    poller,        \* the poller's thread: where it is and its locals
    is_shutdown,   \* Poller::is_shutdown_
    epoll,         \* kernel: "absent", "off" (reported) or the armed direction
    ready,         \* kernel: what each descriptor is ready for
    rt             \* the routines, with their sessions and poll handlers

vars == <<requests, ctrl_params, poller, is_shutdown, epoll, ready, rt>>

\* pc: where the routine is; fd_: the session's; dir, timeout: the arguments
\* of the operation; request_fd: request_.fd; blocking: is_blocking_; response:
\* response_; updated: the update flag is cleared.  History: answered, called
\* back since Block; elapsed, milliseconds the poller waited since Register;
\* opens, sockets opened; result, what the last operation returned ("early":
\* it gave up with time left).
NewRoutine ==
    [pc |-> "idle", fd |-> NoFd, dir |-> "none", timeout |-> 0,
     request_fd |-> NoFd, blocking |-> FALSE, response |-> "none", updated |-> FALSE,
     answered |-> FALSE, elapsed |-> 0, opens |-> 0, result |-> "none"]

\* local: local_params of HandleChanges; responses: of Poll, with the ready
\* descriptors in it from the wait on; call: the owner of the callback being
\* made; counted (history): routines that were registered when the wait began.
NewPoller ==
    [pc |-> "changes", local |-> [fd \in Fds |-> NoChange],
     responses |-> [fd \in Fds |-> "none"], call |-> "none", took |-> 0, counted |-> {}]

\* Poller::Init; the thread is running.
Init ==
    /\ requests = [fd \in Fds |-> NoRequest]
    /\ ctrl_params = [fd \in Fds |-> NoChange]
    /\ poller = NewPoller
    /\ is_shutdown = FALSE
    /\ epoll = [fd \in Fds |-> "absent"]
    /\ ready = [fd \in Fds |-> {}]
    /\ rt = [r \in Routines |-> NewRoutine]

pollerVars == <<requests, ctrl_params, poller, is_shutdown>>
kernelVars == <<epoll, ready>>

IsOpen(fd) == \E r \in Routines : rt[r].fd = fd

\* The write lock of poll_data_lock_ is not to be had during a callback.
WriteLockFree == poller.pc # "call"

-----------------------------------------------------------------------------
\* Session::Socket, and the constructor given a descriptor: any free one.
Socket(r) ==
    /\ rt[r].pc = "idle" /\ rt[r].fd = NoFd /\ rt[r].opens < MaxOpen
    /\ \E fd \in FdsOf[r] :
         /\ ~IsOpen(fd)
         /\ rt' = [rt EXCEPT ![r].fd = fd, ![r].opens = @ + 1]
    /\ UNCHANGED <<pollerVars, kernelVars>>

\* What a successful system call leaves of the readiness: it may use it up.
After(fd, d) == {ready, [ready EXCEPT ![fd] = @ \ {d}]}

\* Recv, RecvFrom or Read ("in"), Send, SendTo or Write ("out") up to
\* the first system call.  When that would block, an operation that was to
\* try once gives up.
Start(r) ==
    LET fd == rt[r].fd IN
    /\ rt[r].pc = "idle" /\ fd # NoFd
    /\ \E d \in Dirs, t \in Timeouts :
         IF d \in ready[fd]
           THEN rt' = [rt EXCEPT ![r].result = "done"] /\ ready' \in After(fd, d)
           ELSE /\ rt' = IF t = 0 THEN [rt EXCEPT ![r].result = "again"]
                          ELSE [rt EXCEPT ![r].pc = "block", ![r].dir = d, ![r].timeout = t,
                                          ![r].result = "none"]
                /\ UNCHANGED ready
    /\ UNCHANGED <<pollerVars, epoll>>

\* The operation returns res.  What the next one sets anew is reset.
Return(r, res) ==
    [rt EXCEPT ![r].pc = "idle", ![r].result = res, ![r].dir = "none", ![r].timeout = 0,
               ![r].blocking = FALSE, ![r].response = "none", ![r].elapsed = 0, ![r].answered = FALSE]

\* The loop of the operation after Block returned res and, if that is true,
\* the system call after it: with a time-out it ends here whatever happened.
AfterBlock(r, res) ==
    LET fd == rt[r].fd IN
    IF res /\ rt[r].dir \in ready[fd]
      THEN rt' = Return(r, "done") /\ ready' \in After(fd, rt[r].dir)
      ELSE /\ rt' = IF rt[r].timeout > 0
                     THEN Return(r, IF rt[r].elapsed < rt[r].timeout THEN "early" ELSE "again")
                     ELSE [rt EXCEPT ![r].pc = "block", ![r].blocking = FALSE]
           /\ UNCHANGED ready

\* PollHandler::Block up to Register's test of is_shutdown_.
Block(r) ==
    /\ rt[r].pc = "block"
    /\ IF is_shutdown
         THEN AfterBlock(r, FALSE)
         ELSE /\ rt' = [rt EXCEPT ![r].pc = "register", ![r].blocking = TRUE,
                                  ![r].request_fd = rt[r].fd, ![r].answered = FALSE]
              /\ UNCHANGED ready
    /\ UNCHANGED <<pollerVars, epoll>>

\* Poller::Register under the write lock.
Register(r) ==
    LET fd == rt[r].fd
        op == IF requests[fd] = NoRequest THEN "add" ELSE "mod"
    IN  /\ rt[r].pc = "register" /\ WriteLockFree
        /\ ctrl_params' = [ctrl_params EXCEPT ![fd] = [op |-> op, dir |-> rt[r].dir]]
        /\ requests' = [requests EXCEPT ![fd] = [owner |-> r, dir |-> rt[r].dir, timeout_ms |-> rt[r].timeout]]
        /\ poller' = [poller EXCEPT !.counted = @ \ {r}]
        /\ rt' = [rt EXCEPT ![r].pc = "yield", ![r].elapsed = 0]
        /\ UNCHANGED <<is_shutdown, kernelVars>>

\* CRoutine::Yield(IO_WAIT).  The state is IO_WAIT exactly while parked.
Yield(r) ==
    /\ rt[r].pc = "yield"
    /\ rt' = [rt EXCEPT ![r].pc = "parked"]
    /\ UNCHANGED <<pollerVars, kernelVars>>

\* A processor finds the routine updated, makes it READY and resumes it.
Resume(r) ==
    /\ rt[r].pc = "parked" /\ rt[r].updated
    /\ rt' = [rt EXCEPT ![r].pc = "awake", ![r].updated = FALSE]
    /\ UNCHANGED <<pollerVars, kernelVars>>

\* The rest of Block: its result tells whether the response has the event.
EndBlock(r) ==
    /\ rt[r].pc = "awake"
    /\ AfterBlock(r, rt[r].response = rt[r].dir)
    /\ UNCHANGED <<pollerVars, epoll>>

\* Session::Close, first PollHandler::Unblock: Poller::Unregister erases the
\* request for the descriptor of the handler's last request, if there is one
\* and the poller has not been shut down.
Unblock(r) ==
    LET fd == rt[r].request_fd
        found == ~is_shutdown /\ fd # NoFd /\ requests[fd] # NoRequest
    IN  /\ rt[r].pc = "idle" /\ rt[r].fd # NoFd /\ WriteLockFree
        /\ requests' = IF found THEN [requests EXCEPT ![fd] = NoRequest] ELSE requests
        /\ ctrl_params' = IF found THEN [ctrl_params EXCEPT ![fd] = [op |-> "del", dir |-> "none"]]
                                   ELSE ctrl_params
        /\ rt' = [rt EXCEPT ![r].pc = "close", ![r].blocking = FALSE]
        /\ UNCHANGED <<poller, is_shutdown, kernelVars>>

\* Then the descriptor is closed, which takes it out of epoll.
Close(r) ==
    LET fd == rt[r].fd IN
    /\ rt[r].pc = "close"
    /\ epoll' = [epoll EXCEPT ![fd] = "absent"]
    /\ ready' = [ready EXCEPT ![fd] = {}]
    /\ rt' = [rt EXCEPT ![r].pc = "idle", ![r].fd = NoFd]
    /\ UNCHANGED pollerVars

-----------------------------------------------------------------------------
\* ThreadFunc: the loop ends once is_shutdown_ is set.
\* HandleChanges, first the exchange of ctrl_params_.
TakeChanges ==
    /\ poller.pc = "changes" /\ ~is_shutdown
    /\ poller' = [poller EXCEPT !.pc = "apply", !.local = ctrl_params]
    /\ ctrl_params' = [fd \in Fds |-> NoChange]
    /\ UNCHANGED <<requests, is_shutdown, kernelVars, rt>>

\* epoll_ctl: an addition of a descriptor epoll has, or a change of one it
\* does not have, is an error that changes nothing; e is its present entry.
EpollCtl(c, e) ==
    IF c = NoChange \/ (c.op = "add") # (e = "absent") THEN e
    ELSE IF c.op = "del" THEN "absent" ELSE c.dir

\* The loop of HandleChanges; nothing can be done to a closed descriptor.
Apply(fd) ==
    /\ poller.pc = "apply" /\ poller.local[fd] # NoChange
    /\ epoll' = [epoll EXCEPT ![fd] = IF IsOpen(fd) THEN EpollCtl(poller.local[fd], @) ELSE @]
    /\ poller' = [poller EXCEPT !.local[fd] = NoChange]
    /\ UNCHANGED <<requests, ctrl_params, is_shutdown, ready, rt>>

\* Poll: the wait begins.
BeginWait ==
    /\ poller.pc = "apply" /\ poller.local = [fd \in Fds |-> NoChange]
    /\ poller' = [poller EXCEPT !.pc = "wait",
                    !.counted = {r \in Routines : rt[r].pc \in {"yield", "parked"}}]
    /\ UNCHANGED <<requests, ctrl_params, is_shutdown, kernelVars, rt>>

Reported == {fd \in Fds : epoll[fd] \in ready[fd]}

\* The wait ends, with the descriptors that are armed and ready.
EndWait ==
    /\ poller.pc = "wait"
    /\ \E d \in Waits :
         /\ poller' = [poller EXCEPT !.pc = "expire", !.took = d,
                         !.responses = [fd \in Fds |-> IF fd \in Reported THEN epoll[fd] ELSE "none"]]
         /\ rt' = [r \in Routines |->
                      IF r \in poller.counted
                        THEN [rt[r] EXCEPT !.elapsed = IF @ + d < rt[r].timeout THEN @ + d
                                                       ELSE IF rt[r].timeout > 0 THEN rt[r].timeout ELSE 0]
                        ELSE rt[r]]
    /\ epoll' = [fd \in Fds |-> IF fd \in Reported THEN "off" ELSE epoll[fd]]
    /\ UNCHANGED <<requests, ctrl_params, is_shutdown, ready>>

\* The time-outs age by the time the wait took, and at least by one; requests
\* with a change still to be passed on are left out.  A response without an
\* event gives way to one with an event.
Aged(t) ==
    LET interval == IF poller.took = 0 THEN 1 ELSE poller.took
    IN  IF t > interval THEN t - interval ELSE IF t > 0 THEN 0 ELSE t

ExpireWith(Skipped(_)) ==
    LET left == [fd \in Fds |-> IF Skipped(fd) THEN requests[fd].timeout_ms
                                              ELSE Aged(requests[fd].timeout_ms)]
        expired == {fd \in Fds : requests[fd] # NoRequest /\ ~Skipped(fd) /\ left[fd] = 0}
    IN  /\ poller.pc = "expire"
        /\ requests' = [fd \in Fds |-> [requests[fd] EXCEPT !.timeout_ms =
                                           IF fd \in expired THEN -1 ELSE left[fd]]]
        /\ poller' = [poller EXCEPT !.pc = "respond", !.took = 0,
                        !.responses = [fd \in Fds |->
                          IF @[fd] = "none" /\ fd \in expired THEN "timeout" ELSE @[fd]]]
        /\ UNCHANGED <<ctrl_params, is_shutdown, kernelVars, rt>>

\* Mutant: requests about to change age and expire too.
ExpireAll == ExpireWith(LAMBDA fd : FALSE)

Expire == ExpireWith(LAMBDA fd : ctrl_params[fd] # NoChange)

\* One response: the request registered now is called back, under the read
\* lock.  ResponseCallback takes the response if the handler is blocking.
Respond(fd) ==
    LET req == requests[fd]
        r == req.owner
        heard == req # NoRequest /\ rt[r].blocking
    IN  /\ poller.pc = "respond" /\ poller.responses[fd] # "none"
        /\ requests' = IF req = NoRequest THEN requests ELSE [requests EXCEPT ![fd].timeout_ms = -1]
        /\ poller' = [poller EXCEPT !.responses[fd] = "none",
                                    !.pc = IF heard THEN "call" ELSE @,
                                    !.call = IF heard THEN r ELSE @]
        /\ rt' = IF heard THEN [rt EXCEPT ![r].response = poller.responses[fd], ![r].answered = TRUE]
                          ELSE rt
        /\ UNCHANGED <<ctrl_params, is_shutdown, kernelVars>>

\* The rest of ResponseCallback: only a routine in IO_WAIT is marked.
MarkUpdated ==
    LET r == poller.call IN
    /\ poller.pc = "call"
    /\ rt' = IF rt[r].pc = "parked" THEN [rt EXCEPT ![r].updated = TRUE] ELSE rt
    /\ poller' = [poller EXCEPT !.pc = "respond", !.call = "none"]
    /\ UNCHANGED <<requests, ctrl_params, is_shutdown, kernelVars>>

EndPoll ==
    /\ poller.pc = "respond" /\ poller.responses = [fd \in Fds |-> "none"]
    /\ poller' = [poller EXCEPT !.pc = "changes", !.counted = {}]
    /\ UNCHANGED <<requests, ctrl_params, is_shutdown, kernelVars, rt>>

\* Shutdown, and Clear once the thread has ended: closing the epoll
\* descriptor forgets what it was to watch.
Shutdown ==
    /\ MayShutdown /\ ~is_shutdown
    /\ is_shutdown' = TRUE
    /\ UNCHANGED <<requests, ctrl_params, poller, kernelVars, rt>>

Clear ==
    /\ is_shutdown /\ poller.pc = "changes"
    /\ poller' = [poller EXCEPT !.pc = "ended"]
    /\ requests' = [fd \in Fds |-> NoRequest]
    /\ ctrl_params' = [fd \in Fds |-> NoChange]
    /\ epoll' = [fd \in Fds |-> "absent"]
    /\ UNCHANGED <<is_shutdown, ready, rt>>

\* Environment: the peer sends, or takes what was sent.
Arrive(fd) ==
    /\ IsOpen(fd)
    /\ \E d \in Dirs \ ready[fd] : ready' = [ready EXCEPT ![fd] = @ \cup {d}]
    /\ UNCHANGED <<pollerVars, epoll, rt>>

-----------------------------------------------------------------------------
PollerStep ==
    \/ TakeChanges \/ BeginWait \/ EndWait \/ Expire \/ MarkUpdated \/ EndPoll \/ Clear
    \/ \E fd \in Fds : Apply(fd) \/ Respond(fd)

\* A routine within an operation or within Close goes on by itself.
RoutineStep(r) ==
    Block(r) \/ Register(r) \/ Yield(r) \/ Resume(r) \/ EndBlock(r) \/ Close(r)

Next ==
    \/ PollerStep \/ Shutdown
    \/ \E r \in Routines : Socket(r) \/ Start(r) \/ RoutineStep(r) \/ Unblock(r)
    \/ \E fd \in Fds : Arrive(fd)

Spec == Init /\ [][Next]_vars

\* The poller's thread and the processors run; a wait ends after
\* kPollTimeoutMs at the latest.  That a processor looks at an updated
\* routine is granted here although SetUpdateFlag notifies none.
FairSpec ==
    /\ Spec
    /\ WF_vars(PollerStep)
    /\ \A r \in Routines : WF_vars(RoutineStep(r))

-----------------------------------------------------------------------------
Changes == [op : {"none", "add", "mod", "del"}, dir : Dirs \cup {"none"}]
Responses == Dirs \cup {"none", "timeout"}

TypeOK ==
    /\ \A fd \in Fds :
         /\ requests[fd].owner \in Routines \cup {"none"}
         /\ requests[fd].dir \in Dirs \cup {"none"} /\ requests[fd].timeout_ms >= -1
    /\ ctrl_params \in [Fds -> Changes]
    /\ poller.pc \in {"changes", "apply", "wait", "expire", "respond", "call", "ended"}
    /\ poller.local \in [Fds -> Changes] /\ poller.responses \in [Fds -> Responses]
    /\ poller.took \in Waits \cup {0} /\ poller.counted \subseteq Routines
    /\ poller.call \in Routines \cup {"none"} /\ (poller.pc = "call") = (poller.call # "none")
    /\ epoll \in [Fds -> Dirs \cup {"absent", "off"}] /\ ready \in [Fds -> SUBSET Dirs]
    /\ is_shutdown \in BOOLEAN
    /\ \A r \in Routines :
         /\ rt[r].pc \in {"idle", "block", "register", "yield", "parked", "awake", "close"}
         /\ {rt[r].fd, rt[r].request_fd} \subseteq Fds \cup {NoFd} /\ rt[r].response \in Responses
         /\ rt[r].opens \in 0 .. MaxOpen /\ rt[r].elapsed >= 0
         /\ rt[r].updated => rt[r].pc = "parked"

\* Every registered request belongs to a session that has the descriptor open,
\* so no handler is called back once its Session::Close has returned, and a
\* session may then be destroyed; Poller::Shutdown excepted, after which
\* Unregister refuses.
NoDangling ==
    \A fd \in Fds : requests[fd] # NoRequest /\ ~is_shutdown => rt[requests[fd].owner].fd = fd

\* Registered and not called back.
Waiting(r) == rt[r].pc \in {"yield", "parked"} /\ ~rt[r].answered

\* Whoever waits will hear of the event: epoll watches the descriptor for the
\* direction of the wait, or will once the poller has passed on the changes it
\* has, or the poller has a response for it.  (Poller::Register tells an
\* addition from a modification by requests_, HandleChanges passes on the last
\* change only, and EPOLLONESHOT disarms what was reported.)
Armed ==
    \A r \in Routines :
      Waiting(r) /\ ~is_shutdown =>
        LET fd == rt[r].fd
        IN  \/ poller.responses[fd] # "none"
            \/ EpollCtl(ctrl_params[fd], EpollCtl(poller.local[fd], epoll[fd])) = rt[r].dir

\* The poller does not report a time-out before the time has passed that the
\* request gave, however the registration falls into a wait (Poller::Poll).
NotEarly ==
    \A r \in Routines :
      /\ rt[r].pc \in {"yield", "parked", "awake"} /\ rt[r].answered
      /\ rt[r].response = "timeout"
      => rt[r].elapsed >= rt[r].timeout

\* An operation with a time-out fails only when no time is left.
TimeLeft == \A r \in Routines : rt[r].result # "early"

\* A registered handler is called back once the socket is ready, or once its
\* time-out has passed (Poller::ThreadFunc).
Served ==
    \A r \in Routines :
      (Waiting(r) /\ (rt[r].dir \in ready[rt[r].fd] \/ rt[r].timeout > 0)) ~> rt[r].answered

\* An operation without a time-out goes on until it succeeds: once the socket
\* is ready the operation returns.
ReadyReturns ==
    \A r \in Routines :
      (rt[r].pc \notin {"idle", "close"} /\ rt[r].dir \in ready[rt[r].fd]) ~> rt[r].pc = "idle"
=============================================================================
