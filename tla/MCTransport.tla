----------------------------- MODULE MCTransport -----------------------------
(***************************************************************************)
(* Messages between endpoints: the listeners of a dispatcher, the hybrid   *)
(* transmitter and receiver, the poller under the sockets, and services.   *)
(* A behaviour is one of the instance that subject names.                  *)
(***************************************************************************)
EXTENDS Integers, TLC

CONSTANTS Subjects, All, None, Raw, Chatter, Nobody, t1, t2, l1, l2, l3, s1, s2, k3, k4, c1, c2
VARIABLES
    subject,
    handlerOf, signals, conns, connected, isShutdown, owner, adds, run, sent, steady, called,
                                                                      \* of a dispatcher
    transmitted, receivers, enabled, msgs, replay, wire, late, life, listening, waits, heard, since,
                                                                      \* of the hybrid endpoints
    polled, ctrl_params, poller, is_shutdown, epoll, ready, rt,       \* of the poller
    sequence_number, pending, mutex, promise, caller, requests, responses, tasks, receiver,
    inited, worker, server, shutdown                                  \* of a service

dispatcherVars ==
    <<handlerOf, signals, conns, connected, isShutdown, owner, adds, run, sent, steady, called>>
hybridVars ==
    <<transmitted, receivers, enabled, msgs, replay, wire, late, life, listening, waits, heard, since>>
pollerVars == <<polled, ctrl_params, poller, is_shutdown, epoll, ready, rt>>
serviceVars ==
    <<sequence_number, pending, mutex, promise, caller, requests, responses, tasks, receiver,
      inited, worker, server, shutdown>>

\* a listener of every sender and one of a single sender come, go and come back
Typed == [x \in {l1, l2, l3, s1, s2} |-> IF x = l3 THEN Raw ELSE Chatter]
Listening == INSTANCE Dispatcher WITH
    Listeners <- {l1, l2}, Senders <- {s1}, Threads <- {t1, t2}, Type <- Typed,
    Opposite <- (l1 :> All @@ l2 :> s1), MaxAdds <- 2, MaxMessages <- 2, Serial <- TRUE
\* listeners of two senders and of raw messages
Kinds == INSTANCE Dispatcher WITH
    Listeners <- {l1, l2, l3}, Senders <- {s1, s2}, Threads <- {k3}, Type <- Typed,
    Opposite <- (l1 :> s1 @@ l2 :> s2 @@ l3 :> All), MaxAdds <- 1, MaxMessages <- 2, Serial <- TRUE

\* a reader of the same process and one on another host, the default modes
Volatile == INSTANCE HybridTransport WITH
    Readers <- {l1, l2}, Place <- (l1 :> "proc" @@ l2 :> "away"),
    MappingTable <- [SAME_PROC |-> "INTRA", DIFF_PROC |-> "SHM", DIFF_HOST |-> "RTPS"],
    Durable <- FALSE, Depth <- 1, Patient <- TRUE, MaxSent <- 3, sent <- transmitted
\* two readers share a mode of a TRANSIENT_LOCAL writer
Durable == INSTANCE HybridTransport WITH
    Readers <- {l1, l2}, Place <- (l1 :> "proc" @@ l2 :> "host"),
    MappingTable <- [SAME_PROC |-> "SHM", DIFF_PROC |-> "SHM", DIFF_HOST |-> "RTPS"],
    Durable <- TRUE, Depth <- 1, Patient <- TRUE, MaxSent <- 2, sent <- transmitted

\* two routines with a socket each
Sockets == INSTANCE Poller WITH
    Routines <- {l1, l2}, Fds <- {3, 4}, FdsOf <- (l1 :> {3} @@ l2 :> {4}), Dirs <- {"in"},
    Timeouts <- {2}, Waits <- {1}, MaxOpen <- 1, MayShutdown <- FALSE, requests <- polled
\* one routine whose descriptor is given out again
Reopen == INSTANCE Poller WITH
    Routines <- {l1}, Fds <- {3}, FdsOf <- (l1 :> {3}), Dirs <- {"in", "out"},
    Timeouts <- {-1, 0, 2}, Waits <- {1, 2}, MaxOpen <- 2, MayShutdown <- TRUE, requests <- polled

\* three callers of two clients and one server, over channels that lose
Calls == INSTANCE Service WITH
    Callers <- {t1, t2, k3}, Clients <- {c1, c2}, Servers <- {s1},
    ClientOf <- [k \in {t1, t2, k3} |-> IF k = k3 THEN c2 ELSE c1],
    MaxRequests <- 2, Faults <- {"loss"}, owner <- server
\* two clients that count alike, and two servers that both answer
Rivals == INSTANCE Service WITH
    Callers <- {k3, k4}, Clients <- {c1, c2}, Servers <- {s1, s2},
    ClientOf <- [k \in {k3, k4} |-> IF k = k3 THEN c2 ELSE c1],
    MaxRequests <- 1, Faults <- {}, owner <- server

ASSUME Listening!DispatcherAssumption /\ Kinds!DispatcherAssumption
ASSUME Volatile!PlaceAssumption /\ Volatile!TableAssumption /\ Volatile!BoundAssumption
ASSUME Durable!PlaceAssumption /\ Durable!TableAssumption /\ Durable!BoundAssumption
ASSUME Sockets!TimeoutsAssumption /\ Sockets!FdsAssumption /\ Sockets!MaxOpenAssumption
ASSUME Reopen!TimeoutsAssumption /\ Reopen!FdsAssumption /\ Reopen!MaxOpenAssumption
ASSUME Calls!ServiceAssumption /\ Rivals!ServiceAssumption

TransportInit ==
    /\ subject \in Subjects
    /\ IF subject = "kinds" THEN Kinds!Init ELSE Listening!Init
    /\ IF subject = "durable" THEN Durable!Init ELSE Volatile!Init
    /\ IF subject = "reopen" THEN Reopen!Init ELSE Sockets!Init
    /\ IF subject = "rivals" THEN Rivals!Init ELSE Calls!Init

DispatcherNext == \/ subject = "listening" /\ Listening!Next
                  \/ subject = "kinds" /\ Kinds!Next
HybridNext == \/ subject = "volatile" /\ Volatile!Next
              \/ subject = "durable" /\ Durable!Next
PollerNext == \/ subject = "sockets" /\ Sockets!Next
              \/ subject = "reopen" /\ Reopen!Next
ServiceNext == \/ subject = "calls" /\ Calls!Next
               \/ subject = "rivals" /\ Rivals!Next

TransportNext ==
    /\ UNCHANGED subject
    /\ \/ DispatcherNext /\ UNCHANGED <<hybridVars, pollerVars, serviceVars>>
       \/ HybridNext /\ UNCHANGED <<dispatcherVars, pollerVars, serviceVars>>
       \/ PollerNext /\ UNCHANGED <<dispatcherVars, hybridVars, serviceVars>>
       \/ ServiceNext /\ UNCHANGED <<dispatcherVars, hybridVars, pollerVars>>

vars == <<subject, dispatcherVars, hybridVars, pollerVars, serviceVars>>
TransportSpec == TransportInit /\ [][TransportNext]_vars

\* t1 and t2 are two dispatching threads, or two callers of one client
Symmetry == Permutations({t1, t2})

-----------------------------------------------------------------------------
\* Dispatcher: a message reaches every listener that was added before
\* OnMessage began and not removed before it ended, once, whatever the other
\* receivers add and remove while the slots are called.
HeardOnce ==
    [][/\ subject = "listening" => Listening!HeardOnceStep
       /\ subject = "kinds" => Kinds!HeardOnceStep]_dispatcherVars

\* Dispatcher: the callback of a listener added for one opposite never runs
\* once its RemoveListener has returned, until the dispatcher is shut down; and
\* every slot still connected belongs to a listener that can disconnect it.
QuietAfterRemove ==
    subject = "listening" =>
        Listening!TypeOK /\ Listening!QuietAfterRemove /\ Listening!CanDisconnect

\* HybridTransmitter and HybridReceiver: a receiver both sides know of misses
\* nothing it is entitled to, the history of a TRANSIENT_LOCAL writer included,
\* although others leave the mode it shares; a mode's transmitter is enabled
\* exactly while the mode has receivers; without a history nothing is heard
\* twice or out of order; and what a late receiver is given is a gapless run
\* that ends with the last message before the transmitter learnt of it.
NothingMissed ==
    /\ subject = "volatile" =>
         /\ Volatile!TypeOK /\ Volatile!NothingMissed
         /\ Volatile!ModeForSomebody /\ Volatile!HeardInOrder
    /\ subject = "durable" => Durable!NothingMissed /\ Durable!ReplayIsNewest

\* Poller: whoever waits will hear of the event, since epoll watches the
\* descriptor, or will once the changes are passed on, or there is a response;
\* no time-out is reported before its time, however the registration falls into
\* a wait; and a registered request belongs to a session that has the
\* descriptor open, until the poller is shut down.
WaitsAreWatched ==
    /\ subject = "sockets" => Sockets!TypeOK /\ Sockets!Armed /\ Sockets!NotEarly
    /\ subject = "reopen" => Reopen!NoDangling

\* Client: each promise is set at most once, and with a response to the very
\* request, though clients count alike, share the response channel, and
\* several servers answer each request; and from its transmission until its
\* promise is set a request is pending, or its caller keeps HandleResponse out.
OwnAnswerOnce ==
    /\ subject = "calls" => Calls!TypeOK /\ Calls!OwnAnswerOnce /\ Calls!NeverUnexpected
    /\ subject = "rivals" => Rivals!OwnAnswerOnce
=============================================================================
