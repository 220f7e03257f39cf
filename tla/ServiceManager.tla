-------------------------- MODULE ServiceManager --------------------------
(***************************************************************************)
(* ServiceManager of one process: the servers it knows of, one for each    *)
(* service (SingleValueWarehouse), and the clients (MultiValueWarehouse),  *)
(* changed by local Join and Leave, by the RTPS subscriber thread          *)
(* (OnRemoteChange) and by the participant listener (OnTopoModuleLeave);   *)
(* and WaitForService of a client in this process, which polls HasService. *)
(*                                                                         *)
(* Roles stand for distinct attributes: a role matches itself only.        *)
(***************************************************************************)
EXTENDS Integers, FiniteSets, Sequences

CONSTANTS
    Services,
    Roles, Servers,         \* servers and clients; the servers among them
    ServiceOf, ProcessOf,   \* attributes of a role
    Self, Others,           \* this process; the other ones
    Timeouts,               \* what WaitForService is called with, in ms
    StepDuration,           \* step_duration of the polls, in ms
    None

ServicesAssumption ==
    /\ Servers \subseteq Roles /\ ServiceOf \in [Roles -> Services]
    /\ ProcessOf \in [Roles -> Others \cup {Self}] /\ Self \notin Others
    /\ Timeouts \subseteq Int /\ StepDuration \in Nat \ {0} /\ None \notin Roles

VARIABLES
    servers,    \* servers_: the role for each service, or None
    clients,    \* clients_
    phase,      \* what the owner of a role has announced of it
    mail,       \* what the other processes published and is to come
    up,         \* live processes
    removed,    \* participants gone, to be reported
    leaving,    \* OnTopoModuleLeave: where it is, for whom, what it found
    wait        \* WaitForService: where it is, service, time_out, answer

vars == <<servers, clients, phase, mail, up, removed, leaving, wait>>

NotLeaving == [at |-> "idle", proc |-> Self, todo |-> {}]

NotWaiting == [at |-> "idle", service |-> None, time_out |-> 0, absent |-> FALSE,
               has_service |-> FALSE]

Init ==
    /\ servers = [s \in Services |-> None]
    /\ clients = {}
    /\ phase = [r \in Roles |-> "new"]
    /\ mail = [p \in Others |-> <<>>]
    /\ up = Others
    /\ removed = {}
    /\ leaving = NotLeaving
    /\ wait = NotWaiting

----------------------------------------------------------------------------
\* servers_.Add replaces the server that was there.
DisposeJoin(r) ==
    IF r \in Servers
      THEN servers' = [servers EXCEPT ![ServiceOf[r]] = r] /\ UNCHANGED clients
      ELSE clients' = clients \cup {r} /\ UNCHANGED servers

\* servers_.Remove(service_id) and clients_.Remove(service_id, role).
DisposeLeave(r) ==
    IF r \in Servers
      THEN servers' = [servers EXCEPT ![ServiceOf[r]] = None] /\ UNCHANGED clients
      ELSE clients' = clients \ {r} /\ UNCHANGED servers

\* Manager::Join and Leave in this process; each role does so once.
Join(r) ==
    /\ ProcessOf[r] = Self /\ phase[r] = "new"
    /\ phase' = [phase EXCEPT ![r] = "in"]
    /\ DisposeJoin(r)
    /\ UNCHANGED <<mail, up, removed, leaving, wait>>

Leave(r) ==
    /\ ProcessOf[r] = Self /\ phase[r] = "in"
    /\ phase' = [phase EXCEPT ![r] = "out"]
    /\ DisposeLeave(r)
    /\ UNCHANGED <<mail, up, removed, leaving, wait>>

\* The same calls in another process.
Publish(r) ==
    /\ ProcessOf[r] \in up
    /\ \/ /\ phase[r] = "new"
          /\ phase' = [phase EXCEPT ![r] = "in"]
          /\ mail' = [mail EXCEPT ![ProcessOf[r]] = Append(@, <<"join", r>>)]
       \/ /\ phase[r] = "in"
          /\ phase' = [phase EXCEPT ![r] = "out"]
          /\ mail' = [mail EXCEPT ![ProcessOf[r]] = Append(@, <<"leave", r>>)]
    /\ UNCHANGED <<servers, clients, up, removed, leaving, wait>>

\* A process ends without a Leave; what it published last may be lost with it.
Exit(p) ==
    /\ p \in up
    /\ up' = up \ {p}
    /\ removed' = removed \cup {p}
    /\ \E n \in 0 .. Len(mail[p]) : mail' = [mail EXCEPT ![p] = SubSeq(@, 1, n)]
    /\ UNCHANGED <<servers, clients, phase, leaving, wait>>

OnRemoteChange(p) ==
    /\ mail[p] # <<>>
    /\ LET msg == Head(mail[p])
       IN  \/ msg[1] = "join" /\ DisposeJoin(msg[2])
           \/ msg[1] = "leave" /\ DisposeLeave(msg[2])
    /\ mail' = [mail EXCEPT ![p] = Tail(@)]
    /\ UNCHANGED <<phase, up, removed, leaving, wait>>

----------------------------------------------------------------------------
\* OnTopoModuleLeave: servers_ is searched.  RTPS reports a process gone after
\* its last message.
OnTopoModuleLeave(p) ==
    /\ leaving = NotLeaving /\ p \in removed /\ mail[p] = <<>>
    /\ removed' = removed \ {p}
    /\ leaving' = [at |-> "servers", proc |-> p,
                   todo |-> {s \in Services : servers[s] # None /\ ProcessOf[servers[s]] = p}]
    /\ UNCHANGED <<servers, clients, phase, mail, up, wait>>

\* What was found is removed by its service, then clients_ is searched.
RemoveServer ==
    /\ leaving.at = "servers"
    /\ \/ \E s \in leaving.todo :
            /\ servers' = [servers EXCEPT ![s] = None]
            /\ leaving' = [leaving EXCEPT !.todo = @ \ {s}]
       \/ /\ leaving.todo = {}
          /\ leaving' = [leaving EXCEPT !.at = "clients",
                                        !.todo = {r \in clients : ProcessOf[r] = leaving.proc}]
          /\ UNCHANGED servers
    /\ UNCHANGED <<clients, phase, mail, up, removed, wait>>

RemoveClient ==
    /\ leaving.at = "clients"
    /\ \/ \E r \in leaving.todo :
            /\ clients' = clients \ {r}
            /\ leaving' = [leaving EXCEPT !.todo = @ \ {r}]
       \/ /\ leaving.todo = {}
          /\ leaving' = NotLeaving
          /\ UNCHANGED clients
    /\ UNCHANGED <<servers, phase, mail, up, removed, wait>>

----------------------------------------------------------------------------
HasService(s) == servers[s] # None

GetClients(s) == {r \in clients : ServiceOf[r] = s}

WaitForService(s, time_out) ==
    /\ wait.at = "idle"
    /\ wait' = [NotWaiting EXCEPT !.at = "poll", !.service = s, !.time_out = time_out,
                              !.absent = ~ HasService(s)]
    /\ UNCHANGED <<servers, clients, phase, mail, up, removed, leaving>>

\* One turn of the loop in WaitForServiceNanoseconds; absent is the model's
\* record that there was no server at the call or at a poll.
Poll ==
    /\ wait.at = "poll" /\ wait.time_out > 0
    /\ \/ /\ HasService(wait.service)
          /\ wait' = [wait EXCEPT !.at = "returned", !.has_service = TRUE]
       \/ /\ ~ HasService(wait.service)
          /\ wait' = [wait EXCEPT !.absent = TRUE, !.time_out = @ - StepDuration]
    /\ UNCHANGED <<servers, clients, phase, mail, up, removed, leaving>>

TimedOut ==
    /\ wait.at = "poll" /\ wait.time_out <= 0
    /\ wait' = [wait EXCEPT !.at = "returned"]
    /\ UNCHANGED <<servers, clients, phase, mail, up, removed, leaving>>

Next ==
    \/ \E r \in Roles : Join(r) \/ Leave(r) \/ Publish(r)
    \/ \E p \in Others : Exit(p) \/ OnRemoteChange(p) \/ OnTopoModuleLeave(p)
    \/ RemoveServer \/ RemoveClient
    \/ \E s \in Services, time_out \in Timeouts : WaitForService(s, time_out)
    \/ Poll \/ TimedOut

Spec == Init /\ [][Next]_vars

----------------------------------------------------------------------------
\* The state has its shape; servers_ has servers of the service only.
TypeOK ==
    /\ \A s \in Services : servers[s] # None => servers[s] \in Servers /\ ServiceOf[servers[s]] = s
    /\ clients \subseteq Roles \ Servers
    /\ phase \in [Roles -> {"new", "in", "out"}]
    /\ up \subseteq Others /\ removed \subseteq Others \ up
    /\ leaving.at = "idle" => leaving = NotLeaving

Alive(r) == phase[r] = "in" /\ ProcessOf[r] \in up \cup {Self}

Settled == leaving = NotLeaving /\ removed = {} /\ \A p \in Others : mail[p] = <<>>

\* Once all changes have been handled, HasService answers whether a live
\* process serves the service, in whatever order servers and processes came
\* and went.
ServiceIsKnown ==
    Settled => \A s \in Services : HasService(s) <=> \E r \in Servers : ServiceOf[r] = s /\ Alive(r)

\* Once all changes have been handled, GetClients lists the live clients.
ClientsAreKnown ==
    Settled => \A s \in Services :
                   GetClients(s) = {r \in Roles \ Servers : ServiceOf[r] = s /\ Alive(r)}

\* WaitForService returns false only if the service was missing at some point
\* of the wait: a service that is there all the time is found.
WaitFinds == wait.at = "returned" /\ ~ wait.has_service => wait.absent
============================================================================
