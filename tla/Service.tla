------------------------------ MODULE Service ------------------------------
(***************************************************************************)
(* Client and Service: requests and responses over two RTPS channels that  *)
(* all clients and all servers of a service share.  A client matches the   *)
(* responses with its requests by writer id and sequence number.  A server *)
(* queues the requests and handles them one at a time in its own thread,   *)
(* Process, which destroy() stops.                                         *)
(*                                                                         *)
(* A request is <<client, sequence number>>; a response names the request  *)
(* it answers and the server.  In each client the RTPS listener's thread   *)
(* runs HandleResponse, and callers run SendRequest.                       *)
(***************************************************************************)
EXTENDS Integers, FiniteSets, Sequences

CONSTANTS
    Callers,        \* application threads that call SendRequest
    Clients,
    Servers,        \* servers of the one service
    ClientOf,       \* the client each caller uses
    MaxRequests,    \* bound on the requests of a client
    Faults,         \* what may happen, of "loss", "destroy", "shutdown" and "fail"
    Nobody          \* holder of a free mutex

ServiceAssumption ==
    /\ ClientOf \in [Callers -> Clients] /\ MaxRequests \in Nat
    /\ Faults \subseteq {"loss", "destroy", "shutdown", "fail"} /\ Nobody \notin Callers

VARIABLES
    sequence_number,  \* of each client
    pending,          \* keys of pending_requests_ of each client
    mutex,            \* holder of pending_requests_mutex_ of each client
    promise,          \* promise[c][n]: the responses given to set_value
    caller,           \* where each caller is, with its sequence number
    requests,         \* requests under way to each server
    responses,        \* responses under way to each client
    tasks,            \* tasks_ of each server
    receiver,         \* request_receiver_ of each server exists
    inited,           \* inited_ of each server
    worker,           \* where Process is in each server
    owner,            \* where Init or destroy() is in each server
    shutdown          \* IsShutdown()

clientVars == <<sequence_number, pending, mutex, promise, caller>>
serverVars == <<tasks, receiver, inited, worker, owner>>
vars == <<clientVars, requests, responses, serverVars, shutdown>>

Request == Clients \X (1..MaxRequests)

Init ==
    /\ sequence_number = [c \in Clients |-> 0]
    /\ pending = [c \in Clients |-> {}]
    /\ mutex = [c \in Clients |-> Nobody]
    /\ promise = [c \in Clients |-> [n \in 1..MaxRequests |-> {}]]
    /\ caller = [k \in Callers |-> [at |-> "idle", seq |-> 0]]
    /\ requests = [s \in Servers |-> <<>>]
    /\ responses = [c \in Clients |-> <<>>]
    /\ tasks = [s \in Servers |-> <<>>]
    /\ receiver = [s \in Servers |-> FALSE]
    /\ inited = [s \in Servers |-> FALSE]
    /\ worker = [s \in Servers |-> [at |-> "none", task |-> <<>>]]
    /\ owner = [s \in Servers |-> "new"]
    /\ shutdown = FALSE

----------------------------------------------------------------------------
\* AsyncSendRequest: the lock is taken and a number drawn.
Lock(k) ==
    LET c == ClientOf[k] IN
    /\ caller[k].at = "idle" /\ mutex[c] = Nobody
    /\ sequence_number[c] < MaxRequests
    /\ mutex' = [mutex EXCEPT ![c] = k]
    /\ sequence_number' = [sequence_number EXCEPT ![c] = @ + 1]
    /\ caller' = [caller EXCEPT ![k] = [at |-> "transmit", seq |-> sequence_number[c] + 1]]
    /\ UNCHANGED <<pending, promise, requests, responses, serverVars, shutdown>>

\* A server that subscribes later receives it too (DURABILITY_TRANSIENT_LOCAL).
Broadcast(channel, msg) == [r \in DOMAIN channel |-> Append(channel[r], msg)]

Transmit(k) ==
    LET c == ClientOf[k] IN
    /\ caller[k].at = "transmit"
    /\ requests' = Broadcast(requests, <<c, caller[k].seq>>)
    /\ caller' = [caller EXCEPT ![k].at = "register"]
    /\ UNCHANGED <<sequence_number, pending, mutex, promise, responses, serverVars, shutdown>>

\* The request is pending; the lock is released.
Register(k) ==
    LET c == ClientOf[k] IN
    /\ caller[k].at = "register"
    /\ pending' = [pending EXCEPT ![c] = @ \cup {caller[k].seq}]
    /\ mutex' = [mutex EXCEPT ![c] = Nobody]
    /\ caller' = [caller EXCEPT ![k].at = "wait"]
    /\ UNCHANGED <<sequence_number, promise, requests, responses, serverVars, shutdown>>

\* SendRequest returns when the future is ready or after the timeout, in which
\* case the request stays pending.
Finish(k) ==
    /\ caller[k].at = "wait"
    /\ caller' = [caller EXCEPT ![k] = [at |-> "idle", seq |-> 0]]
    /\ UNCHANGED <<sequence_number, pending, mutex, promise, requests, responses,
                   serverVars, shutdown>>

\* Mutant: the response of another client is accepted.
AcceptsAny(c, response) == response.to[2] \in pending[c]

\* spare_id is the writer of the request.
Accepts(c, response) == response.to[1] = c /\ response.to[2] \in pending[c]

Erased(c, n) == pending[c] \ {n}

HandleResponse(c) ==
    /\ responses[c] # <<>> /\ mutex[c] = Nobody
    /\ LET response == Head(responses[c])
           n        == response.to[2]
       IN  \/ /\ Accepts(c, response)
              /\ pending' = [pending EXCEPT ![c] = Erased(c, n)]
              /\ promise' = [promise EXCEPT ![c][n] = @ \cup {response}]
           \/ /\ ~ Accepts(c, response)
              /\ UNCHANGED <<pending, promise>>
    /\ responses' = [responses EXCEPT ![c] = Tail(@)]
    /\ UNCHANGED <<sequence_number, mutex, caller, requests, serverVars, shutdown>>

----------------------------------------------------------------------------
Notified(s) == [worker EXCEPT ![s].at = IF @ = "blocked" THEN "test" ELSE @]

\* Init creates the receiver, which may fail.
Subscribe(s) ==
    /\ owner[s] = "new"
    /\ \/ receiver' = [receiver EXCEPT ![s] = TRUE]
       \/ "fail" \in Faults /\ UNCHANGED receiver
    /\ owner' = [owner EXCEPT ![s] = "start"]
    /\ UNCHANGED <<clientVars, requests, responses, tasks, inited, worker, shutdown>>

\* Then, in either case, the thread; a server that failed is destructed.
Start(s) ==
    /\ owner[s] = "start"
    /\ inited' = [inited EXCEPT ![s] = TRUE]
    /\ worker' = [worker EXCEPT ![s].at = "loop"]
    /\ owner' = [owner EXCEPT ![s] = IF receiver[s] THEN "serving" ELSE "destroy"]
    /\ UNCHANGED <<clientVars, requests, responses, tasks, receiver, shutdown>>

\* Mutant: the worker is not notified.
EnqueueSilently(s) ==
    /\ receiver[s] /\ requests[s] # <<>>
    /\ tasks' = [tasks EXCEPT ![s] = Append(@, Head(requests[s]))]
    /\ requests' = [requests EXCEPT ![s] = Tail(@)]
    /\ UNCHANGED <<clientVars, responses, inited, worker, owner, receiver, shutdown>>

\* The receiver's callback, which holds queue_mutex_.
Enqueue(s) ==
    /\ receiver[s] /\ requests[s] # <<>>
    /\ tasks' = [tasks EXCEPT ![s] = Append(@, Head(requests[s]))]
    /\ requests' = [requests EXCEPT ![s] = Tail(@)]
    /\ worker' = Notified(s)
    /\ UNCHANGED <<clientVars, responses, inited, owner, receiver, shutdown>>

\* Process: while (!cyber::IsShutdown()).
Loop(s) ==
    /\ worker[s].at = "loop"
    /\ worker' = [worker EXCEPT ![s].at = IF shutdown THEN "done" ELSE "test"]
    /\ UNCHANGED <<clientVars, requests, responses, tasks, inited, owner, receiver, shutdown>>

\* The predicate of the wait and, when it holds, what follows it, all under
\* queue_mutex_.
Test(s) ==
    /\ worker[s].at = "test"
    /\ \/ /\ ~ inited[s]
          /\ worker' = [worker EXCEPT ![s].at = "done"]
          /\ UNCHANGED tasks
       \/ /\ inited[s] /\ tasks[s] # <<>>
          /\ worker' = [worker EXCEPT ![s] = [at |-> "handle", task |-> Head(tasks[s])]]
          /\ tasks' = [tasks EXCEPT ![s] = Tail(@)]
       \/ /\ inited[s] /\ tasks[s] = <<>>
          /\ worker' = [worker EXCEPT ![s].at = "blocked"]
          /\ UNCHANGED tasks
    /\ UNCHANGED <<clientVars, requests, responses, inited, owner, receiver, shutdown>>

\* HandleRequest and SendResponse: every client of the service receives it.
HandleRequest(s) ==
    /\ worker[s].at = "handle"
    /\ responses' = Broadcast(responses, [to |-> worker[s].task, from |-> s])
    /\ worker' = [worker EXCEPT ![s] = [at |-> "loop", task |-> <<>>]]
    /\ UNCHANGED <<clientVars, requests, tasks, inited, owner, receiver, shutdown>>

----------------------------------------------------------------------------
\* destroy(), or the destructor.
Destroy(s) ==
    /\ owner[s] = "destroy" \/ (owner[s] = "serving" /\ "destroy" \in Faults)
    /\ inited' = [inited EXCEPT ![s] = FALSE]
    /\ owner' = [owner EXCEPT ![s] = "clear"]
    /\ UNCHANGED <<clientVars, requests, responses, tasks, worker, receiver, shutdown>>

Clear(s) ==
    /\ owner[s] = "clear"
    /\ tasks' = [tasks EXCEPT ![s] = <<>>]
    /\ owner' = [owner EXCEPT ![s] = "notify"]
    /\ UNCHANGED <<clientVars, requests, responses, inited, worker, receiver, shutdown>>

NotifyAll(s) ==
    /\ owner[s] = "notify"
    /\ worker' = Notified(s)
    /\ owner' = [owner EXCEPT ![s] = "join"]
    /\ UNCHANGED <<clientVars, requests, responses, tasks, inited, receiver, shutdown>>

Joined(s) ==
    /\ owner[s] = "join" /\ worker[s].at = "done"
    /\ owner' = [owner EXCEPT ![s] = "destroyed"]
    /\ UNCHANGED <<clientVars, requests, responses, tasks, inited, worker, receiver, shutdown>>

Shutdown ==
    /\ "shutdown" \in Faults /\ ~ shutdown
    /\ shutdown' = TRUE
    /\ UNCHANGED <<clientVars, requests, responses, serverVars>>

\* The oldest message of a full KEEP_LAST history, or the end of a process.
Lose ==
    /\ "loss" \in Faults
    /\ \/ \E s \in Servers :
            /\ requests[s] # <<>>
            /\ requests' = [requests EXCEPT ![s] = Tail(@)]
            /\ UNCHANGED responses
       \/ \E c \in Clients :
            /\ responses[c] # <<>>
            /\ responses' = [responses EXCEPT ![c] = Tail(@)]
            /\ UNCHANGED requests
    /\ UNCHANGED <<clientVars, serverVars, shutdown>>

CallerStep(k) == Transmit(k) \/ Register(k) \/ Finish(k)

WorkerStep(s) == Loop(s) \/ Test(s) \/ HandleRequest(s)

DestroyStep(s) == (owner[s] = "destroy" /\ Destroy(s)) \/ Clear(s) \/ NotifyAll(s) \/ Joined(s)

Next ==
    \/ \E k \in Callers : Lock(k) \/ CallerStep(k)
    \/ \E c \in Clients : HandleResponse(c)
    \/ \E s \in Servers : Subscribe(s) \/ Start(s) \/ Enqueue(s) \/ WorkerStep(s)
    \/ \E s \in Servers : Destroy(s) \/ Clear(s) \/ NotifyAll(s) \/ Joined(s)
    \/ Shutdown \/ Lose

Spec == Init /\ [][Next]_vars

\* Every thread that can run does, and RTPS delivers.
FairSpec ==
    /\ Spec
    /\ \A k \in Callers : WF_vars(CallerStep(k))
    /\ \A c \in Clients : SF_vars(HandleResponse(c))
    /\ \A s \in Servers : /\ WF_vars(Start(s)) /\ WF_vars(Enqueue(s))
                          /\ WF_vars(WorkerStep(s)) /\ WF_vars(DestroyStep(s))

----------------------------------------------------------------------------
\* The state has its shape; a caller inside the lock is its holder; each server
\* handles a task only while it has one.
TypeOK ==
    /\ sequence_number \in [Clients -> 0..MaxRequests]
    /\ \A c \in Clients : pending[c] \subseteq 1..sequence_number[c]
    /\ \A k \in Callers : caller[k].at \in {"transmit", "register"} => mutex[ClientOf[k]] = k
    /\ \A s \in Servers : worker[s].at = "handle" <=> worker[s].task \in Request
    /\ {receiver, inited} \subseteq [Servers -> BOOLEAN] /\ shutdown \in BOOLEAN

\* Each promise is set at most once (a second set_value would throw), and with
\* a response to the very request, though clients count alike, share the
\* response channel, and several servers answer each request.
OwnAnswerOnce ==
    \A c \in Clients, n \in 1..MaxRequests :
        /\ Cardinality(promise[c][n]) <= 1
        /\ \A r \in promise[c][n] : r.to = <<c, n>>

\* A response never comes too early: from the moment a request is transmitted
\* until its promise is set it is pending, or its caller keeps HandleResponse
\* out with the lock.
NeverUnexpected ==
    \A c \in Clients : \A n \in 1..sequence_number[c] :
        \/ n \in pending[c] \/ promise[c][n] # {}
        \/ \E k \in Callers : mutex[c] = k /\ caller[k].seq = n

\* Where nothing is lost and no server stops, a request under way to
\* a server is answered: no notification of the worker is missed.
Answered ==
    \A c \in Clients, n \in 1..MaxRequests :
        (\E s \in Servers : receiver[s] /\ \E i \in DOMAIN requests[s] : requests[s][i] = <<c, n>>)
            ~> promise[c][n] # {}

\* destroy() and the destructor return, whatever the worker was doing: the
\* flag, set without the lock, and the notification are not missed by it.
DestroyReturns == \A s \in Servers : owner[s] \in {"destroy", "clear"} ~> owner[s] = "destroyed"
============================================================================
