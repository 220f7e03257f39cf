---------------------------- MODULE NodeManager ----------------------------
(***************************************************************************)
(* NodeManager in several processes that each create a node of one and the *)
(* same name.  Every process keeps the owner of the name in nodes_ (a      *)
(* SingleValueWarehouse, keyed by the id of the name) and broadcasts Join  *)
(* and Leave; the process whose node is the newer of two is terminated.    *)
(*                                                                         *)
(* In each process three threads change nodes_: the application's ("app"), *)
(* the RTPS subscriber's ("sub", OnRemoteChange) and the participant       *)
(* listener's ("part", OnTopoModuleLeave).  Add, Search and Remove lock    *)
(* the warehouse one at a time.                                            *)
(***************************************************************************)
EXTENDS Integers, FiniteSets, Sequences, TLC

CONSTANTS
    Procs,      \* processes
    Stamp,      \* the timestamp of the Join of each process
    Quitters,   \* processes that may end without having been told to
    None        \* no process

StampAssumption ==
    /\ Stamp \in [Procs -> Nat] /\ None \notin Procs /\ Quitters \subseteq Procs
    /\ \A p, q \in Procs : Stamp[p] = Stamp[q] => p = q

VARIABLES
    nodes,      \* nodes_ of each process: the owner of the name, or None
    thread,     \* thread[p][t]: where thread t of process p is
    life,       \* what each process's own node is
    doomed,     \* processes that called AsyncShutdown
    mail,       \* mail[p][q]: changes p published that q has yet to handle
    removed     \* removed[q]: participants gone that q has yet to handle

vars == <<nodes, thread, life, doomed, mail, removed>>

Idle == [at |-> "idle", who |-> None, newer |-> None]

Init ==
    /\ nodes = [p \in Procs |-> None]
    /\ thread = [p \in Procs |-> [t \in {"app", "sub", "part"} |-> Idle]]
    /\ life = [p \in Procs |-> "new"]
    /\ doomed = {}
    /\ mail = [p \in Procs |-> [q \in Procs |-> <<>>]]
    /\ removed = [p \in Procs |-> {}]

Runs(p) == life[p] # "gone"

Goto(p, t, at, who, newer) ==
    thread' = [thread EXCEPT ![p][t] = [at |-> at, who |-> who, newer |-> newer]]

\* After Dispose, the application's thread publishes; the others return.
Return(p, t) ==
    IF t = "app" THEN Goto(p, t, "publish", p, None) ELSE Goto(p, t, "idle", None, None)

----------------------------------------------------------------------------
\* Manager::Join of the process's own node: the timestamp is taken first.
Join(p) ==
    /\ life[p] = "new"
    /\ life' = [life EXCEPT ![p] = "up"]
    /\ Goto(p, "app", "add", p, None)
    /\ UNCHANGED <<nodes, doomed, mail, removed>>

\* Manager::Leave, and DisposeLeave: the name is removed, whoever owns it.
Leave(p) ==
    /\ life[p] = "up" /\ thread[p]["app"] = Idle /\ p \in Quitters \cup doomed
    /\ life' = [life EXCEPT ![p] = "left"]
    /\ nodes' = [nodes EXCEPT ![p] = None]
    /\ Goto(p, "app", "publish", p, None)
    /\ UNCHANGED <<doomed, mail, removed>>

Publish(p) ==
    /\ Runs(p) /\ thread[p]["app"].at = "publish"
    /\ LET op == IF life[p] = "up" THEN "join" ELSE "leave"
       IN  mail' = [mail EXCEPT ![p] = [q \in Procs |->
                       IF q = p THEN @[q] ELSE Append(@[q], <<op, p>>)]]
    /\ Goto(p, "app", "idle", None, None)
    /\ UNCHANGED <<nodes, life, doomed, removed>>

\* The process ends; the others are told by the participant listener.
Exit(p) ==
    /\ life[p] \in {"up", "left"} /\ p \in Quitters \cup doomed
    /\ life' = [life EXCEPT ![p] = "gone"]
    /\ removed' = [q \in Procs |-> IF q = p THEN {} ELSE removed[q] \cup {p}]
    /\ thread' = [thread EXCEPT ![p] = [t \in {"app", "sub", "part"} |-> Idle]]
    /\ UNCHANGED <<nodes, doomed, mail>>

----------------------------------------------------------------------------
OnRemoteChange(q, p) ==
    /\ Runs(q) /\ thread[q]["sub"] = Idle /\ mail[p][q] # <<>>
    /\ LET msg == Head(mail[p][q])
       IN  \/ /\ msg[1] = "join"
              /\ Goto(q, "sub", "add", msg[2], None)
              /\ UNCHANGED nodes
           \/ /\ msg[1] = "leave"
              /\ nodes' = [nodes EXCEPT ![q] = None]
              /\ UNCHANGED thread
    /\ mail' = [mail EXCEPT ![p][q] = Tail(@)]
    /\ UNCHANGED <<life, doomed, removed>>

\* DisposeJoin: nodes_.Add(key, node, false).
Add(p, t) ==
    /\ thread[p][t].at = "add"
    /\ LET who == thread[p][t].who
       IN  \/ /\ nodes[p] = None
              /\ nodes' = [nodes EXCEPT ![p] = who]
              /\ Return(p, t)
           \/ /\ nodes[p] # None
              /\ Goto(p, t, "search", who, None)
              /\ UNCHANGED nodes
    /\ UNCHANGED <<life, doomed, mail, removed>>

IsEarlierThan(p, q) == Stamp[p] < Stamp[q]

\* nodes_.Search(key, &existing_node): who is the newer of the two nodes.
Search(p, t) ==
    /\ thread[p][t].at = "search"
    /\ LET who == thread[p][t].who
       IN  \/ /\ nodes[p] = None
              /\ Goto(p, t, "put", who, None)
           \/ /\ nodes[p] # None /\ IsEarlierThan(who, nodes[p])
              /\ Goto(p, t, "put", who, nodes[p])
           \/ /\ nodes[p] # None /\ ~ IsEarlierThan(who, nodes[p])
              /\ Goto(p, t, "check", who, who)
    /\ UNCHANGED <<nodes, life, doomed, mail, removed>>

\* Mutant: a node that loses its name is not checked.
PutReturns(p, t) ==
    /\ thread[p][t].at = "put"
    /\ nodes' = [nodes EXCEPT ![p] = thread[p][t].who]
    /\ Return(p, t)
    /\ UNCHANGED <<life, doomed, mail, removed>>

\* nodes_.Add(key, node).
Put(p, t) ==
    /\ thread[p][t].at = "put"
    /\ nodes' = [nodes EXCEPT ![p] = thread[p][t].who]
    /\ IF thread[p][t].newer = None
         THEN Return(p, t)
         ELSE Goto(p, t, "check", thread[p][t].who, thread[p][t].newer)
    /\ UNCHANGED <<life, doomed, mail, removed>>

\* AsyncShutdown if the newer node is this process's.
Terminate(p, t) ==
    /\ thread[p][t].at = "check"
    /\ doomed' = IF thread[p][t].newer = p THEN doomed \cup {p} ELSE doomed
    /\ Return(p, t)
    /\ UNCHANGED <<nodes, life, mail, removed>>

\* OnTopoModuleLeave: Search by host and process, then Remove by key.
OnTopoModuleLeave(q, p) ==
    /\ Runs(q) /\ thread[q]["part"] = Idle /\ p \in removed[q]
    /\ removed' = [removed EXCEPT ![q] = @ \ {p}]
    /\ IF nodes[q] = p THEN Goto(q, "part", "remove", p, None) ELSE UNCHANGED thread
    /\ UNCHANGED <<nodes, life, doomed, mail>>

Remove(q) ==
    /\ thread[q]["part"].at = "remove"
    /\ nodes' = [nodes EXCEPT ![q] = None]
    /\ Goto(q, "part", "idle", None, None)
    /\ UNCHANGED <<life, doomed, mail, removed>>

Next ==
    \/ \E p \in Procs : Join(p) \/ Leave(p) \/ Publish(p) \/ Exit(p) \/ Remove(p)
    \/ \E p, q \in Procs : OnRemoteChange(q, p) \/ OnTopoModuleLeave(q, p)
    \/ \E p \in Procs, t \in {"app", "sub"} :
           Add(p, t) \/ Search(p, t) \/ Put(p, t) \/ Terminate(p, t)

Spec == Init /\ [][Next]_vars

----------------------------------------------------------------------------
HasNode(p) == nodes[p] # None

\* The state has its shape; a node has been found to be the newer one wherever
\* its attributes are looked at.
TypeOK ==
    /\ nodes \in [Procs -> Procs \cup {None}]
    /\ life \in [Procs -> {"new", "up", "left", "gone"}]
    /\ doomed \subseteq Procs
    /\ \A p \in Procs, t \in {"app", "sub", "part"} :
         /\ thread[p][t].at \in {"idle", "add", "search", "put", "check", "publish", "remove"}
         /\ thread[p][t].at = "check" => thread[p][t].newer # None
         /\ {thread[p][t].who, thread[p][t].newer} \subseteq Procs \cup {None}
    /\ \A p \in Procs : removed[p] \subseteq Procs \ {p}

Settled ==
    /\ \A p \in Procs : Runs(p) => /\ \A t \in DOMAIN thread[p] : thread[p][t] = Idle
                                   /\ removed[p] = {}
    /\ \A p, q \in Procs : Runs(q) => mail[p][q] = <<>>

\* However the Joins, Leaves and ends of processes interleave, a process is
\* only terminated for a node of its name that is older than its own; so the
\* oldest one never is.
OldestSurvives ==
    \A p \in doomed : \E q \in Procs : Stamp[q] < Stamp[p] /\ life[q] # "new"

\* Once all changes have been handled, at most one process keeps a node of
\* the name without having been terminated for it.
OneOwner ==
    Settled => \A p, q \in Procs \ doomed : life[p] = "up" /\ life[q] = "up" => p = q

\* Once all changes have been handled, a process with a live node finds the
\* name with HasNode.
OwnNodeIsFound == Settled => \A p \in Procs \ doomed : life[p] = "up" => HasNode(p)
============================================================================
