----------------------------- MODULE MCDiscovery -----------------------------
(***************************************************************************)
(* Service discovery: the flow graph, the channel, node and service        *)
(* managers, and how writers and readers find each other through them.  A  *)
(* behaviour is one of the instance that subject names.                    *)
(***************************************************************************)
EXTENDS Graph, Sequences

CONSTANTS Subjects, t1, t2, None
VARIABLES
    subject,
    node_roles, channel_roles, node_graph, thread, phase, mail, up, removed,   \* channels
    nodes, node_thread, life, doomed, node_mail, node_removed,                 \* nodes
    servers, clients, role_phase, service_mail, service_up, service_removed, leaving, wait,
                                                                               \* services
    slots, roles, enabled, pc, todo, testing, gone, crashed, listed            \* peers

channelVars == <<node_roles, channel_roles, node_graph, thread, phase, mail, up, removed>>
nodeVars == <<nodes, node_thread, life, doomed, node_mail, node_removed>>
serviceVars == <<servers, clients, role_phase, service_mail, service_up, service_removed, leaving, wait>>
peerVars == <<slots, roles, enabled, pc, todo, testing, gone, crashed, listed>>

\* the concatenation the code builds
MCEdgeKey(c, d) == c \o "_" \o d

\* node a, in process p, writes x and reads y; node b, here, does the opposite
Channel == INSTANCE ChannelManager WITH
    Nodes <- {"a", "b"}, Channels <- {"x", "y"},
    Roles <- {"aWx", "aRy", "bRx", "bWy"}, Writers <- {"aWx", "bWy"},
    NodeOf <- [aWx |-> "a", aRy |-> "a", bRx |-> "b", bWy |-> "b"],
    ChannelOf <- [aWx |-> "x", aRy |-> "y", bRx |-> "x", bWy |-> "y"],
    ProcessOf <- [aWx |-> "p", aRy |-> "p", bRx |-> "self", bWy |-> "self"],
    Self <- "self", Others <- {"p"}, App <- {t1, t2}, InOrder <- TRUE
\* two processes with a node of the same name
Node == INSTANCE NodeManager WITH
    Procs <- {"p", "q"}, Stamp <- [p |-> 1, q |-> 2], Quitters <- {"p", "q"},
    thread <- node_thread, mail <- node_mail, removed <- node_removed
\* servers a and b of two services and a client in process p, a client here
Services == INSTANCE ServiceManager WITH
    Services <- {"s", "t"}, Roles <- {"a", "b", "ca", "cl"}, Servers <- {"a", "b"},
    ServiceOf <- [a |-> "s", b |-> "t", ca |-> "s", cl |-> "s"],
    ProcessOf <- [a |-> "p", b |-> "p", ca |-> "p", cl |-> "self"],
    Self <- "self", Others <- {"p"}, Timeouts <- {12}, StepDuration <- 5,
    phase <- role_phase, mail <- service_mail, up <- service_up, removed <- service_removed
\* a writer and a reader of this process and a writer of another
Peers == INSTANCE PeerDiscovery WITH
    Writers <- {"w", "v"}, Readers <- {"r"}, Remote <- {"v"},
    Id <- [w |-> "w", v |-> "v", r |-> "r"], MayLeave <- {"w", "v", "r"}

ASSUME Channel!RolesAssumption /\ Node!StampAssumption
ASSUME Services!ServicesAssumption /\ Peers!PeerAssumption

DiscoveryInit ==
    subject \in Subjects /\ Init /\ Channel!Init /\ Node!Init /\ Services!Init /\ Peers!Init

DiscoveryNext ==
    /\ UNCHANGED subject
    /\ \/ subject = "graph" /\ Next /\ UNCHANGED <<channelVars, nodeVars, serviceVars, peerVars>>
       \/ subject = "channel" /\ Channel!Next /\ UNCHANGED <<graph, nodeVars, serviceVars, peerVars>>
       \/ subject = "node" /\ Node!Next /\ UNCHANGED <<graph, channelVars, serviceVars, peerVars>>
       \/ subject = "services" /\ Services!Next /\ UNCHANGED <<graph, channelVars, nodeVars, peerVars>>
       \/ subject = "peers" /\ Peers!Next /\ UNCHANGED <<graph, channelVars, nodeVars, serviceVars>>

DiscoverySpec ==
    DiscoveryInit /\ [][DiscoveryNext]_<<subject, graph, channelVars, nodeVars, serviceVars, peerVars>>

Symmetry == Permutations({t1, t2})

-----------------------------------------------------------------------------
\* Between the calls of ChannelManager, the writers and readers it lists are
\* those that joined and did not leave, of processes that still run, once every
\* change has been applied; GetFlowDirection answers what FlowDirection's
\* description says of them; and GetUpstreamOfNode and GetDownstreamOfNode list
\* nodes of that direction.  Graph: the direction is the one that following the
\* recorded writers and readers gives.
FlowIsReal ==
    /\ TypeOK /\ DirectionIsFlow
    /\ subject = "channel" =>
         /\ Channel!TypeOK /\ Channel!RegistryIsCurrent
         /\ Channel!UpstreamFlows /\ Channel!FlowIsReal

\* NodeManager: once all changes have been handled, at most one process keeps
\* a node of the name without having been terminated for it; and however Joins,
\* Leaves and ends of processes interleave, a process is only terminated for a
\* node of its name older than its own.
\* ServiceManager: once all changes have been handled, HasService answers
\* whether a live process serves the service and GetClients lists the live
\* clients; and WaitForServiceNanoseconds returns false only if the service was
\* missing at some point of the wait.
RegistriesAreCurrent ==
    /\ subject = "node" => Node!TypeOK /\ Node!OneOwner /\ Node!OldestSurvives
    /\ subject = "services" =>
         /\ Services!TypeOK /\ Services!ServiceIsKnown
         /\ Services!ClientsAreKnown /\ Services!WaitFinds

\* Writer and Reader: once a writer and a reader have both joined, each that is
\* in this process has the other enabled, in whatever order they came; and a
\* peer that has left stays enabled only in an endpoint that found it when it
\* joined, never in one that was told of it.
Connected == subject = "peers" => Peers!TypeOK /\ Peers!Connected /\ Peers!GhostsWereListed
=============================================================================
