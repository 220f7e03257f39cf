--------------------------- MODULE ChannelManager ---------------------------
(***************************************************************************)
(* ChannelManager of one process: the writers and readers it knows of, in  *)
(* warehouses by node and by channel, and the node graph derived from      *)
(* them.  Three kinds of threads change it: application threads that call  *)
(* Join and Leave for local roles, the RTPS subscriber thread that runs    *)
(* OnRemoteChange for what other processes published, and the participant  *)
(* listener that runs OnTopoModuleLeave when a process is gone.            *)
(*                                                                         *)
(* Each warehouse and the graph has a lock of its own and nothing covers   *)
(* them together: a Dispose is three steps (node, channel, graph).         *)
(***************************************************************************)
EXTENDS Integers, FiniteSets, Sequences, TLC

CONSTANTS
    Nodes, Channels, Dummy, EdgeKey(_, _),      \* see Graph
    Roles, Writers,     \* identities of writers and readers; the writers
    NodeOf, ChannelOf, ProcessOf,               \* attributes of a role
    Self, Others,       \* this process; the other ones
    App,                \* application threads of this process
    InOrder             \* the participant listener reports a process gone
                        \* after all its messages have been handled

RolesAssumption ==
    /\ Writers \subseteq Roles
    /\ NodeOf \in [Roles -> Nodes] /\ ChannelOf \in [Roles -> Channels]
    /\ ProcessOf \in [Roles -> Others \cup {Self}] /\ Self \notin Others
    /\ InOrder \in BOOLEAN

VARIABLES
    node_roles,     \* node_writers_ and node_readers_
    channel_roles,  \* channel_writers_ and channel_readers_
    node_graph,     \* node_graph_
    thread,         \* what each thread is doing
    phase,          \* what the owner of a role has announced of it
    mail,           \* what the other processes published and is to come
    up, removed     \* live processes; participants reported gone

vars == <<node_roles, channel_roles, node_graph, thread, phase, mail, up, removed>>

G == INSTANCE Graph WITH graph <- node_graph

Threads == App \cup {"subscriber", "participant"}

Idle == [op |-> "idle", at |-> "idle", role |-> "none", proc |-> Self, todo |-> {}]

Init ==
    /\ node_roles = {}
    /\ channel_roles = {}
    /\ node_graph = G!EmptyGraph
    /\ thread = [t \in Threads |-> Idle]
    /\ phase = [r \in Roles |-> "new"]
    /\ mail = [p \in Others |-> <<>>]
    /\ up = Others
    /\ removed = {}

----------------------------------------------------------------------------
(* Callers.  A writer or reader joins once and leaves once, in this order,  *)
(* and a local one leaves after its Join has returned.                      *)

Begin(op, r, todo) == [op |-> op, at |-> "node", role |-> r, proc |-> Self, todo |-> todo]

Busy(r) == \E t \in Threads : thread[t].role = r

Join(t, r) ==
    /\ thread[t] = Idle /\ ProcessOf[r] = Self /\ phase[r] = "new"
    /\ phase' = [phase EXCEPT ![r] = "in"]
    /\ thread' = [thread EXCEPT ![t] = Begin("join", r, {})]
    /\ UNCHANGED <<node_roles, channel_roles, node_graph, mail, up, removed>>

Leave(t, r) ==
    /\ thread[t] = Idle /\ ProcessOf[r] = Self /\ phase[r] = "in" /\ ~ Busy(r)
    /\ phase' = [phase EXCEPT ![r] = "out"]
    /\ thread' = [thread EXCEPT ![t] = Begin("leave", r, {})]
    /\ UNCHANGED <<node_roles, channel_roles, node_graph, mail, up, removed>>

\* The same calls in another process: Publish sends the change.
Publish(r) ==
    /\ ProcessOf[r] \in up
    /\ \/ /\ phase[r] = "new"
          /\ phase' = [phase EXCEPT ![r] = "in"]
          /\ mail' = [mail EXCEPT ![ProcessOf[r]] = Append(@, <<"join", r>>)]
       \/ /\ phase[r] = "in"
          /\ phase' = [phase EXCEPT ![r] = "out"]
          /\ mail' = [mail EXCEPT ![ProcessOf[r]] = Append(@, <<"leave", r>>)]
    /\ UNCHANGED <<node_roles, channel_roles, node_graph, thread, up, removed>>

\* A process ends, with or without its roles leaving first; what it published
\* last may be lost with it.
Exit(p) ==
    /\ p \in up
    /\ up' = up \ {p}
    /\ removed' = removed \cup {p}
    /\ \E n \in 0 .. Len(mail[p]) : mail' = [mail EXCEPT ![p] = SubSeq(@, 1, n)]
    /\ UNCHANGED <<node_roles, channel_roles, node_graph, thread, phase>>

OnRemoteChange(p) ==
    /\ thread["subscriber"] = Idle /\ mail[p] # <<>>
    /\ LET msg == Head(mail[p])
       IN  thread' = [thread EXCEPT !["subscriber"] = Begin(msg[1], msg[2], {})]
    /\ mail' = [mail EXCEPT ![p] = Tail(@)]
    /\ UNCHANGED <<node_roles, channel_roles, node_graph, phase, up, removed>>

OnTopoModuleLeave(p) ==
    /\ thread["participant"] = Idle /\ p \in removed
    /\ InOrder => mail[p] = <<>> /\ ~ \E r \in Roles : ProcessOf[r] = p /\ Busy(r)
    /\ removed' = removed \ {p}
    /\ thread' = [thread EXCEPT !["participant"] =
                     [Idle EXCEPT !.op = "search", !.at = "writers", !.proc = p]]
    /\ UNCHANGED <<node_roles, channel_roles, node_graph, phase, mail, up>>

----------------------------------------------------------------------------
\* The writers in todo first, then the readers, in the order of the warehouse.
NextLeave(t, todo) ==
    IF todo = {} THEN thread' = [thread EXCEPT ![t] = Idle]
    ELSE \E r \in IF todo \cap Writers # {} THEN todo \cap Writers ELSE todo :
            thread' = [thread EXCEPT ![t] = Begin("leave", r, todo \ {r})]

\* The two searches of OnTopoModuleLeave.
SearchWriters(t) ==
    /\ thread[t].at = "writers"
    /\ thread' = [thread EXCEPT ![t].at = "readers",
                                ![t].todo = {r \in channel_roles \cap Writers :
                                                ProcessOf[r] = thread[t].proc}]
    /\ UNCHANGED <<node_roles, channel_roles, node_graph, phase, mail, up, removed>>

SearchReaders(t) ==
    /\ thread[t].at = "readers"
    /\ NextLeave(t, thread[t].todo \cup {r \in channel_roles \ Writers :
                                            ProcessOf[r] = thread[t].proc})
    /\ UNCHANGED <<node_roles, channel_roles, node_graph, phase, mail, up, removed>>

\* The three steps of DisposeJoin and of DisposeLeave.
DisposeNode(t) ==
    /\ thread[t].at = "node"
    /\ node_roles' = IF thread[t].op = "join" THEN node_roles \cup {thread[t].role}
                                              ELSE node_roles \ {thread[t].role}
    /\ thread' = [thread EXCEPT ![t].at = "channel"]
    /\ UNCHANGED <<channel_roles, node_graph, phase, mail, up, removed>>

DisposeChannel(t) ==
    /\ thread[t].at = "channel"
    /\ channel_roles' = IF thread[t].op = "join" THEN channel_roles \cup {thread[t].role}
                                                 ELSE channel_roles \ {thread[t].role}
    /\ thread' = [thread EXCEPT ![t].at = "graph"]
    /\ UNCHANGED <<node_roles, node_graph, phase, mail, up, removed>>

Changed(op, g, r) ==
    LET s == IF r \in Writers THEN NodeOf[r] ELSE Dummy
        d == IF r \in Writers THEN Dummy ELSE NodeOf[r]
    IN  IF op = "join" THEN G!Inserted(g, s, ChannelOf[r], d)
                       ELSE G!Deleted(g, s, ChannelOf[r], d)

\* Mutant: a leave that never reaches the graph.
DisposeGraphJoinOnly(t) ==
    /\ thread[t].at = "graph"
    /\ node_graph' = IF thread[t].op = "join"
                       THEN Changed("join", node_graph, thread[t].role) ELSE node_graph
    /\ NextLeave(t, thread[t].todo)
    /\ UNCHANGED <<node_roles, channel_roles, phase, mail, up, removed>>

DisposeGraph(t) ==
    /\ thread[t].at = "graph"
    /\ node_graph' = Changed(thread[t].op, node_graph, thread[t].role)
    /\ NextLeave(t, thread[t].todo)
    /\ UNCHANGED <<node_roles, channel_roles, phase, mail, up, removed>>

Next ==
    \/ \E t \in App, r \in Roles : Join(t, r) \/ Leave(t, r)
    \/ \E r \in Roles : Publish(r)
    \/ \E p \in Others : Exit(p) \/ OnRemoteChange(p) \/ OnTopoModuleLeave(p)
    \/ \E t \in Threads : SearchWriters(t) \/ SearchReaders(t)
    \/ \E t \in Threads : DisposeNode(t) \/ DisposeChannel(t) \/ DisposeGraph(t)

Spec == Init /\ [][Next]_vars

----------------------------------------------------------------------------
(* The questions the manager answers.                                       *)

GetReadersOfNode(n) == {r \in node_roles \ Writers : NodeOf[r] = n}

GetWritersOfNode(n) == {r \in node_roles \cap Writers : NodeOf[r] = n}

GetWritersOfChannel(c) == {r \in channel_roles \cap Writers : ChannelOf[r] = c}

GetReadersOfChannel(c) == {r \in channel_roles \ Writers : ChannelOf[r] = c}

GetUpstreamOfNode(n) ==
    {NodeOf[w] : w \in UNION {GetWritersOfChannel(ChannelOf[r]) : r \in GetReadersOfNode(n)}}

GetDownstreamOfNode(n) ==
    {NodeOf[r] : r \in UNION {GetReadersOfChannel(ChannelOf[w]) : w \in GetWritersOfNode(n)}}

GetFlowDirection(lhs, rhs) == G!GetDirectionOf(node_graph, lhs, rhs)

----------------------------------------------------------------------------
\* The state has its shape, and OnTopoModuleLeave only ever takes out roles of
\* a process that is gone.
TypeOK ==
    /\ node_roles \subseteq Roles /\ channel_roles \subseteq Roles
    /\ G!IsGraph(node_graph)
    /\ phase \in [Roles -> {"new", "in", "out"}]
    /\ up \subseteq Others /\ removed \subseteq Others
    /\ \A t \in Threads :
         /\ thread[t].op \in {"idle", "join", "leave", "search"}
         /\ thread[t].at \in {"idle", "writers", "readers", "node", "channel", "graph"}
         /\ thread[t].role \in Roles \cup {"none"} 
         /\ thread[t].todo \subseteq {r \in Roles : ProcessOf[r] \in Others \ up}

Settled == \A t \in Threads : thread[t] = Idle

\* Once every change has been applied, the writers and readers the manager
\* lists, by node and by channel, are those that joined and did not leave, of
\* processes that still run: no thread's Dispose or OnTopoModuleLeave undoes
\* another's.
RegistryIsCurrent ==
    Settled /\ removed = {} /\ (\A p \in Others : mail[p] = <<>>) =>
        /\ node_roles = channel_roles
        /\ channel_roles = {r \in Roles : phase[r] = "in" /\ ProcessOf[r] \in up \cup {Self}}

\* Between calls, a node that GetUpstreamOfNode lists is UPSTREAM according to
\* GetFlowDirection, and GetDownstreamOfNode lists the opposite relation: the
\* warehouses and the graph agree.
UpstreamFlows ==
    Settled => \A a, b \in Nodes : a # b =>
        /\ a \in GetUpstreamOfNode(b) => GetFlowDirection(a, b) = "UPSTREAM"
        /\ a \in GetUpstreamOfNode(b) <=> b \in GetDownstreamOfNode(a)

\* Between calls, GetFlowDirection answers what FlowDirection's description
\* says of the writers and readers the manager lists: no path that no writer
\* and reader make.
FlowIsReal ==
    Settled =>
        LET feeds == {e \in Nodes \X Nodes : e[1] \in GetUpstreamOfNode(e[2])}
            R == G!Reaches(feeds)
        IN  \A a, b \in Nodes : a # b => GetFlowDirection(a, b) = G!Described(R, a, b)
============================================================================
