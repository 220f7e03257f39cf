------------------------------- MODULE Graph -------------------------------
(***************************************************************************)
(* service_discovery::Graph, the directed graph of nodes that the channel  *)
(* manager keeps: edges_ records for every channel the nodes that write    *)
(* and the nodes that read it, and list_, the adjacency list, is updated   *)
(* with one complete edge for every (writer, reader) pair.                 *)
(*                                                                         *)
(* Every public operation holds rw_lock_ throughout, so each is one step.  *)
(***************************************************************************)
EXTENDS Integers, FiniteSets, TLC, TLAPS

CONSTANTS
    Nodes,              \* names of vertices
    Channels,           \* values of edges
    Dummy,              \* the vertex with the empty name
    EdgeKey(_, _)       \* Edge::GetKey: value_ + "_" + dst_.GetKey()

ASSUME DummyAssumption == Dummy \notin Nodes

VARIABLE
    graph       \* [src, dst: edges_ by channel; list: list_; known: its keys]

\* list_[s][k] = d is the triple <<s, k, d>>; at most one d for each s and k.
EmptyGraph == [src   |-> [c \in Channels |-> {}],
               dst   |-> [c \in Channels |-> {}],
               list  |-> {},
               known |-> {}]

Init == graph = EmptyGraph

\* Edge::IsValid: at least one end (a channel always has a name here).
IsValid(s, d) == s # Dummy \/ d # Dummy

----------------------------------------------------------------------------
\* list_ with one complete edge for every pair of S \X D; an entry with the
\* same key is overwritten.
InsertCompleteEdges(list, S, c, D) ==
    LET new == {<<s, EdgeKey(c, d), d>> : s \in S, d \in D}
    IN  {t \in list : ~ \E n \in new : n[1] = t[1] /\ n[2] = t[2]} \cup new

\* The keys of list_ that the same insertion leaves.
InsertCompleteEnds(known, S, D) ==
    IF S = {} \/ D = {} THEN known ELSE known \cup S \cup D

DeleteCompleteEdges(list, S, c, D) ==
    {t \in list : ~ \E s \in S, d \in D : t[1] = s /\ t[2] = EdgeKey(c, d)}

InsertOutgoingEdge(g, s, c) ==
    IF s = Dummy \/ s \in g.src[c]
      THEN g
      ELSE [src   |-> [g.src EXCEPT ![c] = @ \cup {s}],
            dst   |-> g.dst,
            list  |-> InsertCompleteEdges(g.list, {s}, c, g.dst[c]),
            known |-> InsertCompleteEnds(g.known, {s}, g.dst[c])]

InsertIncomingEdge(g, c, d) ==
    IF d = Dummy \/ d \in g.dst[c]
      THEN g
      ELSE [src   |-> g.src,
            dst   |-> [g.dst EXCEPT ![c] = @ \cup {d}],
            list  |-> InsertCompleteEdges(g.list, g.src[c], c, {d}),
            known |-> InsertCompleteEnds(g.known, g.src[c], {d})]

DeleteOutgoingEdge(g, s, c) ==
    IF s = Dummy \/ s \notin g.src[c]
      THEN g
      ELSE [src   |-> [g.src EXCEPT ![c] = @ \ {s}],
            dst   |-> g.dst,
            list  |-> DeleteCompleteEdges(g.list, {s}, c, g.dst[c]),
            known |-> g.known]

\* Mutant: the complete edges of a deleted reader stay behind.
DeleteIncomingEdgeForgetsList(g, c, d) == [g EXCEPT !.dst[c] = @ \ {d}]

DeleteIncomingEdge(g, c, d) ==
    IF d = Dummy \/ d \notin g.dst[c]
      THEN g
      ELSE [src   |-> g.src,
            dst   |-> [g.dst EXCEPT ![c] = @ \ {d}],
            list  |-> DeleteCompleteEdges(g.list, g.src[c], c, {d}),
            known |-> g.known]

Inserted(g, s, c, d) ==
    IF IsValid(s, d)
      THEN InsertIncomingEdge(InsertOutgoingEdge(g, s, c), c, d)
      ELSE g

Deleted(g, s, c, d) ==
    IF IsValid(s, d)
      THEN DeleteIncomingEdge(DeleteOutgoingEdge(g, s, c), c, d)
      ELSE g

Insert(s, c, d) == graph' = Inserted(graph, s, c, d)

Delete(s, c, d) == graph' = Deleted(graph, s, c, d)

Next ==
    \E s, d \in Nodes \cup {Dummy}, c \in Channels :
        Insert(s, c, d) \/ Delete(s, c, d)

Spec == Init /\ [][Next]_graph

----------------------------------------------------------------------------
(***************************************************************************)
(* GetDirectionOf.  LevelTraverse is a breadth-first search: level[i] holds *)
(* the vertices visited after i rounds, and no path needs more rounds than  *)
(* there are nodes.                                                         *)
(***************************************************************************)
Successors(g, V) == {t[3] : t \in {u \in g.list : u[1] \in V}}

LevelTraverse(g, start, end) ==
    LET n == Cardinality(Nodes)
        level[i \in 0 .. n] ==
            IF i = 0 THEN {start} ELSE level[i - 1] \cup Successors(g, level[i - 1])
    IN  end \in level[n]

GetDirectionOf(g, lhs, rhs) ==
    CASE lhs = Dummy \/ rhs = Dummy -> "UNREACHABLE"
      [] lhs \notin g.known \/ rhs \notin g.known -> "UNREACHABLE"
      [] LevelTraverse(g, lhs, rhs) -> "UPSTREAM"
      [] LevelTraverse(g, rhs, lhs) -> "DOWNSTREAM"
      [] OTHER -> "UNREACHABLE"

----------------------------------------------------------------------------
Keys == {EdgeKey(c, d) : c \in Channels, d \in Nodes}

IsGraph(g) ==
    g \in [src   : [Channels -> SUBSET Nodes],
           dst   : [Channels -> SUBSET Nodes],
           list  : SUBSET (Nodes \X Keys \X Nodes),
           known : SUBSET Nodes]

\* The edges that the writers and readers recorded in edges_ stand for.
CompleteEdges(g) ==
    UNION {{<<s, EdgeKey(c, d), d>> : s \in g.src[c], d \in g.dst[c]} : c \in Channels}

\* The state of a Graph has its shape, and every end of an edge of list_ is a
\* key of list_ (LevelTraverse never adds one).
TypeOK == IsGraph(graph) /\ \A t \in graph.list : {t[1], t[3]} \subseteq graph.known

\* The adjacency list, which insertions and deletions of half edges update
\* piecemeal, holds exactly one complete edge for every channel and every
\* pair of a writing and a reading node of it.
ListIsComplete == graph.list = CompleteEdges(graph)

\* Names in which the concatenation of Edge::GetKey is never ambiguous.
KeysDistinct ==
    \A c1, c2 \in Channels, d1, d2 \in Nodes :
        EdgeKey(c1, d1) = EdgeKey(c2, d2) => c1 = c2 /\ d1 = d2

\* A path of nodes in which each writes a channel that the next one reads.
Feeds(g) == {e \in Nodes \X Nodes :
                \E c \in Channels : e[1] \in g.src[c] /\ e[2] \in g.dst[c]}

\* The textbook transitive closure, one node at a time (Warshall).
Reaches(R) ==
    LET through(S, n) == S \cup {e \in Nodes \X Nodes :
                                    <<e[1], n>> \in S /\ <<n, e[2]>> \in S}
        closure[T \in SUBSET Nodes] ==
            IF T = {} THEN R
            ELSE LET n == CHOOSE n \in T : TRUE IN through(closure[T \ {n}], n)
    IN  closure[Nodes]

\* What FlowDirection's description says GetDirectionOf answers for two
\* different nodes, given who feeds whom.
Described(R, lhs, rhs) ==
    CASE <<lhs, rhs>> \in R -> "UPSTREAM"
      [] <<lhs, rhs>> \notin R /\ <<rhs, lhs>> \in R -> "DOWNSTREAM"
      [] OTHER -> "UNREACHABLE"

\* GetDirectionOf answers, for two different nodes, what the description of
\* FlowDirection promises: upstream exactly when data can flow from the first
\* to the second over channels.
DirectionIsFlow ==
    LET R == Reaches(Feeds(graph))
    IN  \A a, b \in Nodes : a # b => GetDirectionOf(graph, a, b) = Described(R, a, b)

----------------------------------------------------------------------------
(***************************************************************************)
(* Proofs.  For any nodes and channels whose edge keys are unambiguous,    *)
(* the adjacency list of the graph always is the set of complete edges     *)
(* that the recorded writers and readers stand for.                        *)
(***************************************************************************)
\* the inductive invariant
Good(g) == IsGraph(g) /\ g.list = CompleteEdges(g)

\* a complete edge of a channel
IsEdge(t, g, c) == \E s \in g.src[c], d \in g.dst[c] : t = <<s, EdgeKey(c, d), d>>

\* The edges of the graph are those of one writer and one reader of a channel.
LEMMA EdgesOf ==
    ASSUME NEW g, NEW t
    PROVE  t \in CompleteEdges(g) <=> \E c \in Channels : IsEdge(t, g, c)
  BY DEF CompleteEdges, IsEdge

\* Two edges with the same key have the same ends and channel.
LEMMA SameKey ==
    ASSUME KeysDistinct, NEW g, IsGraph(g), NEW t \in CompleteEdges(g),
           NEW c \in Channels, NEW d \in Nodes, t[2] = EdgeKey(c, d)
    PROVE  t[1] \in g.src[c] /\ d \in g.dst[c] /\ t = <<t[1], EdgeKey(c, d), d>>
  <1>1. PICK k \in Channels : IsEdge(t, g, k)
    BY EdgesOf
  <1>2. PICK x \in g.src[k], y \in g.dst[k] : t = <<x, EdgeKey(k, y), y>>
    BY <1>1 DEF IsEdge
  <1>3. y \in Nodes
    BY DEF IsGraph
  <1>4. k = c /\ y = d
    BY <1>2, <1>3 DEF KeysDistinct
  <1> QED BY <1>2, <1>4

\* The edges between S and D are edges of the graph's nodes.
LEMMA NewEdges ==
    ASSUME NEW g, IsGraph(g), NEW c \in Channels,
           NEW S \in SUBSET Nodes, NEW D \in SUBSET Nodes
    PROVE  /\ InsertCompleteEdges(g.list, S, c, D) \subseteq Nodes \X Keys \X Nodes
           /\ DeleteCompleteEdges(g.list, S, c, D) \subseteq Nodes \X Keys \X Nodes
           /\ InsertCompleteEnds(g.known, S, D) \subseteq Nodes
  <1>1. g.list \subseteq Nodes \X Keys \X Nodes /\ g.known \subseteq Nodes
    BY DEF IsGraph
  <1>2. {<<s, EdgeKey(c, d), d>> : s \in S, d \in D} \subseteq Nodes \X Keys \X Nodes
    BY DEF Keys
  <1> QED BY <1>1, <1>2 DEF InsertCompleteEdges, DeleteCompleteEdges, InsertCompleteEnds

\* Every operation on half an edge leaves a graph.
LEMMA StaysGraph ==
    ASSUME NEW g, IsGraph(g), NEW c \in Channels, NEW v \in Nodes \cup {Dummy}
    PROVE  /\ IsGraph(InsertOutgoingEdge(g, v, c))
           /\ IsGraph(InsertIncomingEdge(g, c, v))
           /\ IsGraph(DeleteOutgoingEdge(g, v, c))
           /\ IsGraph(DeleteIncomingEdge(g, c, v))
  <1>1. CASE v = Dummy
    BY <1>1 DEF InsertOutgoingEdge, InsertIncomingEdge, DeleteOutgoingEdge, DeleteIncomingEdge
  <1>2. CASE v \in Nodes
    <2>1. /\ g.src[c] \in SUBSET Nodes /\ g.dst[c] \in SUBSET Nodes /\ {v} \in SUBSET Nodes
          /\ g.src \in [Channels -> SUBSET Nodes] /\ g.dst \in [Channels -> SUBSET Nodes]
          /\ g.known \in SUBSET Nodes
      BY <1>2 DEF IsGraph
    <2>2. /\ [g.src EXCEPT ![c] = @ \cup {v}] \in [Channels -> SUBSET Nodes]
          /\ [g.dst EXCEPT ![c] = @ \cup {v}] \in [Channels -> SUBSET Nodes]
          /\ [g.src EXCEPT ![c] = @ \ {v}] \in [Channels -> SUBSET Nodes]
          /\ [g.dst EXCEPT ![c] = @ \ {v}] \in [Channels -> SUBSET Nodes]
      BY <2>1
    <2>3. IsGraph(InsertOutgoingEdge(g, v, c))
      BY <2>1, <2>2, NewEdges DEF InsertOutgoingEdge, IsGraph
    <2>4. IsGraph(InsertIncomingEdge(g, c, v))
      BY <2>1, <2>2, NewEdges DEF InsertIncomingEdge, IsGraph
    <2>5. IsGraph(DeleteOutgoingEdge(g, v, c))
      BY <2>1, <2>2, NewEdges DEF DeleteOutgoingEdge, IsGraph
    <2>6. IsGraph(DeleteIncomingEdge(g, c, v))
      BY <2>1, <2>2, NewEdges DEF DeleteIncomingEdge, IsGraph
    <2> QED BY <2>3, <2>4, <2>5, <2>6
  <1> QED BY <1>1, <1>2

Between(t, S, c, D) == \E s \in S, d \in D : t = <<s, EdgeKey(c, d), d>>

\* Inserting edges between nodes that had none overwrites nothing.
LEMMA InsertFresh ==
    ASSUME KeysDistinct, NEW g, Good(g), NEW c \in Channels,
           NEW S \in SUBSET Nodes, NEW D \in SUBSET Nodes,
           \A s \in S, d \in D : ~ (s \in g.src[c] /\ d \in g.dst[c]), NEW t
    PROVE  t \in InsertCompleteEdges(g.list, S, c, D) <=> t \in g.list \/ Between(t, S, c, D)
  <1> DEFINE new == {<<s, EdgeKey(c, d), d>> : s \in S, d \in D}
  <1>1. ASSUME t \in g.list, NEW n \in new, n[1] = t[1], n[2] = t[2]
        PROVE  FALSE
    <2>1. PICK s \in S, d \in D : n = <<s, EdgeKey(c, d), d>>
      BY <1>1
    <2>2. s \in g.src[c] /\ d \in g.dst[c]
      BY <1>1, <2>1, SameKey DEF Good
    <2> QED BY <2>2
  <1>2. t \in new <=> Between(t, S, c, D)
    BY DEF Between
  <1>3. t \in InsertCompleteEdges(g.list, S, c, D) <=>
          (t \in g.list /\ ~ \E n \in new : n[1] = t[1] /\ n[2] = t[2]) \/ t \in new
    BY DEF InsertCompleteEdges
  <1> HIDE DEF new
  <1> QED BY <1>1, <1>2, <1>3

\* Deleting by key removes the edges between the two sets of nodes over the
\* channel, and no other.
LEMMA DeleteExact ==
    ASSUME KeysDistinct, NEW g, Good(g), NEW c \in Channels,
           NEW S \in SUBSET Nodes, NEW D \in SUBSET Nodes, NEW t
    PROVE  t \in DeleteCompleteEdges(g.list, S, c, D) <=> t \in g.list /\ ~ Between(t, S, c, D)
  <1>1. ASSUME t \in g.list, NEW s \in S, NEW d \in D, t[1] = s, t[2] = EdgeKey(c, d)
        PROVE  Between(t, S, c, D)
    BY <1>1, SameKey DEF Good, Between
  <1>2. ASSUME Between(t, S, c, D)
        PROVE  \E s \in S, d \in D : t[1] = s /\ t[2] = EdgeKey(c, d)
    BY <1>2 DEF Between
  <1>3. t \in DeleteCompleteEdges(g.list, S, c, D) <=>
          t \in g.list /\ ~ \E s \in S, d \in D : t[1] = s /\ t[2] = EdgeKey(c, d)
    BY DEF DeleteCompleteEdges
  <1> QED BY <1>1, <1>2, <1>3

\* An edge belongs to one channel only.
LEMMA OneChannel ==
    ASSUME KeysDistinct, NEW g, IsGraph(g), NEW c \in Channels, NEW k \in Channels,
           NEW S \in SUBSET Nodes, NEW D \in SUBSET Nodes, NEW t,
           IsEdge(t, g, k), Between(t, S, c, D)
    PROVE  k = c
  <1>1. PICK x \in g.src[k], y \in g.dst[k] : t = <<x, EdgeKey(k, y), y>>
    BY DEF IsEdge
  <1>2. PICK s \in S, d \in D : t = <<s, EdgeKey(c, d), d>>
    BY DEF Between
  <1>3. EdgeKey(k, y) = EdgeKey(c, d) /\ y \in Nodes /\ d \in Nodes
    BY <1>1, <1>2 DEF IsGraph
  <1> QED BY <1>3 DEF KeysDistinct

\* A new writer of a channel gets an edge to each of its readers.
LEMMA InsertOutgoing ==
    ASSUME KeysDistinct, NEW g, Good(g), NEW c \in Channels, NEW v \in Nodes \cup {Dummy}
    PROVE  Good(InsertOutgoingEdge(g, v, c))
  <1> DEFINE h == InsertOutgoingEdge(g, v, c)
  <1>1. CASE v = Dummy \/ v \in g.src[c]
    BY <1>1 DEF InsertOutgoingEdge
  <1>2. CASE ~ (v = Dummy \/ v \in g.src[c])
    <2>1. /\ h.src = [g.src EXCEPT ![c] = @ \cup {v}] /\ h.dst = g.dst
          /\ h.list = InsertCompleteEdges(g.list, {v}, c, g.dst[c])
      BY <1>2 DEF InsertOutgoingEdge
    <2>2. IsGraph(g) /\ IsGraph(h)
      BY StaysGraph DEF Good
    <2> HIDE DEF h
    <2>3. ASSUME NEW t PROVE t \in h.list <=> t \in CompleteEdges(h)
      <3>1. t \in h.list <=> t \in g.list \/ Between(t, {v}, c, g.dst[c])
        <4>1. {v} \in SUBSET Nodes /\ g.dst[c] \in SUBSET Nodes
          BY <1>2, <2>2 DEF IsGraph
        <4>2. \A s \in {v}, d \in g.dst[c] : ~ (s \in g.src[c] /\ d \in g.dst[c])
          BY <1>2
        <4>3. t \in InsertCompleteEdges(g.list, {v}, c, g.dst[c]) <=>
                t \in g.list \/ Between(t, {v}, c, g.dst[c])
          BY <4>1, <4>2, InsertFresh, Zenon
        <4> QED BY <2>1, <4>3
      <3>2. \A k \in Channels : IsEdge(t, h, k) <=>
                IsEdge(t, g, k) \/ (k = c /\ Between(t, {v}, c, g.dst[c]))
        <4>1. \A k \in Channels : h.src[k] = IF k = c THEN g.src[k] \cup {v} ELSE g.src[k]
          BY <2>1, <2>2 DEF IsGraph
        <4> QED BY <2>1, <4>1 DEF IsEdge, Between
      <3>3. t \in CompleteEdges(h) <=> \E k \in Channels : IsEdge(t, h, k)
        BY EdgesOf
      <3>4. t \in g.list <=> \E k \in Channels : IsEdge(t, g, k)
        BY EdgesOf DEF Good
      <3> QED BY <3>1, <3>2, <3>3, <3>4
    <2>4. h.list = CompleteEdges(h)
      BY <2>3
    <2> QED BY <2>2, <2>4 DEF Good, h
  <1> QED BY <1>1, <1>2

\* A new reader of a channel gets an edge from each of its writers.
LEMMA InsertIncoming ==
    ASSUME KeysDistinct, NEW g, Good(g), NEW c \in Channels, NEW v \in Nodes \cup {Dummy}
    PROVE  Good(InsertIncomingEdge(g, c, v))
  <1> DEFINE h == InsertIncomingEdge(g, c, v)
  <1>1. CASE v = Dummy \/ v \in g.dst[c]
    BY <1>1 DEF InsertIncomingEdge
  <1>2. CASE ~ (v = Dummy \/ v \in g.dst[c])
    <2>1. /\ h.dst = [g.dst EXCEPT ![c] = @ \cup {v}] /\ h.src = g.src
          /\ h.list = InsertCompleteEdges(g.list, g.src[c], c, {v})
      BY <1>2 DEF InsertIncomingEdge
    <2>2. IsGraph(g) /\ IsGraph(h)
      BY StaysGraph DEF Good
    <2> HIDE DEF h
    <2>3. ASSUME NEW t PROVE t \in h.list <=> t \in CompleteEdges(h)
      <3>1. t \in h.list <=> t \in g.list \/ Between(t, g.src[c], c, {v})
        <4>1. {v} \in SUBSET Nodes /\ g.src[c] \in SUBSET Nodes
          BY <1>2, <2>2 DEF IsGraph
        <4>2. \A s \in g.src[c], d \in {v} : ~ (s \in g.src[c] /\ d \in g.dst[c])
          BY <1>2
        <4>3. t \in InsertCompleteEdges(g.list, g.src[c], c, {v}) <=>
                t \in g.list \/ Between(t, g.src[c], c, {v})
          BY <4>1, <4>2, InsertFresh, Zenon
        <4> QED BY <2>1, <4>3
      <3>2. \A k \in Channels : IsEdge(t, h, k) <=>
                IsEdge(t, g, k) \/ (k = c /\ Between(t, g.src[c], c, {v}))
        <4>1. \A k \in Channels : h.dst[k] = IF k = c THEN g.dst[k] \cup {v} ELSE g.dst[k]
          BY <2>1, <2>2 DEF IsGraph
        <4> QED BY <2>1, <4>1 DEF IsEdge, Between
      <3>3. t \in CompleteEdges(h) <=> \E k \in Channels : IsEdge(t, h, k)
        BY EdgesOf
      <3>4. t \in g.list <=> \E k \in Channels : IsEdge(t, g, k)
        BY EdgesOf DEF Good
      <3> QED BY <3>1, <3>2, <3>3, <3>4
    <2>4. h.list = CompleteEdges(h)
      BY <2>3
    <2> QED BY <2>2, <2>4 DEF Good, h
  <1> QED BY <1>1, <1>2

\* Without a writer of a channel, its edges go and no other.
LEMMA DeleteOutgoing ==
    ASSUME KeysDistinct, NEW g, Good(g), NEW c \in Channels, NEW v \in Nodes \cup {Dummy}
    PROVE  Good(DeleteOutgoingEdge(g, v, c))
  <1> DEFINE h == DeleteOutgoingEdge(g, v, c)
  <1>1. CASE v = Dummy \/ v \notin g.src[c]
    BY <1>1 DEF DeleteOutgoingEdge
  <1>2. CASE ~ (v = Dummy \/ v \notin g.src[c])
    <2>1. /\ h.src = [g.src EXCEPT ![c] = @ \ {v}] /\ h.dst = g.dst
          /\ h.list = DeleteCompleteEdges(g.list, {v}, c, g.dst[c])
      BY <1>2 DEF DeleteOutgoingEdge
    <2>2. IsGraph(g) /\ IsGraph(h)
      BY StaysGraph DEF Good
    <2> HIDE DEF h
    <2>3. ASSUME NEW t PROVE t \in h.list <=> t \in CompleteEdges(h)
      <3>0. {v} \in SUBSET Nodes /\ g.dst[c] \in SUBSET Nodes
        BY <1>2, <2>2 DEF IsGraph
      <3>1. t \in h.list <=> t \in g.list /\ ~ Between(t, {v}, c, g.dst[c])
        <4>1. t \in DeleteCompleteEdges(g.list, {v}, c, g.dst[c]) <=>
                t \in g.list /\ ~ Between(t, {v}, c, g.dst[c])
          BY <3>0, DeleteExact, Zenon
        <4> QED BY <2>1, <4>1
      <3>2. \A k \in Channels : IsEdge(t, h, k) <=>
                IsEdge(t, g, k) /\ ~ (k = c /\ Between(t, {v}, c, g.dst[c]))
        <4>1. \A k \in Channels : h.src[k] = IF k = c THEN g.src[k] \ {v} ELSE g.src[k]
          BY <2>1, <2>2 DEF IsGraph
        <4> QED BY <2>1, <4>1 DEF IsEdge, Between
      <3>3. t \in CompleteEdges(h) <=> \E k \in Channels : IsEdge(t, h, k)
        BY EdgesOf
      <3>4. t \in g.list <=> \E k \in Channels : IsEdge(t, g, k)
        BY EdgesOf DEF Good
      <3>5. \A k \in Channels :
                IsEdge(t, g, k) /\ Between(t, {v}, c, g.dst[c]) => k = c
        BY <2>2, <3>0, OneChannel, Zenon
      <3> QED BY <3>1, <3>2, <3>3, <3>4, <3>5
    <2>4. h.list = CompleteEdges(h)
      BY <2>3
    <2> QED BY <2>2, <2>4 DEF Good, h
  <1> QED BY <1>1, <1>2

\* Without a reader of a channel, its edges go and no other.
LEMMA DeleteIncoming ==
    ASSUME KeysDistinct, NEW g, Good(g), NEW c \in Channels, NEW v \in Nodes \cup {Dummy}
    PROVE  Good(DeleteIncomingEdge(g, c, v))
  <1> DEFINE h == DeleteIncomingEdge(g, c, v)
  <1>1. CASE v = Dummy \/ v \notin g.dst[c]
    BY <1>1 DEF DeleteIncomingEdge
  <1>2. CASE ~ (v = Dummy \/ v \notin g.dst[c])
    <2>1. /\ h.dst = [g.dst EXCEPT ![c] = @ \ {v}] /\ h.src = g.src
          /\ h.list = DeleteCompleteEdges(g.list, g.src[c], c, {v})
      BY <1>2 DEF DeleteIncomingEdge
    <2>2. IsGraph(g) /\ IsGraph(h)
      BY StaysGraph DEF Good
    <2> HIDE DEF h
    <2>3. ASSUME NEW t PROVE t \in h.list <=> t \in CompleteEdges(h)
      <3>0. {v} \in SUBSET Nodes /\ g.src[c] \in SUBSET Nodes
        BY <1>2, <2>2 DEF IsGraph
      <3>1. t \in h.list <=> t \in g.list /\ ~ Between(t, g.src[c], c, {v})
        <4>1. t \in DeleteCompleteEdges(g.list, g.src[c], c, {v}) <=>
                t \in g.list /\ ~ Between(t, g.src[c], c, {v})
          BY <3>0, DeleteExact, Zenon
        <4> QED BY <2>1, <4>1
      <3>2. \A k \in Channels : IsEdge(t, h, k) <=>
                IsEdge(t, g, k) /\ ~ (k = c /\ Between(t, g.src[c], c, {v}))
        <4>1. \A k \in Channels : h.dst[k] = IF k = c THEN g.dst[k] \ {v} ELSE g.dst[k]
          BY <2>1, <2>2 DEF IsGraph
        <4> QED BY <2>1, <4>1 DEF IsEdge, Between
      <3>3. t \in CompleteEdges(h) <=> \E k \in Channels : IsEdge(t, h, k)
        BY EdgesOf
      <3>4. t \in g.list <=> \E k \in Channels : IsEdge(t, g, k)
        BY EdgesOf DEF Good
      <3>5. \A k \in Channels :
                IsEdge(t, g, k) /\ Between(t, g.src[c], c, {v}) => k = c
        BY <2>2, <3>0, OneChannel, Zenon
      <3> QED BY <3>1, <3>2, <3>3, <3>4, <3>5
    <2>4. h.list = CompleteEdges(h)
      BY <2>3
    <2> QED BY <2>2, <2>4 DEF Good, h
  <1> QED BY <1>1, <1>2

\* The adjacency list of Graph is complete in every reachable state, for any
\* nodes and channels whose edge keys the concatenation of Edge::GetKey keeps
\* apart.
THEOREM Completeness == ASSUME KeysDistinct PROVE Spec => []ListIsComplete
  <1>1. Init => Good(graph)
    <2> SUFFICES ASSUME Init PROVE Good(graph)
      OBVIOUS
    <2>1. IsGraph(graph)
      BY DEF Init, EmptyGraph, IsGraph
    <2>2. ASSUME NEW t PROVE t \notin CompleteEdges(graph)
      <3>1. \A c \in Channels : ~ IsEdge(t, graph, c)
        BY DEF Init, EmptyGraph, IsEdge
      <3> QED BY <3>1, EdgesOf
    <2>3. graph.list = {}
      BY DEF Init, EmptyGraph
    <2> QED BY <2>1, <2>2, <2>3 DEF Good
  <1>2. Good(graph) /\ [Next]_graph => Good(graph)'
    <2> SUFFICES ASSUME Good(graph), [Next]_graph PROVE Good(graph')
      BY DEF Good, IsGraph, CompleteEdges
    <2>1. ASSUME NEW s \in Nodes \cup {Dummy}, NEW d \in Nodes \cup {Dummy},
                 NEW c \in Channels, Insert(s, c, d)
          PROVE  Good(graph')
      <3>1. Good(InsertOutgoingEdge(graph, s, c))
        BY InsertOutgoing
      <3>2. Good(InsertIncomingEdge(InsertOutgoingEdge(graph, s, c), c, d))
        BY <3>1, InsertIncoming
      <3> QED BY <2>1, <3>2 DEF Insert, Inserted
    <2>2. ASSUME NEW s \in Nodes \cup {Dummy}, NEW d \in Nodes \cup {Dummy},
                 NEW c \in Channels, Delete(s, c, d)
          PROVE  Good(graph')
      <3>1. Good(DeleteOutgoingEdge(graph, s, c))
        BY DeleteOutgoing
      <3>2. Good(DeleteIncomingEdge(DeleteOutgoingEdge(graph, s, c), c, d))
        BY <3>1, DeleteIncoming
      <3> QED BY <2>2, <3>2 DEF Delete, Deleted
    <2>3. CASE UNCHANGED graph
      BY <2>3
    <2> QED BY <2>1, <2>2, <2>3 DEF Next
  <1>3. Good(graph) => ListIsComplete
    BY DEF Good, ListIsComplete
  <1> QED BY <1>1, <1>2, <1>3, PTL DEF Spec
============================================================================
