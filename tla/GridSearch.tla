----------------------------- MODULE GridSearch -----------------------------
(***************************************************************************)
(* The distance map of the open space planner                               *)
(* (coarse_trajectory_generator/grid_search.h and grid_search.cc):          *)
(* GenerateDpMap explores the grid from the end pose, cheapest node first,  *)
(* and CheckDpMap answers how far a cell is from the end.  HybridAStar      *)
(* makes a map for every plan and asks it for every node it expands.        *)
(*                                                                         *)
(* Lengths are in hundredths of a cell.  The obstacles are the set of cells *)
(* whose grid coordinates, taken as a point, are closer than node_radius_   *)
(* to one of their line segments.  The list of obstacles is not empty: with *)
(* an empty one CheckConstraints accepts every cell, also outside the grid, *)
(* and the search has no end.                                               *)
(***************************************************************************)
EXTENDS Integers

CONSTANTS
    MaxX, MaxY,  \* max_grid_x_ and max_grid_y_
    Plans,       \* end cells, each with the cells the obstacles make impassable
    MaxPlans     \* bound: calls of GenerateDpMap

Grid == (0 .. MaxX) \X (0 .. MaxY)

ASSUME GridAssumption ==
    /\ MaxX \in Nat /\ MaxY \in Nat /\ MaxPlans \in Nat
    /\ Plans \subseteq Grid \X SUBSET Grid

VARIABLES
    grid_pc,          \* "idle" or "search"
    end_node,    \* the cell of the end pose
    near,        \* the cells too close to an obstacle
    open_set,    \* the cells of the nodes met so far
    path_cost, cost, pre_node,   \* path_cost_, cost_ and pre_node_ of the nodes
    open_pq,     \* pairs of a cell and the cost it had when it was pushed
    dp_map,      \* the cells whose nodes are in dp_map_
    plans        \* calls of GenerateDpMap so far
gridVars == <<grid_pc, end_node, near, open_set, path_cost, cost, pre_node, open_pq, dp_map, plans>>

NoCell == <<-1, -1>>

Abs(i) == IF i < 0 THEN -i ELSE i
Distance(c, d) == Abs(c[1] - d[1]) + Abs(c[2] - d[2])
Neighbours(c) == {d \in Grid : d # c /\ Abs(c[1] - d[1]) <= 1 /\ Abs(c[2] - d[2]) <= 1}

\* What GenerateNextNodes adds to the path cost of the current node.
StepCost(c, d) == IF Distance(c, d) = 1 THEN 100 ELSE 141

CheckConstraints(c) == c \in Grid /\ c \notin near

GridInit ==
    /\ grid_pc = "idle" /\ end_node = NoCell /\ near = {} /\ plans = 0
    /\ open_set = {} /\ open_pq = {} /\ dp_map = {}
    /\ path_cost = [c \in Grid |-> 0] /\ cost = [c \in Grid |-> 0]
    /\ pre_node = [c \in Grid |-> NoCell]

\* GenerateDpMap up to its loop.  The end is taken as it is.
GenerateDpMap ==
    /\ grid_pc = "idle" /\ plans < MaxPlans
    /\ \E p \in Plans :
         /\ end_node' = p[1] /\ near' = p[2]
         /\ open_set' = {p[1]} /\ open_pq' = {<<p[1], 0>>}
    /\ path_cost' = [c \in Grid |-> 0] /\ cost' = [c \in Grid |-> 0]
    /\ pre_node' = [c \in Grid |-> NoCell]
    /\ dp_map' = {} /\ grid_pc' = "search" /\ plans' = plans + 1

\* Mutant: cmp compares the other way round.
TopsLast == {e \in open_pq : \A d \in open_pq : e[2] >= d[2]}

\* A node of the least cost: which one of several is up to the heap.
Tops == {e \in open_pq : \A d \in open_pq : e[2] <= d[2]}

\* The node leaves the queue, and its neighbours are met.  A node that is met
\* again at a lower cost keeps its place in the queue, and its path cost.
Explore(current) ==
    LET next == {c \in Neighbours(current) : CheckConstraints(c) /\ c \notin dp_map}
        through == [c \in Grid |-> path_cost[current] + StepCost(current, c)]
        new == next \ open_set
        cheaper == {c \in next \cap open_set : cost[c] > through[c]}
    IN  /\ dp_map' = dp_map \cup {current}
        /\ open_set' = open_set \cup new
        /\ path_cost' = [c \in Grid |-> IF c \in new THEN through[c] ELSE path_cost[c]]
        /\ cost' = [c \in Grid |-> IF c \in new \cup cheaper THEN through[c] ELSE cost[c]]
        /\ pre_node' = [c \in Grid |-> IF c \in new \cup cheaper THEN current ELSE pre_node[c]]
        /\ open_pq' = {e \in open_pq : e[1] # current} \cup {<<c, through[c]>> : c \in new}

\* One turn of the loop.
Pop ==
    /\ grid_pc = "search"
    /\ \E e \in Tops : Explore(e[1])
    /\ UNCHANGED <<grid_pc, end_node, near, plans>>

Finish ==
    /\ grid_pc = "search" /\ open_pq = {}
    /\ grid_pc' = "idle"
    /\ UNCHANGED <<end_node, near, open_set, path_cost, cost, pre_node, open_pq, dp_map, plans>>

Infinity == -1
CheckDpMap(c) == IF c \in dp_map THEN cost[c] ELSE Infinity

GridNext == GenerateDpMap \/ Pop \/ Finish
GridSpec == GridInit /\ [][GridNext]_gridVars

-----------------------------------------------------------------------------
GridTypeOK ==
    /\ grid_pc \in {"idle", "search"} /\ plans \in Nat
    /\ end_node \in Grid \cup {NoCell} /\ near \subseteq Grid
    /\ open_set \subseteq Grid /\ dp_map \subseteq Grid /\ open_pq \subseteq Grid \X Nat
    /\ path_cost \in [Grid -> Nat] /\ cost \in [Grid -> Nat]
    /\ pre_node \in [Grid -> Grid \cup {NoCell}]

\* The distances never flatter: the predecessors of a cell lead over free
\* neighbouring cells to the end, and that way is no longer than the cost.
WayExists ==
    \A c \in dp_map :
      IF c = end_node THEN cost[c] = 0
      ELSE LET pre == pre_node[c] IN
           /\ pre \in dp_map /\ c \in Neighbours(pre) /\ CheckConstraints(c)
           /\ cost[c] >= cost[pre] + StepCost(pre, c)

\* Although a node met again keeps its path cost and its place in the queue, no
\* cell costs more than to come from a neighbour at that neighbour's path cost.
WayIsShort ==
    \A d \in dp_map : \A c \in Neighbours(d) :
      CheckConstraints(c) => c \in open_set /\ cost[c] <= path_cost[d] + StepCost(d, c)

\* When GenerateDpMap returns, CheckDpMap knows the end and every cell that can
\* be reached from it between the obstacles of this call.
MapIsComplete ==
    grid_pc = "idle" /\ plans > 0 =>
      /\ end_node \in dp_map
      /\ \A d \in dp_map : \A c \in Neighbours(d) :
           CheckConstraints(c) => CheckDpMap(c) # Infinity

\* What HybridAStar relies on when it asks CheckDpMap for a heuristic: the
\* distances are those of ways that exist, are no more than a neighbour offers,
\* and are known for every cell that can be reached, plan after plan.
DistancesAreHonest == GridTypeOK /\ WayExists /\ WayIsShort /\ MapIsComplete
=============================================================================
