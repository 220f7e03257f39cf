------------------------------ MODULE MCMemory ------------------------------
(***************************************************************************)
(* Memory that is shared: the object pool of cyber/base between threads,   *)
(* and the segments and the notification ring of transport/shm between     *)
(* processes.  The suite also has the maps of the planner: the distances   *)
(* of GridSearch and the route of PncMap.  A behaviour is one of the       *)
(* instance that subject names.                                            *)
(***************************************************************************)
EXTENDS CCObjectPool, GridSearch

CONSTANTS Subjects, w1, w2, r1, r2
VARIABLES
    subject,
    key, mem, ep, queue, sends,                    \* of a segment
    next_seq, infos, seqs, writer, listener,       \* of the notification ring
    map, out                                       \* of the route

segmentVars == <<key, mem, ep, queue, sends>>
ringVars == <<next_seq, infos, seqs, writer, listener>>
routeVars == <<map, out>>
planVars == <<gridVars, routeVars>>

Two(c) == 4 \div (2 * c)      \* two blocks of class 1, one of class 2

\* writers and readers of an established segment, any of which may die
Steady == INSTANCE Segment WITH
    Writers <- {w1, w2}, Readers <- {r1, r2}, Classes <- {1}, Blocks <- [c \in {1} |-> 2],
    Established <- TRUE, Faults <- {"Die"}, MaxMems <- 1, MaxSends <- 3
\* one writer creates the segment and replaces it, two readers follow
Growth == INSTANCE Segment WITH
    Writers <- {w1}, Readers <- {r1, r2}, Classes <- {1, 2}, Blocks <- [c \in {1, 2} |-> Two(c)],
    Established <- FALSE, Faults <- {}, MaxMems <- 2, MaxSends <- 3
\* Segment objects are destroyed and made again
Remade == INSTANCE Segment WITH
    Writers <- {w1}, Readers <- {r1}, Classes <- {1, 2}, Blocks <- [c \in {1, 2} |-> Two(c)],
    Established <- FALSE, Faults <- {"Destroy"}, MaxMems <- 3, MaxSends <- 3
Ring == INSTANCE ConditionNotifier WITH
    Notifiers <- {w1, w2}, Listeners <- {r1, r2}, kBufLength <- 2, MaxSeq <- 6, KeepsUp <- TRUE

\* walls that let nodes be met again at a lower cost, and an end among obstacles
ParkingPlans ==
    {<<<<3, 0>>, {<<2, 1>>, <<3, 1>>}>>, <<<<1, 1>>, {<<1, 1>>, <<2, 2>>, <<0, 2>>}>>}

Piece(l) == [lane |-> l, start_s |-> 0, end_s |-> 2]
Point(l, s) == [lane |-> l, s |-> s]
Passage(lanes, type) ==
    [segment |-> [i \in DOMAIN lanes |-> Piece(lanes[i])], change_lane_type |-> type,
     can_exit |-> type = "FORWARD"]
Only(l) == <<Passage(<<l>>, "FORWARD")>>
LaneLength == [l \in {"A", "B", "C", "D", "P"} |-> 2]
Crossing == <<Only("A"), <<Passage(<<"B">>, "LEFT"), Passage(<<"P">>, "FORWARD")>>, Only("D")>>

\* A forks into B C and, to its left, P D; the vehicle may have to change lanes
Town == INSTANCE PncMap WITH
    Length <- LaneLength, Backward <- 3, Forwards <- {3, 5},
    Successors <- [A |-> <<"B", "P">>, B |-> <<"C">>, C |-> <<>>, P |-> <<"D">>, D |-> <<>>],
    Predecessors <- [A |-> <<>>, B |-> <<"A">>, C |-> <<"B">>, P |-> <<"A">>, D |-> <<"P">>],
    LeftOf <- {<<"B", "P">>, <<"C", "D">>},
    Routings <- {[road |-> Crossing, waypoint |-> <<Point("A", 0), Point("B", 1), Point("D", 2)>>],
                 [road |-> Crossing, waypoint |-> <<Point("A", 1), Point("D", 1)>>],
                 [road |-> <<<<Passage(<<"B", "C">>, "FORWARD")>>>>,
                  waypoint |-> <<Point("B", 0), Point("C", 1)>>]}
\* A B C is a circle that D leaves; one route passes A twice
Circle == INSTANCE PncMap WITH
    Length <- LaneLength, Backward <- 3, Forwards <- {3, 5},
    Successors <- [A |-> <<"B", "D">>, B |-> <<"C">>, C |-> <<"A">>, P |-> <<>>, D |-> <<>>],
    Predecessors <- [A |-> <<"C">>, B |-> <<"A">>, C |-> <<"B">>, P |-> <<>>, D |-> <<"A">>],
    LeftOf <- {},
    Routings <- {[road |-> <<Only("A"), Only("B"), Only("C"), Only("A"), Only("D")>>,
                  waypoint |-> <<Point("A", 0), Point("C", 1), Point("D", 1)>>],
                 [road |-> <<<<Passage(<<"A", "B", "C">>, "FORWARD")>>>>,
                  waypoint |-> <<Point("A", 0), Point("C", 1)>>]}

ASSUME Steady!ClassesAssumption /\ Steady!BlocksAssumption
ASSUME Growth!ClassesAssumption /\ Growth!BlocksAssumption
ASSUME Ring!LengthAssumption /\ Ring!MaxSeqAssumption
ASSUME Town!PncMapAssumption /\ Circle!PncMapAssumption

MemoryInit ==
    /\ subject \in Subjects
    /\ Init /\ (subject # "pool" => stack = CHOOSE s \in Arenas : TRUE)
    /\ CASE subject = "steady" -> Steady!Init
         [] subject = "remade" -> Remade!Init
         [] OTHER -> Growth!Init
    /\ Ring!Init /\ GridInit /\ Town!Init

MemoryNext ==
    /\ UNCHANGED subject
    /\ \/ subject = "pool" /\ Next /\ UNCHANGED <<segmentVars, ringVars, planVars>>
       \/ subject = "steady" /\ Steady!Next /\ UNCHANGED <<vars, ringVars, planVars>>
       \/ subject = "growth" /\ Growth!Next /\ UNCHANGED <<vars, ringVars, planVars>>
       \/ subject = "remade" /\ Remade!Next /\ UNCHANGED <<vars, ringVars, planVars>>
       \/ subject = "ring" /\ Ring!Next /\ UNCHANGED <<vars, segmentVars, planVars>>
       \/ subject = "parking" /\ GridNext /\ UNCHANGED <<vars, segmentVars, ringVars, routeVars>>
       \/ subject = "town" /\ Town!Next /\ UNCHANGED <<vars, segmentVars, ringVars, gridVars>>
       \/ subject = "circle" /\ Circle!Next /\ UNCHANGED <<vars, segmentVars, ringVars, gridVars>>

MemorySpec == MemoryInit /\ [][MemoryNext]_<<subject, vars, segmentVars, ringVars, planVars>>

-----------------------------------------------------------------------------

\* PncMap: wherever the vehicle is driven or moved, and whichever routing comes,
\* the next waypoint is the first one not passed yet, and the vehicle is tracked
\* on a segment that holds it.
RouteIsTracked ==
    /\ subject = "town" => Town!TypeOK /\ Town!RouteIsTracked
    /\ subject = "circle" => Circle!TypeOK /\ Circle!RouteIsTracked

\* PncMap: the lanes reference lines are made from follow one another without a
\* gap, none twice, and hold the vehicle, in a circle of lanes too.
SegmentsAreDrivable ==
    /\ subject = "town" => Town!SegmentsAreDrivable
    /\ subject = "circle" => Circle!SegmentsAreDrivable
=============================================================================
