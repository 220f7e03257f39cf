------------------------------- MODULE PncMap -------------------------------
(***************************************************************************)
(* The vehicle on its route (modules/map/pnc_map, with its user             *)
(* ReferenceLineProvider::CreateReferenceLine): which lane of the routing   *)
(* the vehicle is on, which waypoint of the request comes next, and the     *)
(* stretches of lanes from which reference lines are made.                  *)
(*                                                                         *)
(* Positions along a lane are whole numbers, so the tolerances of the code  *)
(* (kSegmentationEpsilon, kRouteEpsilon, kEpsilon: below one unit) make no  *)
(* difference.  A place is a point on the middle of a lane; lanes beside    *)
(* each other are of the same length, one lateral unit apart.  Indices      *)
(* count from 0 as in the code.                                             *)
(***************************************************************************)
EXTENDS Integers, Sequences, FiniteSets, SequencesExt

CONSTANTS
    Length,         \* the length of every lane
    Successors,     \* successor_id of every lane, in order
    Predecessors,   \* predecessor_id of every lane, in order
    LeftOf,         \* pairs of a lane and its left neighbour in the same direction
    Routings,       \* the routing responses
    Backward,       \* FLAGS_look_backward_distance
    Forwards        \* what LookForwardDistance may answer

Lanes == DOMAIN Length
NoLane == "no lane"
NoRouting == [road |-> <<>>, waypoint |-> <<>>]
Places == UNION {{[lane |-> l, s |-> s] : s \in 0 .. Length[l]} : l \in Lanes}
NoPlace == [lane |-> NoLane, s |-> 0]
Nothing == [ok |-> FALSE, route_segments |-> <<>>]

PncMapAssumption ==
    /\ \A l \in Lanes : /\ Length[l] \in Nat \ {0}
                        /\ ToSet(Successors[l]) \cup ToSet(Predecessors[l]) \subseteq Lanes
    /\ \A p \in LeftOf : Length[p[1]] = Length[p[2]]
    /\ Backward \in Nat \ {0} /\ Forwards \subseteq Nat \ {0}

VARIABLES
    map,     \* the fields of PncMap
    out      \* what the last call returned

SizeT == 2^30     \* stands for the 2^64 values of a size_t
At(seq, i) == seq[i + 1]
Size(seq) == Len(seq)
MinOf(a, b) == IF a < b THEN a ELSE b
MaxOf(a, b) == IF a > b THEN a ELSE b

\* Where a place lies on the lanes around it: l is positive to the left.
Near(p) ==
    {[lane |-> p.lane, s |-> p.s, l |-> 0]}
    \cup {[lane |-> q[2], s |-> p.s, l |-> -1] : q \in {q \in LeftOf : q[1] = p.lane}}
    \cup {[lane |-> q[1], s |-> p.s, l |-> 1] : q \in {q \in LeftOf : q[2] = p.lane}}
    \cup (IF p.s = Length[p.lane]
          THEN {[lane |-> n, s |-> 0, l |-> 0] : n \in ToSet(Successors[p.lane])} ELSE {})
    \cup (IF p.s = 0
          THEN {[lane |-> n, s |-> Length[n], l |-> 0] : n \in ToSet(Predecessors[p.lane])} ELSE {})

\* Places farther apart than the thresholds for replanning.
Far(p, q) == ~ \E n \in Near(p) : n.lane = q.lane /\ n.s - q.s \in -1 .. 1

WithinLaneSegment(segment, w) ==
    w.lane = segment.lane /\ segment.start_s <= w.s /\ w.s <= segment.end_s

IsWaypointOnSegment(segments, w) == \E i \in DOMAIN segments : WithinLaneSegment(segments[i], w)

-----------------------------------------------------------------------------
ValidateRouting(r) == r.road # <<>> /\ Len(r.waypoint) >= 2

IsNewRouting(prev, r) == ValidateRouting(r) /\ prev # r

\* route_indices_: every segment of every passage of every road.
RouteIndices(r) ==
    FlattenSeq([i \in DOMAIN r.road |->
      FlattenSeq([j \in DOMAIN r.road[i] |->
        [k \in DOMAIN r.road[i][j].segment |->
          [segment |-> r.road[i][j].segment[k], index |-> <<i, j>>]]])])

LaneIds(indices) == {indices[k].segment.lane : k \in DOMAIN indices}

\* The lanes from range_start_ on are in range, up to the first that already is.
UpdateRoutingRange(m, adc) ==
    LET reset == m.range_start > adc \/ m.range_end < adc
        start == IF reset THEN MaxOf(0, adc - 1) ELSE m.range_start
        end == IF reset THEN start ELSE m.range_end
        ids == IF reset THEN {} ELSE m.range_lane_ids
        lane(k) == At(m.route_indices, k).segment.lane
        new(e) == {lane(k) : k \in end .. e - 1}
        last == CHOOSE e \in end .. Size(m.route_indices) :
                  /\ \A k \in end .. e - 1 : lane(k) \notin ids \cup new(k)
                  /\ e < Size(m.route_indices) => lane(e) \in ids \cup new(e)
    IN  [m EXCEPT !.range_start = MaxOf(start, adc - 1), !.range_end = last,
                  !.range_lane_ids = ids \cup new(last)]

\* The waypoints of the request that lie on the route one after the other.
WaypointIndex(r, indices) ==
    LET Step(found, k) ==
          LET rest == SubSeq(r.waypoint, Len(found) + 1, Len(r.waypoint))
              n == CHOOSE n \in 0 .. Len(rest) :
                     /\ \A i \in 1 .. n : WithinLaneSegment(indices[k].segment, rest[i])
                     /\ n < Len(rest) => ~WithinLaneSegment(indices[k].segment, rest[n + 1])
          IN  found \o [i \in 1 .. n |-> [waypoint |-> rest[i], index |-> k - 1]]
    IN  FoldLeft(Step, <<>>, [k \in DOMAIN indices |-> k])

\* IsNewRouting has seen to it that the request has waypoints.
UpdateRoutingResponse(m, r) ==
    LET indices == RouteIndices(r)
        m1 == [m EXCEPT !.range_lane_ids = {}, !.route_indices = indices,
                        !.all_lane_ids = LaneIds(indices), !.range_start = 0, !.range_end = 0,
                        !.adc_route_index = -1, !.next_routing_waypoint_index = 0]
    IN  [UpdateRoutingRange(m1, -1) EXCEPT
           !.routing_waypoint_index = WaypointIndex(r, indices), !.routing = r,
           !.adc_waypoint = NoPlace, !.stop_for_destination = FALSE]

-----------------------------------------------------------------------------
SearchForwardWaypointIndex(m, start, w) ==
    LET n == Size(m.route_indices) IN
    CHOOSE i \in MaxOf(start, 0) .. n :
      /\ i < n => WithinLaneSegment(At(m.route_indices, i).segment, w)
      /\ \A j \in MaxOf(start, 0) .. i - 1 : ~WithinLaneSegment(At(m.route_indices, j).segment, w)

SearchBackwardWaypointIndex(m, start, w) ==
    LET top == MinOf(Size(m.route_indices) - 1, start) IN
    CHOOSE i \in -1 .. top :
      /\ i >= 0 => WithinLaneSegment(At(m.route_indices, i).segment, w)
      /\ \A j \in i + 1 .. top : ~WithinLaneSegment(At(m.route_indices, j).segment, w)

GetWaypointIndex(m, w) ==
    LET forward == SearchForwardWaypointIndex(m, m.adc_route_index, w)
        backward == SearchBackwardWaypointIndex(m, m.adc_route_index, w)
    IN  IF forward >= Size(m.route_indices) THEN backward
        ELSE IF forward - m.adc_route_index \in {0, 1} THEN forward
        ELSE IF backward >= 0 /\ backward + 1 = m.adc_route_index THEN backward
        ELSE forward

\* Mutant: the index only moves on.
UpdateNextRoutingWaypointIndexForward(m, cur) ==
    LET list == m.routing_waypoint_index
        behind(k) == \/ At(list, k).index < cur
                     \/ At(list, k).index = cur /\ m.adc_waypoint.s >= At(list, k).waypoint.s
        next == Min({k \in m.next_routing_waypoint_index .. Size(list) :
                       k = Size(list) \/ ~behind(k)})
    IN  IF cur < 0 THEN 0
        ELSE IF next = Size(list) THEN (Size(list) - 1) % SizeT ELSE next

\* The four loops: back to before what lies ahead, then on past what is behind.
UpdateNextRoutingWaypointIndex(m, cur) ==
    LET list == m.routing_waypoint_index
        Index(k) == At(list, k).index
        S(k) == At(list, k).waypoint.s
        Back(n, Ahead(_)) == Max({k \in 0 .. n : k = 0 \/ k >= Size(list) \/ ~Ahead(k)})
        Forth(n, Behind(_)) == Min({k \in n .. MaxOf(n, Size(list)) : k >= Size(list) \/ ~Behind(k)})
        b1 == Back(m.next_routing_waypoint_index, LAMBDA k : Index(k) > cur)
        b2 == Back(b1, LAMBDA k : Index(k) = cur /\ m.adc_waypoint.s < S(k))
        f1 == Forth(b2, LAMBDA k : Index(k) < cur)
        f2 == Forth(f1, LAMBDA k : Index(k) = cur /\ m.adc_waypoint.s >= S(k))
    IN  IF cur < 0 THEN 0
        ELSE IF cur >= Size(m.route_indices) \/ f2 >= Size(list)
             THEN (Size(list) - 1) % SizeT
             ELSE f2

\* GetNearestPointFromRouting: which of several lanes at the same distance is
\* up to the order in which the map finds them.
NearestPoints(m, p) ==
    LET inRange == {n \in Near(p) : n.lane \in m.range_lane_ids}
        valid == IF inRange # {} THEN inRange ELSE {n \in Near(p) : n.lane \in m.all_lane_ids}
        lanes == {n \in valid : n.lane \in m.range_lane_ids}
        distance(n) == MaxOf(n.l, -n.l)
    IN  IF lanes = {} THEN {NoPlace}
        ELSE {[lane |-> n.lane, s |-> n.s] :
                n \in {n \in lanes : \A o \in lanes : distance(n) <= distance(o)}}

\* UpdateVehicleState, with the nearest point w found for place p: whether it
\* succeeds, and the fields afterwards.
UpdateVehicleState(m, p, w) ==
    LET m0 == IF m.adc_state = NoPlace \/ Far(m.adc_state, p)
              THEN [m EXCEPT !.next_routing_waypoint_index = 0, !.adc_route_index = -1,
                             !.stop_for_destination = FALSE]
              ELSE m
        m1 == [m0 EXCEPT !.adc_state = p, !.adc_waypoint = w]
        i == GetWaypointIndex(m1, w)
        m2 == UpdateRoutingRange(
                [m1 EXCEPT !.next_routing_waypoint_index = UpdateNextRoutingWaypointIndex(m1, i),
                           !.adc_route_index = i], i)
        list == m2.routing_waypoint_index
        stop == \/ m2.next_routing_waypoint_index = Size(list) - 1
                \/ GetWaypointIndex(m2, Last(list).waypoint) = Last(list).index
    IN  IF ~ValidateRouting(m.routing) THEN [ok |-> FALSE, map |-> m]
        ELSE IF w = NoPlace THEN [ok |-> FALSE, map |-> m1]
        ELSE IF i \notin 0 .. Size(m.route_indices) - 1 THEN [ok |-> FALSE, map |-> m1]
        ELSE IF list = <<>> THEN [ok |-> FALSE, map |-> m2]
        ELSE [ok |-> TRUE,
              map |-> [m2 EXCEPT !.stop_for_destination = m2.stop_for_destination \/ stop]]

-----------------------------------------------------------------------------
PassageToSegments(passage) ==
    [k \in DOMAIN passage.segment |->
       LET g == passage.segment[k] IN
       [g EXCEPT !.start_s = MaxOf(0, g.start_s), !.end_s = MinOf(Length[g.lane], g.end_s)]]

\* The passages to drive: the vehicle's own, then the ones it may change to.
GetNeighborPassages(m, road, start) ==
    LET source == road[start]
        segments == PassageToSegments(source)
        beside == {q[2] : q \in {q \in LeftOf : \E k \in DOMAIN segments : segments[k].lane = q[1]}}
        besideRight == {q[1] : q \in {q \in LeftOf : \E k \in DOMAIN segments : segments[k].lane = q[2]}}
        lanes == IF source.change_lane_type = "LEFT" THEN beside ELSE besideRight
        next == m.next_routing_waypoint_index
        stays == \/ source.change_lane_type = "FORWARD"
                 \/ source.can_exit
                 \/ segments = <<>>
                 \/ /\ next < Size(m.routing_waypoint_index)
                    /\ IsWaypointOnSegment(segments, At(m.routing_waypoint_index, next).waypoint)
        others == SelectSeq([i \in DOMAIN road |-> i],
                    LAMBDA i : i # start /\ \E k \in DOMAIN road[i].segment :
                                               road[i].segment[k].lane \in lanes)
    IN  IF stays THEN <<start>> ELSE <<start>> \o others

Preferred(m, lanes) ==
    LET inRange == SelectSeq(lanes, LAMBDA l : l \in m.range_lane_ids)
    IN  IF lanes = <<>> THEN NoLane ELSE IF inRange # <<>> THEN Head(inRange) ELSE Head(lanes)
GetRouteSuccessor(m, lane) == Preferred(m, Successors[lane])
GetRoutePredecessor(m, lane) == Preferred(m, Predecessors[lane])

\* Towards the start: whole lanes or the rest of one, none twice.
RECURSIVE ExtendBackward(_, _, _, _, _)
ExtendBackward(m, lane, s, extend, found) ==
    LET prev == GetRoutePredecessor(m, lane)
        length == MinOf(s, extend)
    IN  IF extend = 0 \/ (s = 0 /\ (prev = NoLane \/ prev \in found.lanes)) THEN found
        ELSE IF s = 0 THEN ExtendBackward(m, prev, Length[prev], extend, found)
        ELSE ExtendBackward(m, lane, s - length, extend - length,
               [segments |-> <<[lane |-> lane, start_s |-> s - length, end_s |-> s]>> \o found.segments,
                lanes |-> found.lanes \cup {lane}])

\* Mutant: lanes that were met before are taken again.
TakeSegmentAgain(t, g, start_s, end_s) ==
    LET from == MaxOf(start_s - t.router_s + g.start_s, g.start_s)
        to == MinOf(end_s - t.router_s + g.start_s, g.end_s)
    IN  IF t.router_s > end_s THEN t
        ELSE [t EXCEPT !.segments = IF from < to THEN Append(@, [g EXCEPT !.start_s = from, !.end_s = to])
                                                 ELSE @,
                       !.lanes = @ \cup {g.lane}, !.router_s = @ + g.end_s - g.start_s]

\* The part of the segments between start_s and end_s.
TakeSegment(t, g, start_s, end_s) ==
    LET from == MaxOf(start_s - t.router_s + g.start_s, g.start_s)
        to == MinOf(end_s - t.router_s + g.start_s, g.end_s)
        n == Len(t.segments)
        passed == t.router_s + g.end_s - g.start_s
    IN  IF t.found_loop \/ t.router_s > end_s THEN t
        ELSE IF from < to /\ n > 0 /\ t.segments[n].lane = g.lane
        THEN [t EXCEPT !.segments[n].end_s = to, !.router_s = passed]
        ELSE IF from < to /\ g.lane \in t.lanes THEN [t EXCEPT !.found_loop = TRUE]
        ELSE IF from < to
        THEN [t EXCEPT !.segments = Append(@, [lane |-> g.lane, start_s |-> from, end_s |-> to]),
                       !.lanes = @ \cup {g.lane}, !.router_s = passed]
        ELSE [t EXCEPT !.router_s = passed]

\* The rest of the last lane, if the routing ends before it does.
TakeRestOfLane(t, end_s) ==
    LET n == Len(t.segments)
        more == MinOf(end_s - t.router_s, Length[t.segments[n].lane] - t.segments[n].end_s)
    IN  IF t.router_s < end_s /\ n > 0
        THEN [t EXCEPT !.segments[n].end_s = @ + more, !.router_s = @ + more] ELSE t

RECURSIVE ExtendForward(_, _, _, _)
ExtendForward(m, lane, end_s, t) ==
    LET next == GetRouteSuccessor(m, lane)
        length == MinOf(end_s - t.router_s, Length[next])
    IN  IF t.router_s >= end_s \/ next = NoLane \/ next \in t.lanes THEN t
        ELSE ExtendForward(m, next, end_s,
               [t EXCEPT !.segments = Append(@, [lane |-> next, start_s |-> 0, end_s |-> length]),
                         !.lanes = @ \cup {next}, !.router_s = @ + length])

ExtendSegments(m, segments, start_s, end_s) ==
    LET nothing == [segments |-> <<>>, lanes |-> {}]
        before == IF start_s < 0
                  THEN ExtendBackward(m, segments[1].lane, segments[1].start_s, -start_s, nothing)
                  ELSE nothing
        taken == FoldLeft(LAMBDA t, g : TakeSegment(t, g, start_s, end_s),
                   [segments |-> before.segments, lanes |-> before.lanes,
                    router_s |-> 0, found_loop |-> FALSE], segments)
    IN  IF taken.found_loop THEN taken.segments
        ELSE ExtendForward(m, Last(segments).lane, end_s, TakeRestOfLane(taken, end_s)).segments

-----------------------------------------------------------------------------
\* RouteSegments::GetProjection: the possible distances from the beginning of
\* the segments, with the side; the first segment that is closest counts.
Projections(segments, near) ==
    LET on == {<<i, n>> \in (DOMAIN segments) \X near : WithinLaneSegment(segments[i], n)}
        dist(e) == MaxOf(e[2].l, -e[2].l)
        best == {e \in on : \A o \in on : dist(e) < dist(o) \/ (dist(e) = dist(o) /\ e[1] <= o[1])}
        before(i) == FoldLeft(LAMBDA a, g : a + g.end_s - g.start_s, 0, SubSeq(segments, 1, i - 1))
    IN  {[s |-> before(e[1]) + e[2].s - segments[e[1]].start_s, l |-> e[2].l] : e \in best}

\* The vehicle is on the segments or beside them.  The widths and headings of
\* lanes side by side always let it change.
CanDriveFrom(segments, w) ==
    IsWaypointOnSegment(segments, w) \/ Projections(segments, Near(w)) # {}

\* One passage: nothing if the vehicle cannot be projected to it or cannot
\* drive there.
RouteSegmentsOf(m, own, road, i, forward) ==
    LET segments == PassageToSegments(road[i])
        point == IF i = own THEN {[lane |-> m.adc_waypoint.lane, s |-> m.adc_waypoint.s, l |-> 0]}
                            ELSE Near(m.adc_state)
        sl == CHOOSE sl \in Projections(segments, point) : TRUE
        extended == ExtendSegments(m, segments, sl.s - Backward, sl.s + forward)
        end == [lane |-> Last(segments).lane, s |-> Last(segments).end_s]
    IN  IF \/ segments = <<>> \/ Projections(segments, point) = {}
           \/ i # own /\ ~CanDriveFrom(segments, m.adc_waypoint)
        THEN <<>>
        ELSE <<[segments |-> extended, passage |-> i, is_on_segment |-> i = own,
                route_end |-> IF IsWaypointOnSegment(extended, end) THEN end ELSE NoPlace,
                can_exit |-> road[i].can_exit, next_action |-> road[i].change_lane_type,
                previous_action |-> IF i = own THEN "FORWARD" ELSE IF sl.l > 0 THEN "RIGHT" ELSE "LEFT",
                stop_for_destination |-> m.stop_for_destination]>>

GetRouteSegments(m, forward) ==
    LET at == At(m.route_indices, m.adc_route_index).index
        road == m.routing.road[at[1]]
        passages == GetNeighborPassages(m, road, at[2])
    IN  FlattenSeq([k \in DOMAIN passages |-> RouteSegmentsOf(m, at[2], road, passages[k], forward)])

-----------------------------------------------------------------------------
Init ==
    /\ map = [routing |-> NoRouting, route_indices |-> <<>>, range_start |-> 0, range_end |-> 0,
              range_lane_ids |-> {}, all_lane_ids |-> {}, routing_waypoint_index |-> <<>>,
              next_routing_waypoint_index |-> 0, adc_state |-> NoPlace, adc_route_index |-> -1,
              adc_waypoint |-> NoPlace, stop_for_destination |-> FALSE]
    /\ out = Nothing

\* CreateReferenceLine has been given another routing than the map has.
NewRouting ==
    \E r \in Routings :
      /\ IsNewRouting(map.routing, r)
      /\ map' = UpdateRoutingResponse(map, r) /\ out' = Nothing

\* GetRouteSegments, which CreateReferenceLine calls for every state of the
\* vehicle.  The vehicle may be anywhere, since it can be moved by hand.
Locate ==
    \E p \in Places, forward \in Forwards : \E w \in NearestPoints(map, p) :
      LET u == UpdateVehicleState(map, p, w)
          segments == IF u.ok THEN GetRouteSegments(u.map, forward) ELSE <<>>
      IN  map' = u.map /\ out' = [ok |-> segments # <<>>, route_segments |-> segments]

Next == NewRouting \/ Locate
pncVars == <<map, out>>
Spec == Init /\ [][Next]_pncVars

-----------------------------------------------------------------------------
TypeOK ==
    LET n == Size(map.route_indices) IN
    /\ map.routing \in Routings \cup {NoRouting}
    /\ 0 <= map.range_start /\ map.range_start <= map.range_end /\ map.range_end <= n
    /\ map.adc_route_index \in -1 .. n - 1 /\ map.next_routing_waypoint_index \in Nat
    /\ map.range_lane_ids \subseteq map.all_lane_ids /\ map.all_lane_ids \subseteq Lanes
    /\ {map.adc_state, map.adc_waypoint} \subseteq Places \cup {NoPlace}
    /\ {map.stop_for_destination, out.ok} \subseteq BOOLEAN

Passed(w) ==
    \/ w.index < map.adc_route_index
    \/ w.index = map.adc_route_index /\ w.waypoint.s <= map.adc_waypoint.s

\* The comment of UpdateNextRoutingWaypointIndex: the next waypoint is the
\* first of the request that the vehicle has still to pass, wherever it has
\* been before, ahead or behind; after the last it stays the last.
NextIsNext ==
    out.ok =>
      LET list == map.routing_waypoint_index
          ahead == {k \in 0 .. Size(list) - 1 : ~Passed(At(list, k))}
      IN  map.next_routing_waypoint_index = IF ahead = {} THEN Size(list) - 1 ELSE Min(ahead)

\* The index GetRouteSegments goes by is of a segment that holds the vehicle,
\* and every segment of the range has its lane in range_lane_ids_.
OnItsSegment ==
    /\ out.ok => /\ map.adc_route_index \in 0 .. Size(map.route_indices) - 1
                 /\ WithinLaneSegment(At(map.route_indices, map.adc_route_index).segment,
                                      map.adc_waypoint)
    /\ \A k \in map.range_start .. map.range_end - 1 :
         At(map.route_indices, k).segment.lane \in map.range_lane_ids

\* What GetRouteSegments returns can be driven from one end to the other:
\* every segment begins where the one before it ends, and no lane comes twice,
\* also where the route or the road runs in a circle.
OneWay(segments) ==
    /\ \A i, j \in DOMAIN segments : segments[i].lane = segments[j].lane => i = j
    /\ \A i \in DOMAIN segments : segments[i].start_s < segments[i].end_s
    /\ \A i \in 1 .. Len(segments) - 1 :
         LET g == segments[i]  h == segments[i + 1] IN
         h.lane \in ToSet(Successors[g.lane]) /\ g.end_s = Length[g.lane] /\ h.start_s = 0
Drivable == \A i \in DOMAIN out.route_segments : OneWay(out.route_segments[i].segments)

\* The first result is the vehicle's own and holds the vehicle.  (Backward is
\* shorter, by a lane, than any circle of lanes: in a smaller circle the way
\* back may already use up the vehicle's lane.)
HoldsVehicle ==
    out.ok => /\ Head(out.route_segments).is_on_segment
              /\ IsWaypointOnSegment(Head(out.route_segments).segments, map.adc_waypoint)

\* The vehicle is tracked along the route.
RouteIsTracked == NextIsNext /\ OnItsSegment

\* Reference lines are made from lanes that can be driven and hold the vehicle.
SegmentsAreDrivable == Drivable /\ HoldsVehicle
=============================================================================
