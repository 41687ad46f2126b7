---------------------------- MODULE CognitiveMap ----------------------------
(***************************************************************************)
(* The cognitive map of LocalExplorationPlanner: the global graph and what *)
(* builds it.  The robot drives through a space it knows in part; the      *)
(* odometry timer lays vertices behind it; a planning round builds a local *)
(* graph, commits its path and leaves frontiers to add; a timer, or the    *)
(* next round, adds them; another timer samples vertices near unvisited    *)
(* ones; homing queries, waypoints, semantic markers, exclusion zones and  *)
(* a saved map change the graph as well.  The node runs one handler at a   *)
(* time, so each handler is one action.                                    *)
(*                                                                         *)
(* The space is a grid.  A vertex is sampled in the middle of a cell and a *)
(* straight path crosses the cells Between gives.  The ranges of the code  *)
(* keep their order and are counted in cells.                              *)
(***************************************************************************)
EXTENDS CognitiveGraph

CONSTANTS
    Between(_, _),       \* cells that a straight path between two cells crosses
    Bearing(_, _),       \* direction of the second cell from the first
    Free,                \* cells without an obstacle
    Home,                \* where the robot starts
    ViewRange,           \* range of the sensor
    EdgeMin, EdgeMax,    \* edge_length_min, edge_length_max
    NearestRange,        \* nearest_range and nearest_range_max
    OdomDist,            \* global_graph_odom_dist
    OdomRadius,          \* global_graph_odom_connect_radius
    ShortcutRadius,      \* shortcut_edge_radius
    AnchorLimit,         \* distance that is linked without a collision check
    HistoryRadius,       \* kUpdateRadius of addFrontiers
    VisitRadius,         \* kUpdateRadius of the odometry timer
    SparseRadius,        \* kSparseRadius of the topological timer
    QueueMax,            \* backtracking_queue_max_size
    MaxSeeds,            \* opening_frontier_seed_max_num, 0 when disabled
    WaypointRange,       \* max_difference_waypoint_to_graph
    SemanticPlaces,      \* bound: where semantic markers appear
    Zones,               \* bound: exclusion zones, sets of cells
    SavedMaps,           \* bound: maps saved by earlier missions
    StartupReach,        \* reach of augmentFreeStartupArea
    AugmentTimes,        \* augment_free_voxels_time
    MaxTriggers,         \* bound: planning rounds
    MaxMoves,            \* bound: odometry messages
    MaxQueries,          \* bound: homing queries, markers, zones and loads
    MaxVertices          \* bound: vertices of the global graph

ASSUME SpaceAssumption ==
    /\ IsFiniteSet(Places) /\ Free \subseteq Places /\ Home \in Free
    /\ \A p, q \in Places : Dist(p, q) \in Nat /\ Between(p, q) \subseteq Places
    /\ \A p, q \in Places : Dist(p, q) = Dist(q, p) /\ (Dist(p, q) = 0 <=> p = q)
    /\ EdgeMin \in Nat /\ EdgeMax \in Nat

\* In every file the repository ships.  With another one the ranges would
\* change in the middle of a mission: where the odometry timer lays a vertex
\* it borrows them, and gives back edge_length_max.
ASSUME RangeAssumption == NearestRange = EdgeMax

ASSUME BoundAssumption ==
    /\ QueueMax \in Nat \ {0} /\ MaxVertices \in Nat \ {0} /\ MaxTriggers \in Nat
    /\ SemanticPlaces \subseteq Places /\ UNION Zones \subseteq Places

\* A saved map is what saveGraph writes: vertices numbered from 0 and edges
\* between them.
ASSUME SavedMapAssumption ==
    \A msg \in SavedMaps : \E n \in 0..MaxVertices :
        /\ msg.vertices \subseteq [id : 0..(n - 1), place : Places, frontier : BOOLEAN]
        /\ \A id \in 0..(n - 1) : \E v \in msg.vertices : v.id = id
        /\ \A v, w \in msg.vertices : v.id = w.id => v = w
        /\ \A e \in msg.edges : \E v, u \in 0..(n - 1) : e = {v, u}

\* A straight path is the same both ways and passes a cell at each distance.
ASSUME PathAssumption ==
    \A p, q \in Places :
        /\ Between(p, q) = Between(q, p)
        /\ \A n \in 0..Dist(p, q) : \E r \in Between(p, q) :
               Dist(p, r) = n /\ Dist(r, q) = Dist(p, q) - n

VARIABLES
    known,       \* cells of the voxel map that are not unknown
    robot,       \* current_state_
    queue,       \* robot_backtracking_queue_
    prev,        \* robot_backtracking_prev_: the id and place of a vertex
    lastMark,    \* last_state_marker_global_
    history,     \* robot_state_hist_
    triggers,    \* planner_trigger_count_
    graph,       \* global_graph_
    local,       \* local_graph_
    rep,         \* local_graph_rep_
    pending,     \* add_frontiers_to_global_graph_
    closed,      \* cells of the exclusion zones in force
    loaded,      \* history: a saved map was loaded
    cut,         \* history: an exclusion zone removed an edge
    moves,       \* bound: odometry messages so far
    queries      \* bound: queries and markers so far

robotVars == <<known, robot, queue, prev, lastMark, history>>
roundVars == <<triggers, local, rep, pending>>
mapVars == <<closed, loaded, cut>>
bounds == <<moves, queries>>
vars == <<robotVars, roundVars, mapVars, bounds, graph>>

NoVertex == [id |-> -1, place |-> Home]

TypeOK ==
    /\ known \subseteq Places /\ robot \in Free /\ lastMark \in Free
    /\ queue \in Seq(Free) /\ Len(queue) <= QueueMax
    /\ prev \in [id : -1..(MaxVertices - 1), place : Places]
    /\ history \subseteq Free /\ closed \subseteq Places
    /\ triggers \in 0..MaxTriggers
    /\ \A g \in {graph, local} : \A v \in Ids(g) :
           g.vertex[v] \in [place : Places, type : Types, frontier : BOOLEAN, gain : Nat]
    /\ Cardinality(Ids(graph)) <= MaxVertices
    /\ {pending, loaded, cut} \subseteq BOOLEAN

-----------------------------------------------------------------------------
(* The voxel map and the exclusion zones, as the planner asks them.        *)

View(p) == { q \in Places : Dist(p, q) <= ViewRange /\ Between(p, q) \ {q} \subseteq Free }

\* getPathStatus = kFree; without stop_at_unknown unknown cells pass.
PathFree(p, q, stopAtUnknown) ==
    /\ Between(p, q) \cap known \subseteq Free
    /\ stopAtUnknown => Between(p, q) \subseteq known
BoxFree(p) == PathFree(p, p, TRUE)
FenceOK(p, q) == Between(p, q) \cap closed = {}

\* computeVolumetricGainRayModelNoBound.
Gain(p) == Cardinality(View(p) \ known)
Evaluated(v) == [v EXCEPT !.gain = Gain(v.place), !.frontier = Gain(v.place) > 0]

LargerOf(a, b) == IF a >= b THEN a ELSE b

-----------------------------------------------------------------------------
(* Growing a graph.                                                        *)

NewLinked(g, v, to) == AddEdge(AddVertex(g, v), GenerateVertexID(g), to)

\* expandGraphEdges, with the ranges in force; exclusion zones are not asked.
EdgesInRange(g, v, range, max) ==
    { <<v, u>> : u \in { w \in NearestVertices(g, g.vertex[v].place, range) :
        /\ VertexDist(g, v, w) > EdgeMin /\ VertexDist(g, v, w) < max
        /\ PathFree(g.vertex[v].place, g.vertex[w].place, FALSE) } }
ExpandGraphEdges(g, v) == AddEdges(g, EdgesInRange(g, v, NearestRange, EdgeMax))

\* maybeAddShortcutEdges, to vertices nearby that are a long way round
\* (shortcut_detour_ratio 1.35); paths are known before the first is added.
ShortcutEdges(g, v, max) ==
    LET paths == ShortestPaths(g, v)
        from == g.vertex[v].place
    IN  { <<v, u>> : u \in { w \in NearestVertices(g, from, ShortcutRadius) \ {v} :
            /\ w \notin Neighbors(g, v)
            /\ VertexDist(g, v, w) > LargerOf(OdomRadius, max)
            /\ paths.status
            /\ 20 * ShortestDistance(paths, w) >= 27 * VertexDist(g, v, w)
            /\ PathFree(from, g.vertex[w].place, TRUE) } }
MaybeAddShortcutEdges(g, v) == AddEdges(g, ShortcutEdges(g, v, EdgeMax))

\* A point too far from the nearest vertex is drawn towards it.
Truncated(from, to) ==
    IF Dist(from, to) <= EdgeMax THEN to
    ELSE CHOOSE p \in Between(from, to) :
             Dist(from, p) = EdgeMax /\ Dist(p, to) = Dist(from, to) - EdgeMax

\* Fault: an edge is tested for obstacles alone.
CanExpandUnfenced(g, target) ==
    /\ Ids(g) # {}
    /\ LET from == g.vertex[NearestVertex(g, target)].place
           place == Truncated(from, target)
       IN  Dist(from, target) > EdgeMin /\ PathFree(from, place, TRUE)

\* expandGraph reaches the place: kSuccess.
CanExpand(g, target) ==
    /\ Ids(g) # {}
    /\ LET from == g.vertex[NearestVertex(g, target)].place
           place == Truncated(from, target)
       IN  /\ Dist(from, target) > EdgeMin
           /\ FenceOK(from, place)
           /\ PathFree(from, place, TRUE)

\* The edges of a new vertex to those in range, each on a known free path
\* outside the zones; the nearest may be one of them.
LinksInRange(g, v) ==
    { <<v, u>> : u \in { w \in NearestVertices(g, g.vertex[v].place, NearestRange) :
        /\ VertexDist(g, v, w) > EdgeMin /\ VertexDist(g, v, w) < NearestRange
        /\ FenceOK(g.vertex[v].place, g.vertex[w].place)
        /\ PathFree(g.vertex[v].place, g.vertex[w].place, TRUE) } }
LinkInRange(g, v) == AddEdges(g, LinksInRange(g, v))

\* expandGraph: the new vertex, its edge to the nearest one, and those in range.
ExpandGraph(g, target, type) ==
    LET near == NearestVertex(g, target)
        new == [Vertex(Truncated(g.vertex[near].place, target)) EXCEPT !.type = type]
    IN  IF CanExpand(g, target)
        THEN LinkInRange(NewLinked(g, new, near), GenerateVertexID(g))
        ELSE g

\* How a state is tied to the graph, for anchors, homing queries and paths:
\* the vertex that is there, a link that nothing checks, or expandGraph.
\* The vertex is -1 when there is none.
Tie(g, place, limit, reuse) ==
    IF Ids(g) = {} THEN [graph |-> g, id |-> -1]
    ELSE LET near == NearestVertex(g, place)
             dist == Dist(g.vertex[near].place, place)
         IN  IF reuse /\ dist = 0 THEN [graph |-> g, id |-> near]
             ELSE IF dist <= LargerOf(limit, EdgeMin)
             THEN [graph |-> NewLinked(g, Vertex(place), near), id |-> GenerateVertexID(g)]
             ELSE IF CanExpand(g, place)
             THEN [graph |-> ExpandGraph(g, place, "kUnvisited"), id |-> GenerateVertexID(g)]
             ELSE [graph |-> g, id |-> -1]

\* A tie that needed no expandGraph.
IsNear(g, place, limit) ==
    Dist(g.vertex[NearestVertex(g, place)].place, place) <= LargerOf(limit, EdgeMin)

\* anchorStateInCognitiveMap.
Anchor(g, place) ==
    LET edges(tie) == IF IsNear(g, place, AnchorLimit) THEN ExpandGraphEdges(tie.graph, tie.id)
                      ELSE tie.graph
        linked(tie) == IF tie.id = -1 THEN tie
                       ELSE [tie EXCEPT !.graph = MaybeAddShortcutEdges(edges(tie), tie.id)]
    IN  linked(Tie(g, place, AnchorLimit, TRUE))

\* The vertices laid on an edge longer than a cell, in a chain beside it.
Interpolated(g, v, u) ==
    LET from == g.vertex[v].place
        to == g.vertex[u].place
        long == Dist(from, to)
        step(s, j) ==
            LET place == CHOOSE p \in Between(from, to) :
                             Dist(from, p) = j /\ Dist(p, to) = long - j
            IN  [graph |-> NewLinked(s.graph, Vertex(place), s.last),
                 last |-> GenerateVertexID(s.graph)]
        chain == FoldLeft(step, [graph |-> g, last |-> v], [j \in 1..(long - 1) |-> j])
    IN  IF long <= 1 THEN g ELSE AddEdge(chain.graph, chain.last, u)

\* The vertices of a path behind the vertex it is tied to, in a chain.
Chained(tie, path) ==
    LET append(s, v) == [graph |-> NewLinked(s.graph, v, Last(s.list)),
                         list |-> Append(s.list, GenerateVertexID(s.graph))]
    IN  FoldLeft(append, [graph |-> tie.graph, list |-> <<tie.id>>], Tail(path))

\* Edges and shortcuts for each of a chain, and long edges of it filled.
Connected(chain) ==
    LET connect(h, v) == MaybeAddShortcutEdges(ExpandGraphEdges(h, v), v)
        fill(h, i) == Interpolated(h, chain.list[i], chain.list[i + 1])
    IN  FoldLeft(fill, FoldLeft(connect, chain.graph, chain.list),
                 [i \in 1..(Len(chain.list) - 1) |-> i])

\* commitVerifiedPathToCognitiveMap: the start is tied to the graph, and every
\* further vertex is new.
CommitVerifiedPath(g, path) ==
    LET commit(tie) == IF tie.id = -1 THEN g ELSE Connected(Chained(tie, path)) IN
    IF path = <<>> \/ Ids(g) = {} THEN g ELSE commit(Tie(g, path[1].place, 0, TRUE))

-----------------------------------------------------------------------------
(* The local graph.                                                        *)

\* buildGraph: the samples one by one, as expandGraph takes them.
BasicGraph(root, samples) ==
    FoldLeft(LAMBDA g, p : ExpandGraph(g, p, "kUnvisited"),
             AddVertex(EmptyGraph, Vertex(root)), samples)

\* batchGraph: expandGraphEdgesBatch on the root and the samples: an edge for
\* every pair in range on a known free path, then the component of the root,
\* renumbered.
BatchGraph(root, samples) ==
    LET places == <<root>> \o samples
        joined(i, j) == /\ i # j
                        /\ Dist(places[i], places[j]) <= NearestRange
                        /\ PathFree(places[i], places[j], TRUE)
        spread(reached, round) ==
            reached \cup { j \in DOMAIN places : \E i \in reached : joined(i, j) }
        kept == FoldLeft(spread, {1}, [round \in DOMAIN samples |-> round])
        id(i) == Cardinality({ j \in kept : j < i })
        place(v) == places[CHOOSE i \in kept : id(i) = v]
    IN  AddEdges([EmptyGraph EXCEPT
                    !.vertex = [v \in 0..(Cardinality(kept) - 1) |-> Vertex(place(v))],
                    !.idCount = Cardinality(kept) - 1],
                 { <<id(p[1]), id(p[2])>> :
                     p \in { q \in kept \X kept : q[1] > q[2] /\ joined(q[1], q[2]) } })

\* computeExplorationGain labels every vertex of the local graph.
Labelled(g) ==
    [g EXCEPT !.vertex = [v \in Ids(g) |->
        LET e == Evaluated(@[v]) IN
        IF e.frontier THEN [e EXCEPT !.type = "kFrontier"] ELSE e]]

\* evaluateGraph: what the path of a leaf shows, and whether any shows a
\* frontier.
LeafPath(r, v) == ShortestPath(r, v)
PathGain(g, r, v) == MapThenSumSet(LAMBDA i : g.vertex[LeafPath(r, v)[i]].gain,
                                   DOMAIN LeafPath(r, v))
LongLeaves(g, r) == { v \in LeafVertices(g, r) : Len(LeafPath(r, v)) > 1 }
GoodLeaves(g, r) == { v \in LongLeaves(g, r) : PathGain(g, r, v) > 0 }
FrontierExists(g, r) ==
    \E v \in LongLeaves(g, r) : \E i \in DOMAIN LeafPath(r, v) :
        g.vertex[LeafPath(r, v)[i]].frontier

PathVertices(g, path) == [i \in DOMAIN path |-> g.vertex[path[i]]]

-----------------------------------------------------------------------------
(* Adding frontiers.                                                       *)

\* Fault: frontiers are known by the flag they were added with.
RefreshFlagged(g) ==
    [g EXCEPT !.vertex = [v \in Ids(g) |->
        IF @[v].frontier THEN [Evaluated(@[v]) EXCEPT !.type = "kFrontier"] ELSE @[v]]]

\* A frontier of the map that shows nothing new any more is unvisited.
RefreshFrontiers(g) ==
    [g EXCEPT !.vertex = [v \in Ids(g) |->
        IF @[v].type # "kFrontier" THEN @[v]
        ELSE IF Gain(@[v].place) > 0 THEN Evaluated(@[v])
        ELSE [Evaluated(@[v]) EXCEPT !.type = "kUnvisited"]]]

\* compareTwoTrajectories: the shorter path runs along the longer one.
Alongside(g, short, long) ==
    \A i \in DOMAIN short : \E k \in 1..(Len(long) - 1) :
        g.vertex[short[i]].place
            \in Between(g.vertex[long[k]].place, g.vertex[long[k + 1]].place)

\* performShortestPathsClustering: the farthest vertices first, one for each
\* path that is not part of another; paths of no length are dropped.
Clusters(g, r, vertices) ==
    LET before(v, u) == \/ ShortestDistance(r, v) > ShortestDistance(r, u)
                        \/ ShortestDistance(r, v) = ShortestDistance(r, u) /\ v < u
        last(S) == CHOOSE v \in S : \A u \in S \ {v} : before(u, v)
        add(v, ids) ==
            IF \/ Len(ShortestPath(r, v)) <= 1
               \/ \E i \in DOMAIN ids :
                      Alongside(g, ShortestPath(r, v), ShortestPath(r, ids[i]))
            THEN ids ELSE Append(ids, v)
    IN  MapThenFoldSet(add, <<>>, LAMBDA v : v, last, vertices)

\* A cluster is worth a branch of the map: nothing of it is there yet and the
\* robot has not been near.
IsNewPlace(g, place) ==
    /\ ~InRange(g, place, 0)
    /\ \A p \in history : Dist(p, place) > HistoryRadius

\* addOpeningFrontierSeeds, the candidates: from an anchor one cell into the
\* free space with the unknown behind it, at no vertex and nowhere visited.
SeedCandidates(g, loc, r) ==
    LET opens(path, place) ==
            /\ path # <<>>
            /\ LET anchor == loc.vertex[Last(path)].place IN
               /\ Dist(anchor, place) = 1 /\ PathFree(anchor, place, TRUE)
               /\ \E q \in Places \ known :
                      Bearing(anchor, q) = Bearing(anchor, place) /\ Dist(place, q) = 1
            /\ ~InRange(g, place, 0) /\ place \notin history
            /\ Gain(place) > 0
    IN  { c \in { ShortestPath(r, v) : v \in Ids(loc) } \X Places : opens(c[1], c[2]) }

\* The seeds in the order of their score; one for a direction from the root.
AddOpeningFrontierSeeds(g, loc, r) ==
    LET root == loc.vertex[0].place
        seed(place) == [Evaluated(Vertex(place)) EXCEPT !.type = "kFrontier"]
        last(S) == CHOOSE c \in S : \A d \in S : Gain(c[2]) <= Gain(d[2])
        taken(s, c, next) ==
            IF next = s.graph THEN s
            ELSE [graph |-> next, bearings |-> Append(s.bearings, Bearing(root, c[2]))]
        add(c, s) ==
            IF Len(s.bearings) >= MaxSeeds \/ Contains(s.bearings, Bearing(root, c[2]))
            THEN s
            ELSE taken(s, c, CommitVerifiedPath(s.graph, Append(PathVertices(loc, c[1]), seed(c[2]))))
    IN  MapThenFoldSet(add, [graph |-> g, bearings |-> <<>>], LAMBDA c : c, last,
                       SeedCandidates(g, loc, r)).graph

\* addFrontiers, of the local graph loc with its report r.  Only the end of
\* a path keeps its type.  The graph and the local graph after it.
AddFrontiers(g, loc, r) ==
    LET frontiers == { v \in Ids(loc) : loc.vertex[v].type = "kFrontier" }
        add(s, v) ==
            IF ~IsNewPlace(s.graph, s.local.vertex[v].place) THEN s
            ELSE LET path == ShortestPath(r, v)
                     cleared == SetType(s.local, ToSet(Front(path)), "kUnvisited")
                 IN  [graph |-> CommitVerifiedPath(s.graph, PathVertices(cleared, path)),
                      local |-> cleared]
        seeded(s) == [s EXCEPT !.graph = AddOpeningFrontierSeeds(@, s.local, r)]
    IN  seeded(FoldLeft(add, [graph |-> RefreshFrontiers(g), local |-> loc],
                        Clusters(loc, r, frontiers)))

-----------------------------------------------------------------------------
(* The handlers.                                                           *)

Fits(g) == Cardinality(Ids(g)) <= MaxVertices

\* augmentFreeStartupArea, where there is no obstacle.  (The code clears what
\* it does not know, a hidden obstacle included, until the sensor sees it.)
StartupArea(p) == { q \in Free : Dist(p, q) <= StartupReach }

\* setState: an odometry message; the sensor has seen what is in view.
SetState(p) ==
    /\ p \in Free /\ Dist(robot, p) = 1
    /\ robot' = p
    /\ known' = known \cup View(p)
                     \cup (IF triggers < AugmentTimes THEN StartupArea(p) ELSE {})
    /\ queue' = Append(IF Len(queue) >= QueueMax THEN Tail(queue) ELSE queue, p)
    /\ moves < MaxMoves /\ moves' = moves + 1
    /\ UNCHANGED <<queries, prev, lastMark, history, roundVars, mapVars, graph>>

\* Fault: the vertex is laid however far the graph is, and its edge only to a
\* vertex in range.
TrackStateInRange(s, p) ==
    LET near == NearestVertex(s.graph, p)
        from == IF s.prev # NoVertex THEN s.prev
                ELSE [id |-> near, place |-> s.graph.vertex[near].place]
        new == AddVertex(s.graph, Vertex(p))
        id == GenerateVertexID(s.graph)
    IN  IF Ids(s.graph) = {} \/ Dist(from.place, p) < OdomDist THEN s
        ELSE [graph |-> IF Dist(from.place, p) > OdomDist THEN new
                        ELSE AddEdge(new, id, from.id),
              prev |-> [id |-> id, place |-> p]]

\* Fault: the timer lays the vertex and leaves the edge to expandGraphEdges.
TrackStateUnlinked(s, p) ==
    LET id == GenerateVertexID(s.graph)
        new == AddVertex(s.graph, Vertex(p))
    IN  IF Dist(s.prev.place, p) < OdomDist THEN s
        ELSE [graph |-> AddEdges(new, EdgesInRange(new, id, OdomRadius, OdomRadius)),
              prev |-> [id |-> id, place |-> p]]

\* Where the track begins.  global_graph_odom_dist is asked for and has no
\* effect: getNearestVertexInRange hands out the nearest vertex however far it
\* is, nothing only of an empty graph, and its result is not looked at.
TrackStart(g, p) ==
    LET near == NearestVertex(g, p) IN
    IF Ids(g) = {} THEN NoVertex ELSE [id |-> near, place |-> g.vertex[near].place]

\* One state of the queue.  The vertex is tied to the last one of the track,
\* or to where the track begins, by an edge of any length that nothing checks.
TrackState(s, p) ==
    LET from == IF s.prev = NoVertex THEN TrackStart(s.graph, p) ELSE s.prev
        id == GenerateVertexID(s.graph)
        linked == NewLinked(s.graph, Vertex(p), from.id)
        edges == AddEdges(linked, EdgesInRange(linked, id, OdomRadius, OdomRadius))
    IN  IF from = NoVertex \/ Dist(from.place, p) < OdomDist
        THEN [s EXCEPT !.prev = from]
        ELSE [graph |-> AddEdges(edges, ShortcutEdges(edges, id, OdomRadius)),
              prev |-> [id |-> id, place |-> p]]

\* timerCallback: the queue is laid out, and where the robot has moved on,
\* the place enters the history and what is around it is visited.
OdometryTimer ==
    LET moved == Dist(robot, lastMark) >= 1 IN
        /\ queue # <<>> \/ moved
        /\ queue' = <<>>
        /\ \E track \in {FoldLeft(TrackState, [graph |-> graph, prev |-> prev], queue)} :
               /\ Fits(track.graph)
               /\ prev' = track.prev
               /\ graph' = IF moved THEN UpdateVertexTypeInRange(track.graph, robot, VisitRadius)
                           ELSE track.graph
        /\ history' = IF moved THEN history \cup {robot} ELSE history
        /\ lastMark' = IF moved THEN robot ELSE lastMark
        /\ UNCHANGED <<known, robot, roundVars, mapVars, bounds>>

\* setHomingPos.
SetHomingPos ==
    /\ Ids(graph) = {}
    /\ graph' = AddVertex(graph, Vertex(robot))
    /\ UNCHANGED <<robotVars, roundVars, mapVars, bounds>>

\* reset: frontiers still to be added are added from the old local graph.
ResetGraph ==
    LET rooted(g) == IF triggers = 0 /\ Ids(g) = {} THEN AddVertex(g, Vertex(robot)) ELSE g IN
    rooted(IF pending THEN AddFrontiers(graph, local, rep).graph ELSE graph)

\* expandTopologicalFrontierAdditionTimerCallback.
FrontierTimer ==
    /\ pending
    /\ pending' = FALSE
    /\ \E added \in {AddFrontiers(graph, local, rep)} :
           graph' = added.graph /\ local' = added.local
    /\ Fits(graph')
    /\ UNCHANGED <<robotVars, triggers, rep, mapVars, bounds>>

\* expandTopologicalMapTimerCallback, for a sample that succeeds: the time
\* allows any number of them.  sampleVertex gives known free cells.
TopologicalTimer(p) ==
    /\ triggers > 0
    /\ \E v \in Ids(graph) : graph.vertex[v].type = "kUnvisited"
    /\ BoxFree(p)
    /\ \A q \in history : Dist(p, q) > SparseRadius
    /\ NearestVertices(graph, p, SparseRadius) = {}
    /\ CanExpand(graph, p)
    /\ \E g \in {ExpandGraph(graph, p, "kUnvisited")} :
           LET new == Evaluated(g.vertex[g.idCount]) IN
           graph' = [g EXCEPT !.vertex[g.idCount] =
                        IF new.frontier THEN [new EXCEPT !.type = "kFrontier"] ELSE new]
    /\ Fits(graph')
    /\ UNCHANGED <<robotVars, roundVars, mapVars, bounds>>

\* semanticsCallback: a marker in free space is tied to a vertex nearby that
\* has a straight path to it.  Of a path with a bend nothing is added.
Semantics(p) ==
    /\ BoxFree(p) /\ Ids(graph) # {}
    /\ LET near == NearestVertex(graph, p)
           range == 2 * Dist(graph.vertex[near].place, p)
       IN  \E v \in NearestVertices(graph, p, range) :
               /\ PathFree(graph.vertex[v].place, p, FALSE)
               /\ graph' = NewLinked(graph, [Vertex(p) EXCEPT !.type = "kFrontier"], v)
    /\ Fits(graph')
    /\ queries < MaxQueries /\ queries' = queries + 1
    /\ UNCHANGED <<moves, robotVars, roundVars, mapVars>>

\* searchHomingPath, which every homing query and every check whether it is
\* time to return runs: the robot's position is a new vertex each time.
TieRobot(g) ==
    LET linked(tie) ==
            IF IsNear(g, robot, AnchorLimit)
            THEN [tie EXCEPT !.graph = ExpandGraphEdges(tie.graph, tie.id)] ELSE tie
    IN  linked(Tie(g, robot, AnchorLimit, FALSE))
HomingPath(tie) ==
    LET home(path) == IF path = <<>> \/ Head(path) # 0 THEN <<>> ELSE path IN
    IF tie.id = -1 THEN <<>> ELSE home(ShortestPath(ShortestPaths(tie.graph, 0), tie.id))

\* The path is refined and spread into poses; the graph keeps the tie.
SearchHomingPath ==
    /\ Cardinality(Ids(graph)) > 1
    /\ queries < MaxQueries /\ queries' = queries + 1
    /\ \E tie \in {TieRobot(graph)} :
           /\ tie.id # -1
           /\ graph' = tie.graph
    /\ Fits(graph')
    /\ UNCHANGED <<moves, robotVars, roundVars, mapVars>>

\* getGlobalPath to a waypoint with a vertex nearby.  When the robot's
\* position cannot be tied the code prints the id of a null vertex: the node
\* ends, and so does the behaviour.
GlobalPath(waypoint) ==
    /\ Cardinality(Ids(graph)) > 1
    /\ InRange(graph, waypoint, WaypointRange)
    /\ queries < MaxQueries /\ queries' = queries + 1
    /\ \E tie \in {TieRobot(graph)} :
           /\ tie.id # -1
           /\ graph' = tie.graph
    /\ Fits(graph')
    /\ UNCHANGED <<moves, robotVars, roundVars, mapVars>>

\* addGeofenceAreas: vertices in exclusion zones lose their edges, where they
\* are sought.  The centre of the search is summed from an uninitialised
\* vector: the ball around it holds the zone, and it may hold everything, or
\* nothing when the vector is not a number.
AddZone(zone, searched) ==
    /\ zone \cap closed = {}
    /\ closed' = closed \cup zone
    /\ graph' = RemoveEdges(graph, { p \in graph.neighbors :
                                      graph.vertex[p[1]].place \in searched \cap closed' })
    /\ cut' = (cut \/ graph' # graph)
    /\ queries < MaxQueries /\ queries' = queries + 1
    /\ UNCHANGED <<robotVars, roundVars, loaded, moves>>

\* clearExclusionZones: what was cut stays cut.
ClearExclusionZones ==
    /\ closed # {}
    /\ closed' = {}
    /\ UNCHANGED <<robotVars, roundVars, graph, loaded, cut, bounds>>

\* loadGraph replaces the graph and nothing that names its vertices: the
\* track and the target point into freed memory and at other places.  Bound:
\* a behaviour is followed to its first load.
LoadGraph ==
    /\ queries < MaxQueries /\ queries' = queries + 1
    /\ \E msg \in SavedMaps : graph' = MsgToGraph(msg)
    /\ loaded' = TRUE
    /\ UNCHANGED <<robotVars, roundVars, closed, cut, moves>>

MapInit ==
    /\ known = View(Home)
    /\ robot = Home
    /\ queue = <<Home>>
    /\ prev = NoVertex
    /\ lastMark = Home
    /\ history = {}
    /\ triggers = 0
    /\ graph = EmptyGraph
    /\ local = EmptyGraph
    /\ rep = NoReport
    /\ pending = FALSE
    /\ closed = {}
    /\ loaded = FALSE
    /\ cut = FALSE
    /\ moves = 0 /\ queries = 0

\* Every handler of the map but the planners.
Upkeep ==
    \/ \E p \in Free : SetState(p)
    \/ OdometryTimer
    \/ SetHomingPos
    \/ FrontierTimer
    \/ \E p \in Places : TopologicalTimer(p)
    \/ \E p \in SemanticPlaces : Semantics(p)
    \/ SearchHomingPath
    \/ \E p \in SemanticPlaces : GlobalPath(p)
    \/ \E zone \in Zones : \E searched \in { {}, zone, Places } : AddZone(zone, searched)
    \/ ClearExclusionZones
    \/ LoadGraph

-----------------------------------------------------------------------------
\* The ids of both graphs are dense: scans and shortest paths index by them.
IdsAreDense == DenseIds(graph) /\ DenseIds(local)

\* The three records of the edges agree, whatever was added, cut or loaded.
EdgesAgree == EdgeRecordsAgree(local) /\ EdgeRecordsAgree(graph)

\* There is a way home from every vertex, and from where the robot is when
\* its position can be tied to the map, until a zone cuts the map.
HomeIsReachable ==
    \/ cut \/ loaded
    \/ /\ AllReachable(graph)
       /\ Cardinality(Ids(graph)) > 1 =>
              \A tie \in {TieRobot(graph)} :
                  tie.id # -1 => HomingPath(tie) # <<>>

\* Frontiers still to be added belong to the local graph that is kept, and
\* its report still leads to each of them over its edges.
PendingFrontiersAreReachable ==
    pending => \A v \in Ids(local) :
        LET path == ShortestPath(rep, v) IN
        /\ path # <<>> /\ Head(path) = 0 /\ Last(path) = v
        /\ \A i \in 1..(Len(path) - 1) : {path[i], path[i + 1]} \in local.edges

\* No vertex stands in an obstacle, also where a path was drawn short, an
\* edge filled or a marker tied.
VerticesAreFree == \A v \in Ids(graph) : graph.vertex[v].place \in Free

\* Whatever the map has become, saving it and loading it gives a graph that
\* can be grown, searched and cut as before, with the places in their ids.
SavedMapIsSound ==
    LET g == MsgToGraph(GraphToMsg(graph)) IN
    /\ DenseIds(g) /\ EdgeRecordsAgree(g)
    /\ g.edges = graph.edges
    /\ \A v \in Ids(graph) : g.vertex[v].place = graph.vertex[v].place

\* A place once visited is no goal of exploration again.
VisitedStaysVisited ==
    [][ ~loaded' => \A v \in Ids(graph) \cap Ids(graph') :
            graph.vertex[v].type = "kVisited" => graph'.vertex[v].type # "kFrontier" ]_vars

\* The graph is a map of places as PlaceMap promises it.
Promised == INSTANCE PlaceMap WITH
    Place <- Places, restored <- loaded, barred <- closed, link <- graph.edges,
    place <- [v \in Ids(graph) |-> graph.vertex[v].place]
KeepsPromise == Promised!Spec

=============================================================================
