--------------------------- MODULE CognitiveGraph ---------------------------
(***************************************************************************)
(* CognitiveGraph and Graph, the graph that both the local exploration and *)
(* the cognitive map are kept in, as a value: the vertices under their     *)
(* ids, the id counter, and the edges three times, as the code keeps them  *)
(* (the boost graph, edge_map_ and the neighbors of each vertex).          *)
(*                                                                         *)
(* Positions are Places with a distance; the weight of an edge is the      *)
(* distance of its ends.  The kd-tree is the set of the vertices.          *)
(***************************************************************************)
EXTENDS Integers, Sequences, FiniteSets, SequencesExt, FiniteSetsExt

CONSTANTS
    Places,          \* positions of the robot and of vertices
    Dist(_, _)       \* distance of two of them

Types == {"kUnvisited", "kVisited", "kFrontier", "kDeadZone"}

\* numeric_limits<double>::max(), the distance of a vertex without a path.
Inf == 1000

\* Vertex(id, state), with the defaults of the fields.
Vertex(place) ==
    [place |-> place, type |-> "kUnvisited", frontier |-> FALSE, gain |-> 0]

\* CognitiveGraph::reset.
EmptyGraph ==
    [vertex |-> [id \in {} |-> <<>>], idCount |-> -1,
     edges |-> {}, edgeMap |-> {}, neighbors |-> {}]

Ids(g) == DOMAIN g.vertex

\* Fault: the counter is not advanced.
ReuseVertexID(g) == IF g.idCount = -1 THEN 0 ELSE g.idCount

GenerateVertexID(g) == g.idCount + 1

\* addVertex of a vertex made with generateVertexID().
AddVertex(g, v) ==
    LET id == GenerateVertexID(g) IN
    [g EXCEPT !.idCount = id,
              !.vertex = [u \in DOMAIN @ \cup {id} |-> IF u = id THEN v ELSE @[u]]]

\* Fault: the neighbours of the new end only.
AddEdgesOneSided(g, pairs) ==
    LET back == { <<p[2], p[1]>> : p \in pairs } IN
    [g EXCEPT !.edges = @ \cup { {p[1], p[2]} : p \in pairs },
              !.edgeMap = @ \cup pairs \cup back,
              !.neighbors = @ \cup pairs]

\* addEdge for each pair: each of the three records adds what it lacks.
AddEdges(g, pairs) ==
    LET back == { <<p[2], p[1]>> : p \in pairs } IN
    [g EXCEPT !.edges = @ \cup { {p[1], p[2]} : p \in pairs },
              !.edgeMap = @ \cup pairs \cup back,
              !.neighbors = @ \cup pairs \cup back]
AddEdge(g, v, u) == AddEdges(g, {<<v, u>>})

\* Fault: edge_map_ and neighbors lose the edge at the zone's vertex only.
RemoveEdgesOneSided(g, pairs) ==
    [g EXCEPT !.edges = @ \ { {p[1], p[2]} : p \in pairs },
              !.edgeMap = @ \ pairs,
              !.neighbors = @ \ pairs]

\* removeEdge for each pair, from each of the three records.
RemoveEdges(g, pairs) ==
    LET back == { <<p[2], p[1]>> : p \in pairs } IN
    [g EXCEPT !.edges = @ \ { {p[1], p[2]} : p \in pairs },
              !.edgeMap = @ \ (pairs \cup back),
              !.neighbors = @ \ (pairs \cup back)]

SetType(g, ids, type) ==
    [g EXCEPT !.vertex =
        [i \in Ids(g) |-> IF i \in ids THEN [@[i] EXCEPT !.type = type] ELSE @[i]]]

-----------------------------------------------------------------------------
(* Queries.                                                                *)

VertexDist(g, v, u) == Dist(g.vertex[v].place, g.vertex[u].place)

\* getNearestVertices: the vertex itself is one of them.
NearestVertices(g, place, range) ==
    { v \in Ids(g) : Dist(g.vertex[v].place, place) <= range }

\* getNearestVertex, of a graph that has one; any of those that tie.
IsNearestVertex(g, place, v) ==
    /\ v \in Ids(g)
    /\ \A u \in Ids(g) :
           Dist(g.vertex[v].place, place) <= Dist(g.vertex[u].place, place)
NearestVertex(g, place) ==
    CHOOSE v \in Ids(g) :
        \A u \in Ids(g) :
            LET dv == Dist(g.vertex[v].place, place)
                du == Dist(g.vertex[u].place, place)
            IN  dv < du \/ (dv = du /\ v <= u)

\* getNearestVertexInRange, its result.  Whatever the result, it hands out the
\* nearest vertex; only the track of the odometry timer takes it unasked.
InRange(g, place, range) == NearestVertices(g, place, range) # {}

\* updateVertexTypeInRange: whatever their type was.
UpdateVertexTypeInRange(g, place, range) ==
    SetType(g, NearestVertices(g, place, range), "kVisited")

Neighbors(g, v) == { u \in Ids(g) : <<v, u>> \in g.neighbors }

-----------------------------------------------------------------------------
(* Shortest paths.                                                         *)

\* A report that reset() has cleared, or of a graph the search refuses.
NoReport == [status |-> FALSE, source |-> 0, distance |-> <<>>, parent |-> <<>>]

\* The ends, lengths and numbers of edges of the walks from the source along
\* the edges of the boost graph, of as many edges as a shortest path may have.
Walks(g, source) ==
    LET from(w) == {w} \cup
            { <<u, w[2] + VertexDist(g, w[1], u), w[3] + 1>> :
                u \in { x \in Ids(g) : {x, w[1]} \in g.edges } }
        walks[n \in Nat] ==
            IF n = 0 THEN { <<source, 0, 0>> } ELSE UNION { from(w) : w \in walks[n - 1] }
    IN  walks[Cardinality(Ids(g)) - 1]
Shortest(walks, v) == Min({ w[2] : w \in { x \in walks : x[1] = v } } \cup {Inf})

\* Over how many edges a vertex is reached first at a distance.
Hops(walks, v, length) == Min({ w[3] : w \in { x \in walks : x[1] = v /\ x[2] = length } })

\* A vertex is relaxed from one that was reached before it, over an edge of no
\* length too.
Parent(g, source, walks, dist, v) ==
    LET hops(u) == Hops(walks, u, dist[u])
        before == { u \in Ids(g) \ {v} :
                      /\ {u, v} \in g.edges /\ v # source /\ dist[v] < Inf
                      /\ dist[u] + VertexDist(g, u, v) = dist[v]
                      /\ VertexDist(g, u, v) > 0 \/ hops(u) < hops(v) }
    IN  IF before = {} THEN v
        ELSE CHOOSE u \in before :
                 \A w \in before : dist[u] < dist[w] \/ (dist[u] = dist[w] /\ u <= w)

\* findDijkstraShortestPaths.  A vertex without a path is its own parent, at
\* a distance that is the largest double and not an infinity.
ShortestPaths(g, source) ==
    LET distances(walks) == [v \in Ids(g) |-> Shortest(walks, v)]
        parents(walks, dist) == [v \in Ids(g) |-> Parent(g, source, walks, dist, v)]
        report(walks, dist) == [status |-> TRUE, source |-> source, distance |-> dist,
                                parent |-> parents(walks, dist)]
    IN  IF source \notin Ids(g) \/ Cardinality(Ids(g)) < 2
        THEN [NoReport EXCEPT !.source = source]
        ELSE CHOOSE rep \in
                { report(walks, distances(walks)) : walks \in {Walks(g, source)} } : TRUE

\* getShortestDistance.
ShortestDistance(rep, v) ==
    IF rep.status /\ v \in DOMAIN rep.distance THEN rep.distance[v] ELSE Inf

\* getParentIDFromShortestPath.
ParentID(rep, v) ==
    IF rep.status /\ v \in DOMAIN rep.parent THEN rep.parent[v] ELSE v

\* getShortestPath in source-to-target order; empty for an invalid report, a
\* vertex the report does not know and a vertex without a path.
ShortestPath(rep, target) ==
    LET path[n \in Nat] ==
            [v \in DOMAIN rep.parent |->
                IF v = rep.source \/ n = 0 THEN <<v>>
                ELSE Append(path[n - 1][rep.parent[v]], v)]
    IN  IF \/ ~rep.status
           \/ target \notin DOMAIN rep.parent
           \/ target # rep.source /\ rep.parent[target] = target
        THEN <<>>
        ELSE path[Cardinality(DOMAIN rep.parent)][target]

\* findLeafVertices and getLeafVertices: the vertices that are nobody's
\* parent, themselves included.
LeafVertices(g, rep) == Ids(g) \ { ParentID(rep, v) : v \in Ids(g) }

-----------------------------------------------------------------------------
(* saveGraph and loadGraph.                                                *)

\* Fault: an edge with an end numbered 0 is taken for one that is not set.
GraphToMsgSkipZero(g) ==
    [vertices |-> { [id |-> v, place |-> g.vertex[v].place,
                     frontier |-> g.vertex[v].frontier] : v \in Ids(g) },
     edges |-> { e \in g.edges : 0 \notin e }]

\* convertGraphToMsg: the type is not in the message, is_frontier is.
GraphToMsg(g) ==
    [vertices |-> { [id |-> v, place |-> g.vertex[v].place,
                     frontier |-> g.vertex[v].frontier] : v \in Ids(g) },
     edges |-> g.edges]

\* Fault: ids are taken from the message and the counter stays.
MsgToGraphKeepCount(msg) ==
    [vertex |-> [id \in { v.id : v \in msg.vertices } |->
                    LET v == CHOOSE w \in msg.vertices : w.id = id IN
                    [Vertex(v.place) EXCEPT
                        !.frontier = v.frontier,
                        !.type = IF v.frontier THEN "kFrontier" ELSE "kUnvisited"]],
     idCount |-> -1,
     edges |-> msg.edges,
     edgeMap |-> { e \in (UNION msg.edges) \X (UNION msg.edges) : {e[1], e[2]} \in msg.edges },
     neighbors |-> { e \in (UNION msg.edges) \X (UNION msg.edges) : {e[1], e[2]} \in msg.edges }]

\* convertMsgToGraph after reset(): one id is drawn for each vertex.
MsgToGraph(msg) ==
    LET pairs == { e \in (UNION msg.edges) \X (UNION msg.edges) : {e[1], e[2]} \in msg.edges }
        vertex == [id \in { v.id : v \in msg.vertices } |->
                      LET v == CHOOSE w \in msg.vertices : w.id = id IN
                      [Vertex(v.place) EXCEPT
                          !.frontier = v.frontier,
                          !.type = IF v.frontier THEN "kFrontier" ELSE "kUnvisited"]]
    IN  AddEdges([EmptyGraph EXCEPT !.vertex = vertex,
                                    !.idCount = Cardinality(msg.vertices) - 1], pairs)

-----------------------------------------------------------------------------
(* What every graph the planner keeps must satisfy.                        *)

\* Scans and shortest paths run over the ids 0 to size - 1 and index arrays
\* of that size by id: an id skipped, reused or left behind breaks them.
DenseIds(g) == Ids(g) = 0..g.idCount

\* The three records of the edges agree, in both directions: paths are found
\* in one, drawn from another and cut along the third.
EdgeRecordsAgree(g) ==
    /\ g.edges = { {p[1], p[2]} : p \in g.neighbors }
    /\ g.edgeMap = g.neighbors
    /\ \A p \in g.neighbors :
           /\ <<p[2], p[1]>> \in g.neighbors
           /\ p[1] \in Ids(g) /\ p[2] \in Ids(g)

\* Every vertex can be reached from vertex 0.
AllReachable(g) ==
    Cardinality(Ids(g)) >= 2 =>
        Ids(g) = { w[1] : w \in Walks(g, 0) }

=============================================================================
