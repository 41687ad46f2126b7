-------------------------- MODULE CognitiveMap_proofs --------------------------
(***************************************************************************)
(* The operators of the cognitive map, for every space and every bound.    *)
(* Whatever a handler builds from a sound graph is a sound graph again,    *)
(* with dense ids and the records of the edges in step, and it has grown:  *)
(* no vertex is lost, moved or made unvisited, and no edge is lost.        *)
(***************************************************************************)
EXTENDS CognitiveMap, CognitiveGraph_proofs, FoldLemmas

-----------------------------------------------------------------------------
(* Sound graphs.                                                           *)

\* What a vertex may be.
Vertices == [place : Places, type : Types, frontier : BOOLEAN, gain : Nat]

\* A graph with dense ids, the vertices under them, and records in step.
Sound(g) ==
    /\ IsGraph(g) /\ InStep(g) /\ DenseIds(g)
    /\ g.idCount \in Int /\ g.idCount >= -1
    /\ g.vertex \in [Ids(g) -> Vertices]

\* The graphs that are sound, as a set: the folds of growing graphs stay in it.
Graphs ==
    { g \in [vertex : UNION { [0..n -> Vertices] : n \in Int }, idCount : Int,
             edges : SUBSET SUBSET Nat, edgeMap : SUBSET (Nat \X Nat),
             neighbors : SUBSET (Nat \X Nat)] : Sound(g) }

\* The second graph has grown from the first.
Grows(g, h) ==
    /\ Ids(g) \subseteq Ids(h) /\ g.edges \subseteq h.edges
    /\ \A v \in Ids(g) :
           /\ h.vertex[v].place = g.vertex[v].place
           /\ g.vertex[v].type = "kVisited" => h.vertex[v].type = "kVisited"

\* A graph in one piece: what the root's edges lead to is all of it.
Linked(g) ==
    \A S \in SUBSET Ids(g) :
        0 \in S /\ (\A v \in S, u \in Ids(g) : {u, v} \in g.edges => u \in S) => S = Ids(g)

\* The graphs that have grown from one, in one piece when it is.
Grown(g) == { h \in Graphs : Grows(g, h) /\ (Linked(g) => Linked(h)) }

\* The records of a sound graph have the types that make it one of a set.
LEMMA GraphsAreSound == \A g : g \in Graphs <=> Sound(g)
  <1> SUFFICES ASSUME NEW g, Sound(g)
               PROVE  g \in [vertex : UNION { [0..n -> Vertices] : n \in Int }, idCount : Int,
                             edges : SUBSET SUBSET Nat, edgeMap : SUBSET (Nat \X Nat),
                             neighbors : SUBSET (Nat \X Nat)]
    BY DEF Graphs
  <1>1. Ids(g) = 0..g.idCount /\ Ids(g) \subseteq Nat
    BY DEF Sound, DenseIds
  <1>2. g.vertex \in UNION { [0..n -> Vertices] : n \in Int }
    <2>1. g.vertex \in [0..g.idCount -> Vertices] /\ g.idCount \in Int
      BY <1>1 DEF Sound
    <2> HIDE DEF Vertices
    <2> QED
      BY <2>1
  <1>3. g.neighbors \subseteq Nat \X Nat /\ g.edgeMap = g.neighbors
    BY <1>1 DEF Sound, InStep, EdgeRecordsAgree
  <1>4. g.edges \subseteq SUBSET Nat
    <2>1. g.edges = { {p[1], p[2]} : p \in g.neighbors }
      BY DEF Sound, InStep, EdgeRecordsAgree
    <2>2. \A p \in g.neighbors : p[1] \in Nat /\ p[2] \in Nat
      BY <1>3
    <2> QED
      BY <2>1, <2>2
  <1>5. g = [vertex |-> g.vertex, idCount |-> g.idCount, edges |-> g.edges,
             edgeMap |-> g.edgeMap, neighbors |-> g.neighbors]
    BY DEF Sound, IsGraph
  <1>6. g.idCount \in Int
    BY DEF Sound
  <1> QED
    BY <1>2, <1>3, <1>4, <1>5, <1>6

\* Growth adds up.
LEMMA GrowthIsTransitive ==
    ASSUME NEW g, NEW h \in Grown(g), NEW k \in Grown(h)
    PROVE  k \in Grown(g)
  BY DEF Grown, Grows

\* A graph that is left alone has grown by nothing.
LEMMA GrowthIsReflexive == \A g \in Graphs : g \in Grown(g)
  BY DEF Grown, Grows

\* What is known of a sound graph.
LEMMA SoundGraph ==
    ASSUME NEW g \in Graphs
    PROVE  /\ IsGraph(g) /\ InStep(g) /\ DenseIds(g) /\ g.idCount \in Int /\ g.idCount >= -1
           /\ Ids(g) = 0..g.idCount /\ Ids(g) \subseteq Nat /\ IsFiniteSet(Ids(g))
           /\ Cardinality(Ids(g)) = g.idCount + 1
           /\ DOMAIN g.vertex = Ids(g)
           /\ \A v \in Ids(g) : g.vertex[v] \in Vertices /\ g.vertex[v].place \in Places
  <1>1. Sound(g)
    BY GraphsAreSound
  <1>2. \A v \in Ids(g) : g.vertex[v] \in Vertices
    <2> HIDE DEF Vertices
    <2> QED
      BY <1>1 DEF Sound
  <1>3. IsFiniteSet(0..g.idCount) /\ Cardinality(0..g.idCount) = g.idCount + 1
    BY <1>1, DenseCount DEF Sound
  <1>4. Ids(g) = 0..g.idCount
    BY <1>1 DEF Sound, DenseIds
  <1> QED
    BY <1>1, <1>2, <1>3, <1>4 DEF Sound, Vertices, Ids

\* A vertex just made, and one evaluated.
LEMMA NewVertex ==
    ASSUME NEW p \in Places
    PROVE  /\ Vertex(p) \in Vertices /\ Vertex(p).place = p
           /\ \A type \in Types : [Vertex(p) EXCEPT !.type = type] \in Vertices
  BY DEF Vertex, Vertices, Types

\* What is seen of the unknown is counted in cells.
LEMMA GainIsNatural == \A p \in Places : Gain(p) \in Nat
  <1> SUFFICES ASSUME NEW p \in Places
               PROVE  Gain(p) \in Nat
    OBVIOUS
  <1>1. View(p) \ known \in SUBSET Places
    BY DEF View
  <1>2. IsFiniteSet(View(p) \ known)
    BY <1>1, SpaceAssumption, FS_Subset
  <1> QED
    BY <1>2, FS_CardinalityType DEF Gain

\* A vertex that is evaluated, and perhaps labelled, is where it was.
LEMMA EvaluatedVertex ==
    ASSUME NEW v \in Vertices
    PROVE  /\ Evaluated(v) \in Vertices
           /\ Evaluated(v).place = v.place /\ Evaluated(v).type = v.type
           /\ \A type \in Types : /\ [Evaluated(v) EXCEPT !.type = type] \in Vertices
                                  /\ [Evaluated(v) EXCEPT !.type = type].place = v.place
                                  /\ [Evaluated(v) EXCEPT !.type = type].type = type
  <1> DEFINE gain == Gain(v.place)
             shows == Gain(v.place) > 0
             e == Evaluated(v)
  <1>1. gain \in Nat /\ shows \in BOOLEAN
    BY GainIsNatural DEF Vertices
  <1>2. e = [v EXCEPT !.gain = gain, !.frontier = shows]
    BY DEF Evaluated
  <1> HIDE DEF gain, shows, e
  <1>3. v = [place |-> v.place, type |-> v.type, frontier |-> v.frontier, gain |-> v.gain]
        /\ v.place \in Places /\ v.type \in Types
    BY DEF Vertices
  <1>4. e = [place |-> v.place, type |-> v.type, frontier |-> shows, gain |-> gain]
    BY <1>2, <1>3
  <1>5. e \in Vertices /\ e.place = v.place /\ e.type = v.type
    BY <1>1, <1>3, <1>4 DEF Vertices
  <1>6. ASSUME NEW type \in Types
        PROVE  /\ [e EXCEPT !.type = type] \in Vertices
               /\ [e EXCEPT !.type = type].place = v.place
               /\ [e EXCEPT !.type = type].type = type
    <2>1. [e EXCEPT !.type = type]
              = [place |-> v.place, type |-> type, frontier |-> shows, gain |-> gain]
      BY <1>4
    <2> QED
      BY <1>1, <1>3, <2>1 DEF Vertices
  <1> QED
    BY <1>5, <1>6 DEF e

-----------------------------------------------------------------------------
(* Growing a graph, one vertex, one set of edges, one vertex with its edge. *)

\* The graph of a reset planner.
LEMMA EmptyIsSound == EmptyGraph \in Graphs /\ Ids(EmptyGraph) = {} /\ EmptyGraph.idCount = -1
  <1>1. /\ IsGraph(EmptyGraph) /\ Ids(EmptyGraph) = {} /\ EmptyGraph.idCount = -1
        /\ EmptyGraph.edges = {} /\ EmptyGraph.edgeMap = {} /\ EmptyGraph.neighbors = {}
        /\ EmptyGraph.vertex = [id \in {} |-> <<>>]
    BY DEF EmptyGraph, IsGraph, Ids
  <1>2. InStep(EmptyGraph) /\ DenseIds(EmptyGraph)
    BY <1>1 DEF InStep, EdgeRecordsAgree, DenseIds
  <1>3. EmptyGraph.vertex \in [{} -> Vertices]
    <2> HIDE DEF Vertices
    <2> QED
      BY <1>1
  <1>4. EmptyGraph.idCount \in Int /\ EmptyGraph.idCount >= -1
    BY <1>1
  <1>5. EmptyGraph.vertex \in [Ids(EmptyGraph) -> Vertices]
    BY <1>1, <1>3
  <1>6. Sound(EmptyGraph)
    BY <1>1, <1>2, <1>4, <1>5 DEF Sound
  <1> QED
    BY <1>1, <1>6, GraphsAreSound

\* addVertex.
LEMMA VertexGrows ==
    ASSUME NEW g \in Graphs, NEW v \in Vertices
    PROVE  LET h == AddVertex(g, v)
               id == GenerateVertexID(g)
           IN  /\ h \in Graphs /\ Grows(g, h)
               /\ id \in Nat /\ id \notin Ids(g) /\ Ids(h) = Ids(g) \cup {id}
               /\ h.idCount = id /\ h.vertex[id] = v
               /\ h.edges = g.edges
  <1> DEFINE h == AddVertex(g, v)
             id == GenerateVertexID(g)
  <1>0. Sound(g) /\ id = g.idCount + 1
    BY GraphsAreSound DEF GenerateVertexID
  <1>1. /\ IsGraph(h) /\ DenseIds(h)
        /\ h.idCount = g.idCount + 1
        /\ Ids(h) = Ids(g) \cup {h.idCount}
        /\ h.vertex[h.idCount] = v
        /\ \A u \in Ids(g) : h.vertex[u] = g.vertex[u]
        /\ h.edges = g.edges
    <2> HIDE DEF h
    <2> QED
      BY <1>0, AddVertexAdds DEF Sound, h
  <1>2. InStep(h)
    BY <1>0, AddVertexInStep DEF Sound
  <1>3. h.vertex = [u \in Ids(g) \cup {id} |-> IF u = id THEN v ELSE g.vertex[u]]
    BY <1>0 DEF AddVertex, Sound, IsGraph, Ids, GenerateVertexID
  <1>4. \A u \in Ids(g) : g.vertex[u] \in Vertices
    BY SoundGraph
  <1>5. g.idCount \in Int /\ g.idCount >= -1 /\ Ids(g) = 0..g.idCount
    BY SoundGraph
  <1> HIDE DEF h, id
  <1>6. h.vertex \in [Ids(h) -> Vertices]
    <2>1. Ids(h) = Ids(g) \cup {id}
      BY <1>0, <1>1
    <2> HIDE DEF Vertices
    <2> QED
      BY <1>3, <1>4, <2>1
  <1>7. Sound(h)
    BY <1>1, <1>2, <1>5, <1>6 DEF Sound
  <1>8. h \in Graphs
    BY <1>7, GraphsAreSound
  <1>9. Grows(g, h)
    BY <1>1 DEF Grows
  <1>10. id \in Nat /\ id \notin Ids(g)
    BY <1>0, <1>5
  <1> QED
    BY <1>0, <1>1, <1>8, <1>9, <1>10 DEF h, id

\* A graph of one vertex is in one piece.
LEMMA RootGrows ==
    ASSUME NEW g \in Graphs, Ids(g) = {}, NEW v \in Vertices
    PROVE  AddVertex(g, v) \in Grown(g) /\ Linked(AddVertex(g, v))
           /\ AddVertex(g, v).idCount = 0
  <1> DEFINE h == AddVertex(g, v)
             id == GenerateVertexID(g)
  <1>1. /\ h \in Graphs /\ Grows(g, h) /\ Ids(h) = Ids(g) \cup {id} /\ h.idCount = id
    BY VertexGrows
  <1>2. id = 0
    <2>1. Ids(g) = 0..g.idCount /\ g.idCount \in Int /\ g.idCount >= -1
      BY SoundGraph
    <2>2. g.idCount >= 0 => 0 \in 0..g.idCount
      BY <2>1
    <2>3. id = g.idCount + 1
      BY DEF GenerateVertexID
    <2> QED
      BY <2>1, <2>2, <2>3
  <1> HIDE DEF h, id
  <1>3. Linked(h)
    BY <1>1, <1>2 DEF Linked
  <1> QED
    BY <1>1, <1>2, <1>3 DEF Grown, h

\* A graph with more edges between the same vertices stays in one piece.
LEMMA MoreEdgesLink ==
    ASSUME NEW g, NEW h, Ids(h) = Ids(g), g.edges \subseteq h.edges, Linked(g)
    PROVE  Linked(h)
  BY DEF Linked

\* addEdge for each pair of vertices.
LEMMA EdgesGrow ==
    ASSUME NEW g \in Graphs, NEW pairs, pairs \subseteq Ids(g) \X Ids(g)
    PROVE  LET h == AddEdges(g, pairs) IN
           /\ h \in Grown(g) /\ Ids(h) = Ids(g) /\ h.vertex = g.vertex /\ h.idCount = g.idCount
           /\ h.edges = g.edges \cup { {p[1], p[2]} : p \in pairs }
  <1> DEFINE h == AddEdges(g, pairs)
  <1>0. Sound(g)
    BY GraphsAreSound
  <1>1. /\ IsGraph(h) /\ h.vertex = g.vertex /\ h.idCount = g.idCount
        /\ h.edges = g.edges \cup { {p[1], p[2]} : p \in pairs }
    <2> HIDE DEF h
    <2> QED
      BY <1>0, AddEdgesAdds DEF Sound, h
  <1>2. InStep(h)
    BY <1>0, AddEdgesInStep DEF Sound
  <1> HIDE DEF h
  <1>3. Ids(h) = Ids(g)
    BY <1>1 DEF Ids
  <1>4. Sound(h)
    BY <1>0, <1>1, <1>2, <1>3 DEF Sound, DenseIds
  <1>5. h \in Graphs
    BY <1>4, GraphsAreSound
  <1>6. g.edges \subseteq h.edges
    BY <1>1
  <1>7. h \in Grown(g)
    BY <1>1, <1>3, <1>5, <1>6, MoreEdgesLink DEF Grown, Grows
  <1> QED
    BY <1>1, <1>3, <1>7 DEF h

\* One edge.
LEMMA EdgeGrows ==
    ASSUME NEW g \in Graphs, NEW v \in Ids(g), NEW u \in Ids(g)
    PROVE  AddEdge(g, v, u) \in Grown(g) /\ Ids(AddEdge(g, v, u)) = Ids(g)
  <1>1. {<<v, u>>} \subseteq Ids(g) \X Ids(g)
    OBVIOUS
  <1> QED
    BY <1>1, EdgesGrow DEF AddEdge

\* A new vertex with its edge.
LEMMA LinkedGrows ==
    ASSUME NEW g \in Graphs, NEW v \in Vertices, NEW to \in Ids(g)
    PROVE  LET h == NewLinked(g, v, to)
               id == GenerateVertexID(g)
           IN  /\ h \in Grown(g) /\ Ids(h) = Ids(g) \cup {id} /\ id \in Ids(h)
               /\ h.vertex[id] = v /\ {id, to} \in h.edges /\ h.idCount = id
  <1> DEFINE k == AddVertex(g, v)
             id == GenerateVertexID(g)
             h == AddEdge(k, id, to)
  <1>1. /\ k \in Graphs /\ Grows(g, k) /\ Ids(k) = Ids(g) \cup {id} /\ k.vertex[id] = v
        /\ k.edges = g.edges /\ k.idCount = id
    BY VertexGrows
  <1>2. id \in Ids(k) /\ to \in Ids(k)
    BY <1>1
  <1> HIDE DEF k, id
  <1> DEFINE pairs == {<<id, to>>}
  <1>3. pairs \subseteq Ids(k) \X Ids(k)
    BY <1>2
  <1>4. h \in Grown(k) /\ Ids(h) = Ids(k) /\ h.vertex = k.vertex /\ h.idCount = k.idCount
        /\ h.edges = k.edges \cup { {p[1], p[2]} : p \in pairs }
    BY <1>1, <1>3, EdgesGrow DEF AddEdge
  <1>5. NewLinked(g, v, to) = h
    BY DEF NewLinked, k, id
  <1>6. {id, to} \in { {p[1], p[2]} : p \in pairs }
    OBVIOUS
  <1> HIDE DEF h, pairs
  <1>7. {id, to} \in h.edges /\ g.edges \subseteq h.edges
    BY <1>1, <1>4, <1>6
  <1>8. Grows(g, h) /\ h \in Graphs
    BY <1>1, <1>4 DEF Grown, Grows
  <1>9. ASSUME Linked(g), NEW S \in SUBSET Ids(h), 0 \in S,
               \A x \in S, u \in Ids(h) : {u, x} \in h.edges => u \in S
        PROVE  S = Ids(h)
    <2> DEFINE T == S \cap Ids(g)
    <2>1. 0 \in Ids(g)
      <3>1. Ids(g) = 0..g.idCount /\ g.idCount \in Int
        BY SoundGraph
      <3> QED
        BY <3>1
    <2>2. \A x \in T, u \in Ids(g) : {u, x} \in g.edges => u \in T
      BY <1>1, <1>4, <1>7, <1>9
    <2>3. T = Ids(g)
      BY <1>9, <2>1, <2>2 DEF Linked
    <2>4. to \in S /\ id \in Ids(h)
      BY <1>2, <1>4, <2>3
    <2>5. id \in S
      BY <1>7, <1>9, <2>4
    <2> QED
      BY <1>1, <1>4, <1>9, <2>3, <2>5
  <1>10. Linked(g) => Linked(h)
    BY <1>9 DEF Linked
  <1>11. h \in Grown(g)
    BY <1>8, <1>10 DEF Grown
  <1> QED
    BY <1>1, <1>2, <1>4, <1>5, <1>7, <1>11 DEF id

\* The vertices of a graph are revised where they are.
LEMMA RevisionGrows ==
    ASSUME NEW g \in Graphs, NEW w \in [Ids(g) -> Vertices],
           \A v \in Ids(g) : w[v].place = g.vertex[v].place,
           NEW h, h = [g EXCEPT !.vertex = w]
    PROVE  /\ h \in Graphs /\ Ids(h) = Ids(g) /\ h.idCount = g.idCount
           /\ h.vertex = w /\ h.edges = g.edges
           /\ (\A v \in Ids(g) : g.vertex[v].type = "kVisited" => w[v].type = "kVisited")
                  => h \in Grown(g)
  <1>0. Sound(g)
    BY GraphsAreSound
  <1>1. h = [vertex |-> w, idCount |-> g.idCount, edges |-> g.edges,
             edgeMap |-> g.edgeMap, neighbors |-> g.neighbors]
    BY <1>0 DEF Sound, IsGraph
  <1>2. DOMAIN w = Ids(g)
    OBVIOUS
  <1>3. /\ IsGraph(h) /\ h.vertex = w /\ h.idCount = g.idCount /\ h.edges = g.edges
        /\ h.edgeMap = g.edgeMap /\ h.neighbors = g.neighbors /\ Ids(h) = Ids(g)
    BY <1>1, <1>2 DEF IsGraph, Ids
  <1>4. InStep(h) /\ DenseIds(h)
    BY <1>0, <1>3 DEF Sound, InStep, EdgeRecordsAgree, DenseIds
  <1>5. Sound(h)
    BY <1>0, <1>3, <1>4 DEF Sound
  <1>6. h \in Graphs
    BY <1>5, GraphsAreSound
  <1> QED
    BY <1>3, <1>6, MoreEdgesLink DEF Grown, Grows

-----------------------------------------------------------------------------
(* What the growing of the map is built from.                              *)

\* The nearest vertex is one of the graph.
LEMMA NearestIsVertex ==
    ASSUME NEW g \in Graphs, Ids(g) # {}, NEW p \in Places
    PROVE  /\ NearestVertex(g, p) \in Ids(g)
           /\ g.vertex[NearestVertex(g, p)].place \in Places
  <1> DEFINE d(v) == Dist(g.vertex[v].place, p)
             S == { d(v) : v \in Ids(g) }
  <1>1. /\ \A v \in Ids(g) : g.vertex[v].place \in Places /\ d(v) \in Nat
        /\ Ids(g) \subseteq Nat
    BY SoundGraph, SpaceAssumption
  <1>2. S \in SUBSET Nat /\ S # {}
    BY <1>1
  <1>3. PICK n \in S : \A m \in S : n <= m
    <2> HIDE DEF S
    <2> QED
      BY <1>2, LeastNatural
  <1> DEFINE N == { v \in Ids(g) : d(v) = n }
  <1>4. N \in SUBSET Nat /\ N # {}
    BY <1>1, <1>3
  <1>5. PICK v \in N : \A u \in N : v <= u
    <2> HIDE DEF N
    <2> QED
      BY <1>4, LeastNatural
  <1>6. v \in Ids(g) /\ \A u \in Ids(g) : d(v) < d(u) \/ (d(v) = d(u) /\ v <= u)
    <2> SUFFICES ASSUME NEW u \in Ids(g)
                 PROVE  v \in Ids(g) /\ (d(v) < d(u) \/ (d(v) = d(u) /\ v <= u))
      BY <1>5
    <2>1. d(v) = n /\ v \in Ids(g) /\ d(u) \in S
      BY <1>5
    <2>2. n <= d(u) /\ d(v) \in Nat /\ d(u) \in Nat
      BY <1>1, <1>3, <2>1
    <2>3. d(u) = n => v <= u
      BY <1>5
    <2> HIDE DEF d
    <2> QED
      BY <2>1, <2>2, <2>3
  <1>7. NearestVertex(g, p)
            = CHOOSE x \in Ids(g) : \A u \in Ids(g) : d(x) < d(u) \/ (d(x) = d(u) /\ x <= u)
    BY DEF NearestVertex
  <1> HIDE DEF d, S, N
  <1>8. NearestVertex(g, p) \in Ids(g)
    BY <1>6, <1>7
  <1> QED
    BY <1>1, <1>8

\* A point of a straight path at a distance from its start.
LEMMA PointOnPath ==
    ASSUME NEW p \in Places, NEW q \in Places, NEW n \in 0..Dist(p, q)
    PROVE  (CHOOSE r \in Between(p, q) : Dist(p, r) = n /\ Dist(r, q) = Dist(p, q) - n) \in Places
  <1>1. \E r \in Between(p, q) : Dist(p, r) = n /\ Dist(r, q) = Dist(p, q) - n
    BY PathAssumption
  <1>2. Between(p, q) \subseteq Places
    BY SpaceAssumption
  <1> QED
    BY <1>1, <1>2

\* A point drawn towards another is a place.
LEMMA TruncatedIsPlace ==
    ASSUME NEW p \in Places, NEW q \in Places
    PROVE  Truncated(p, q) \in Places
  <1>1. Dist(p, q) \in Nat /\ EdgeMax \in Nat
    BY SpaceAssumption
  <1>2. CASE Dist(p, q) <= EdgeMax
    BY <1>2 DEF Truncated
  <1>3. CASE ~(Dist(p, q) <= EdgeMax)
    <2>1. EdgeMax \in 0..Dist(p, q)
      BY <1>1, <1>3
    <2> QED
      BY <1>3, <2>1, PointOnPath DEF Truncated
  <1> QED
    BY <1>2, <1>3

\* The edges that are added lead from a vertex to vertices of the graph.
LEMMA EdgesAreBetweenVertices ==
    ASSUME NEW g \in Graphs, NEW v \in Ids(g), NEW range, NEW max
    PROVE  /\ EdgesInRange(g, v, range, max) \subseteq Ids(g) \X Ids(g)
           /\ ShortcutEdges(g, v, max) \subseteq Ids(g) \X Ids(g)
           /\ LinksInRange(g, v) \subseteq Ids(g) \X Ids(g)
  <1>1. EdgesInRange(g, v, range, max) \subseteq Ids(g) \X Ids(g)
    <2> DEFINE S == { w \in NearestVertices(g, g.vertex[v].place, range) :
                 /\ VertexDist(g, v, w) > EdgeMin /\ VertexDist(g, v, w) < max
                 /\ PathFree(g.vertex[v].place, g.vertex[w].place, FALSE) }
    <2>1. S \subseteq Ids(g)
      BY DEF NearestVertices
    <2>2. EdgesInRange(g, v, range, max) = { <<v, u>> : u \in S }
      BY DEF EdgesInRange
    <2> HIDE DEF S
    <2> QED
      BY <2>1, <2>2
  <1>2. ShortcutEdges(g, v, max) \subseteq Ids(g) \X Ids(g)
    <2> DEFINE S == { w \in NearestVertices(g, g.vertex[v].place, ShortcutRadius) \ {v} :
                 /\ w \notin Neighbors(g, v)
                 /\ VertexDist(g, v, w) > LargerOf(OdomRadius, max)
                 /\ ShortestPaths(g, v).status
                 /\ 20 * ShortestDistance(ShortestPaths(g, v), w) >= 27 * VertexDist(g, v, w)
                 /\ PathFree(g.vertex[v].place, g.vertex[w].place, TRUE) }
    <2>1. S \subseteq Ids(g)
      BY DEF NearestVertices
    <2>2. ShortcutEdges(g, v, max) = { <<v, u>> : u \in S }
      BY DEF ShortcutEdges
    <2> HIDE DEF S
    <2> QED
      BY <2>1, <2>2
  <1>3. LinksInRange(g, v) \subseteq Ids(g) \X Ids(g)
    <2> DEFINE S == { w \in NearestVertices(g, g.vertex[v].place, NearestRange) :
                 /\ VertexDist(g, v, w) > EdgeMin /\ VertexDist(g, v, w) < NearestRange
                 /\ FenceOK(g.vertex[v].place, g.vertex[w].place)
                 /\ PathFree(g.vertex[v].place, g.vertex[w].place, TRUE) }
    <2>1. S \subseteq Ids(g)
      BY DEF NearestVertices
    <2>2. LinksInRange(g, v) = { <<v, u>> : u \in S }
      BY DEF LinksInRange
    <2> HIDE DEF S
    <2> QED
      BY <2>1, <2>2
  <1> QED
    BY <1>1, <1>2, <1>3

\* expandGraphEdges.
LEMMA ExpandedEdgesGrow ==
    ASSUME NEW g \in Graphs, NEW v \in Ids(g)
    PROVE  /\ ExpandGraphEdges(g, v) \in Grown(g) /\ Ids(ExpandGraphEdges(g, v)) = Ids(g)
           /\ MaybeAddShortcutEdges(g, v) \in Grown(g) /\ Ids(MaybeAddShortcutEdges(g, v)) = Ids(g)
           /\ LinkInRange(g, v) \in Grown(g) /\ Ids(LinkInRange(g, v)) = Ids(g)
           /\ LinkInRange(g, v).vertex = g.vertex /\ LinkInRange(g, v).idCount = g.idCount
  BY EdgesAreBetweenVertices, EdgesGrow
     DEF ExpandGraphEdges, MaybeAddShortcutEdges, LinkInRange

\* expandGraph, whether it can or cannot.
LEMMA ExpandedGrows ==
    ASSUME NEW g \in Graphs, NEW p \in Places, NEW type \in Types
    PROVE  LET h == ExpandGraph(g, p, type)
               id == GenerateVertexID(g)
           IN  /\ h \in Grown(g)
               /\ CanExpand(g, p) => /\ Ids(h) = Ids(g) \cup {id} /\ id \notin Ids(g)
                                     /\ h.idCount = id
  <1> DEFINE h == ExpandGraph(g, p, type)
             id == GenerateVertexID(g)
             near == NearestVertex(g, p)
             new == [Vertex(Truncated(g.vertex[near].place, p)) EXCEPT !.type = type]
             k == NewLinked(g, new, near)
  <1>1. CASE ~CanExpand(g, p)
    <2>1. h = g
      BY <1>1 DEF ExpandGraph
    <2>2. h \in Grown(g)
      BY <2>1, GrowthIsReflexive
    <2> HIDE DEF h
    <2> QED
      BY <1>1, <2>2 DEF h
  <1>2. CASE CanExpand(g, p)
    <2>1. Ids(g) # {}
      BY <1>2 DEF CanExpand
    <2>2. near \in Ids(g) /\ g.vertex[near].place \in Places
      BY <2>1, NearestIsVertex
    <2>3. Truncated(g.vertex[near].place, p) \in Places
      <3> HIDE DEF near
      <3> QED
        BY <2>2, TruncatedIsPlace
    <2>4. new \in Vertices
      <3> HIDE DEF near
      <3> QED
        BY <2>3, NewVertex
    <2>5. h = LinkInRange(k, id)
      BY <1>2 DEF ExpandGraph
    <2> HIDE DEF h, near, new
    <2>6. k \in Grown(g) /\ Ids(k) = Ids(g) \cup {id} /\ id \in Ids(k)
      BY <2>2, <2>4, LinkedGrows
    <2> HIDE DEF k
    <2>7. k \in Graphs
      BY <2>6 DEF Grown
    <2>8. h \in Grown(k) /\ Ids(h) = Ids(k)
      BY <2>5, <2>6, <2>7, ExpandedEdgesGrow
    <2>9. h \in Grown(g)
      BY <2>6, <2>8, GrowthIsTransitive
    <2>10. /\ id = g.idCount + 1 /\ g.idCount \in Int /\ g.idCount >= -1
           /\ Ids(g) = 0..g.idCount
      BY SoundGraph DEF GenerateVertexID, id
    <2>11. id \notin Ids(g)
      BY <2>10
    <2>12. h \in Graphs
      BY <2>9 DEF Grown
    <2>13. Ids(h) = 0..h.idCount /\ h.idCount \in Int
      BY <2>12, SoundGraph
    <2>14. h.idCount = id
      <3>1. 0..h.idCount = (0..g.idCount) \cup {g.idCount + 1}
        BY <2>6, <2>8, <2>10, <2>13
      <3>2. g.idCount + 1 \in 0..h.idCount
        BY <3>1
      <3>3. h.idCount \in 0..h.idCount
        BY <2>10, <2>13, <3>2
      <3>4. h.idCount \in (0..g.idCount) \cup {g.idCount + 1}
        BY <3>1, <3>3
      <3> QED
        BY <2>10, <2>13, <3>2, <3>4
    <2> QED
      BY <2>6, <2>8, <2>9, <2>11, <2>14 DEF h
  <1> QED
    BY <1>1, <1>2

-----------------------------------------------------------------------------
(* Tying a state to the map.                                               *)

\* A tie: a graph grown from the one before, and a vertex of it or none.
IsTie(g, tie) ==
    /\ tie = [graph |-> tie.graph, id |-> tie.id]
    /\ tie.graph \in Grown(g)
    /\ tie.id = -1 \/ tie.id \in Ids(tie.graph)

\* Tying a place to a graph, by either way, gives a vertex of what has grown.
LEMMA TieIsTie ==
    ASSUME NEW g \in Graphs, NEW p \in Places, NEW limit, NEW reuse
    PROVE  IsTie(g, Tie(g, p, limit, reuse))
  <1> DEFINE tie == Tie(g, p, limit, reuse)
             near == NearestVertex(g, p)
             id == GenerateVertexID(g)
  <1>0. g \in Grown(g)
    BY GrowthIsReflexive
  <1>1. CASE tie = [graph |-> g, id |-> -1]
    <2> HIDE DEF tie
    <2> QED
      BY <1>0, <1>1 DEF IsTie, tie
  <1>2. CASE Ids(g) # {} /\ tie = [graph |-> g, id |-> near]
    <2>1. near \in Ids(g)
      BY <1>2, NearestIsVertex
    <2> HIDE DEF tie, near
    <2> QED
      BY <1>0, <1>2, <2>1 DEF IsTie, tie
  <1>3. CASE Ids(g) # {} /\ tie = [graph |-> NewLinked(g, Vertex(p), near), id |-> id]
    <2>1. near \in Ids(g)
      BY <1>3, NearestIsVertex
    <2>2. Vertex(p) \in Vertices
      BY NewVertex
    <2> HIDE DEF tie, near, id
    <2>3. NewLinked(g, Vertex(p), near) \in Grown(g) /\ id \in Ids(NewLinked(g, Vertex(p), near))
      BY <2>1, <2>2, LinkedGrows DEF id
    <2> QED
      BY <1>3, <2>3 DEF IsTie, tie
  <1>4. CASE CanExpand(g, p) /\ tie = [graph |-> ExpandGraph(g, p, "kUnvisited"), id |-> id]
    <2>1. "kUnvisited" \in Types
      BY DEF Types
    <2>2. /\ ExpandGraph(g, p, "kUnvisited") \in Grown(g)
          /\ id \in Ids(ExpandGraph(g, p, "kUnvisited"))
      BY <1>4, <2>1, ExpandedGrows
    <2> HIDE DEF tie, id
    <2> QED
      BY <1>4, <2>2 DEF IsTie, tie
  <1> QED
    BY <1>1, <1>2, <1>3, <1>4 DEF Tie

\* Edges and shortcuts of the tied vertex keep the tie one.
LEMMA TieStaysTie ==
    ASSUME NEW g, NEW tie, IsTie(g, tie), tie.id # -1,
           NEW h \in Grown(tie.graph), Ids(h) = Ids(tie.graph)
    PROVE  IsTie(g, [tie EXCEPT !.graph = h])
  <1>1. [tie EXCEPT !.graph = h] = [graph |-> h, id |-> tie.id]
    BY DEF IsTie
  <1>2. h \in Grown(g)
    BY GrowthIsTransitive DEF IsTie
  <1> QED
    BY <1>1, <1>2 DEF IsTie

\* anchorStateInCognitiveMap.
LEMMA AnchorIsTie ==
    ASSUME NEW g \in Graphs, NEW p \in Places
    PROVE  IsTie(g, Anchor(g, p))
  <1> DEFINE tie == Tie(g, p, AnchorLimit, TRUE)
             edges == IF IsNear(g, p, AnchorLimit) THEN ExpandGraphEdges(tie.graph, tie.id)
                      ELSE tie.graph
             h == MaybeAddShortcutEdges(edges, tie.id)
  <1>1. IsTie(g, tie)
    BY TieIsTie
  <1>2. Anchor(g, p) = IF tie.id = -1 THEN tie ELSE [tie EXCEPT !.graph = h]
    BY DEF Anchor
  <1> HIDE DEF tie
  <1>3. CASE tie.id = -1
    BY <1>1, <1>2, <1>3
  <1>4. CASE tie.id # -1
    <2>1. tie.graph \in Graphs /\ tie.id \in Ids(tie.graph)
      BY <1>1, <1>4 DEF IsTie, Grown
    <2>2. edges \in Grown(tie.graph) /\ Ids(edges) = Ids(tie.graph)
      BY <2>1, ExpandedEdgesGrow, GrowthIsReflexive
    <2> HIDE DEF edges
    <2>3. edges \in Graphs
      BY <2>2 DEF Grown
    <2>4. h \in Grown(edges) /\ Ids(h) = Ids(edges)
      BY <2>1, <2>2, <2>3, ExpandedEdgesGrow
    <2> HIDE DEF h
    <2>5. h \in Grown(tie.graph) /\ Ids(h) = Ids(tie.graph)
      BY <2>2, <2>4, GrowthIsTransitive
    <2> QED
      BY <1>1, <1>2, <1>4, <2>5, TieStaysTie
  <1> QED
    BY <1>3, <1>4

\* searchHomingPath, as far as the graph goes.
LEMMA TiedRobotIsTie ==
    ASSUME NEW g \in Graphs, Ids(g) # {}, robot \in Places
    PROVE  IsTie(g, TieRobot(g))
  <1> DEFINE tie == Tie(g, robot, AnchorLimit, FALSE)
             near == NearestVertex(g, robot)
             h == ExpandGraphEdges(tie.graph, tie.id)
             linked == [tie EXCEPT !.graph = h]
  <1>1. IsTie(g, tie)
    BY TieIsTie
  <1>2. TieRobot(g) = IF IsNear(g, robot, AnchorLimit) THEN linked ELSE tie
    BY DEF TieRobot
  <1>3. ASSUME IsNear(g, robot, AnchorLimit)
        PROVE  IsTie(g, linked)
    <2>1. tie = [graph |-> NewLinked(g, Vertex(robot), near), id |-> GenerateVertexID(g)]
      <3> DEFINE dist == Dist(g.vertex[near].place, robot)
                 new == [graph |-> NewLinked(g, Vertex(robot), near), id |-> GenerateVertexID(g)]
      <3>1. dist <= LargerOf(AnchorLimit, EdgeMin)
        BY <1>3 DEF IsNear
      <3>2. tie = IF dist <= LargerOf(AnchorLimit, EdgeMin) THEN new
                  ELSE IF CanExpand(g, robot)
                  THEN [graph |-> ExpandGraph(g, robot, "kUnvisited"), id |-> GenerateVertexID(g)]
                  ELSE [graph |-> g, id |-> -1]
        BY DEF Tie
      <3> HIDE DEF dist, new, tie
      <3>3. tie = new
        BY <3>1, <3>2
      <3> QED
        BY <3>3 DEF new
    <2> HIDE DEF tie, near
    <2>2. tie.id = GenerateVertexID(g)
      BY <2>1
    <2>3. GenerateVertexID(g) # -1
      BY VertexGrows, NewVertex
    <2>4. tie.graph \in Graphs /\ tie.id \in Ids(tie.graph) /\ tie.id # -1
      BY <1>1, <2>2, <2>3 DEF IsTie, Grown
    <2>5. h \in Grown(tie.graph) /\ Ids(h) = Ids(tie.graph)
      BY <2>4, ExpandedEdgesGrow
    <2> HIDE DEF h
    <2> QED
      BY <1>1, <2>4, <2>5, TieStaysTie
  <1> QED
    BY <1>1, <1>2, <1>3

-----------------------------------------------------------------------------
(* Committing a path: chains of new vertices.                              *)

\* The end of a chain that grows from a graph.
Ends(g) == { s \in [graph : Graphs, last : Nat] :
               s.graph \in Grown(g) /\ s.last \in Ids(s.graph) }

\* A chain of one vertex, and a chain with one vertex more.
LEMMA EndsGrow ==
    ASSUME NEW g \in Graphs
    PROVE  /\ \A v \in Ids(g) : [graph |-> g, last |-> v] \in Ends(g)
           /\ \A s \in Ends(g), w \in Vertices :
                  [graph |-> NewLinked(s.graph, w, s.last),
                   last |-> GenerateVertexID(s.graph)] \in Ends(g)
  <1>1. ASSUME NEW v \in Ids(g)
        PROVE  [graph |-> g, last |-> v] \in Ends(g)
    <2>1. g \in Grown(g) /\ v \in Nat
      BY GrowthIsReflexive, SoundGraph
    <2> QED
      BY <2>1 DEF Ends
  <1>2. ASSUME NEW s \in Ends(g), NEW w \in Vertices
        PROVE  [graph |-> NewLinked(s.graph, w, s.last),
                last |-> GenerateVertexID(s.graph)] \in Ends(g)
    <2> DEFINE h == NewLinked(s.graph, w, s.last)
               id == GenerateVertexID(s.graph)
    <2>1. s.graph \in Graphs /\ s.graph \in Grown(g) /\ s.last \in Ids(s.graph)
      BY DEF Ends
    <2>2. h \in Grown(s.graph) /\ id \in Ids(h)
      BY <2>1, LinkedGrows
    <2> HIDE DEF h, id
    <2>3. h \in Grown(g) /\ h \in Graphs
      BY <2>1, <2>2, GrowthIsTransitive DEF Grown
    <2>4. id \in Nat
      BY <2>2, <2>3, SoundGraph
    <2>5. [graph |-> h, last |-> id] \in Ends(g)
      BY <2>2, <2>3, <2>4 DEF Ends
    <2> QED
      BY <2>5 DEF h, id
  <1> QED
    BY <1>1, <1>2

\* The vertices laid on a long edge.
LEMMA InterpolatedGrows ==
    ASSUME NEW g \in Graphs, NEW v \in Ids(g), NEW u \in Ids(g)
    PROVE  Interpolated(g, v, u) \in Grown(g)
  <1> DEFINE from == g.vertex[v].place
             to == g.vertex[u].place
             long == Dist(from, to)
             n == long - 1
             place(j) == CHOOSE p \in Between(from, to) :
                             Dist(from, p) = j /\ Dist(p, to) = long - j
             next(s, j) == [graph |-> NewLinked(s.graph, Vertex(place(j)), s.last),
                            last |-> GenerateVertexID(s.graph)]
             base == [graph |-> g, last |-> v]
             G == Ends(g)
             step == [q \in G \X (1..n) |-> next(q[1], q[2])]
             seq == [j \in 1..n |-> j]
             Folds(f) == f = [x \in SUBSET DOMAIN seq |->
                                IF x = {} THEN base ELSE next(f[x \ {Max(x)}], seq[Max(x)])]
             chain == FoldLeft(next, base, seq)
  <1>1. from \in Places /\ to \in Places /\ long \in Nat
    BY SoundGraph, SpaceAssumption
  <1>2. Interpolated(g, v, u) = IF long <= 1 THEN g ELSE AddEdge(chain.graph, chain.last, u)
    BY DEF Interpolated
  <1>3. CASE long <= 1
    <2> HIDE DEF chain, long
    <2> QED
      BY <1>2, <1>3, GrowthIsReflexive
  <1>4. CASE ~(long <= 1)
    <2>1. n \in Nat /\ DOMAIN seq = 1..n /\ \A j \in 1..n : seq[j] = j
      BY <1>1, <1>4
    <2>2. \A j \in 1..n : place(j) \in Places
      <3> SUFFICES ASSUME NEW j \in 1..n
                   PROVE  place(j) \in Places
        OBVIOUS
      <3>1. j \in 0..long
        BY <1>1
      <3> HIDE DEF from, to
      <3> QED
        BY <1>1, <3>1, PointOnPath
    <2>3. chain = (CHOOSE f : Folds(f))[DOMAIN seq]
      BY DEF FoldLeft, MapThenFoldSet
    <2> HIDE DEF chain, n, place, from, to
    <2>4. base \in G /\ \A s \in G, j \in 1..n : next(s, j) \in G
      BY <2>2, EndsGrow, NewVertex
    <2> HIDE DEF next, base, G, seq
    <2>5. step \in [G \X (1..n) -> G]
      BY <2>4
    <2>6. PICK it \in [SUBSET (1..n) -> G] : IsFold(it, n, base, step)
      <3> HIDE DEF step
      <3> QED
        BY <2>1, <2>4, <2>5, FoldExists
    <2>7. Folds(it)
      <3> SUFFICES ASSUME NEW x \in SUBSET (1..n), x # {}
                   PROVE  step[<<it[x \ {Max(x)}], Max(x)>>]
                              = next(it[x \ {Max(x)}], seq[Max(x)])
        BY <2>1, <2>6 DEF IsFold
      <3>1. Max(x) \in 1..n /\ it[x \ {Max(x)}] \in G
        BY <2>1, MaxUpTo
      <3> QED
        BY <2>1, <3>1
    <2>8. PICK f : Folds(f) /\ chain = f[1..n]
      <3> HIDE DEF Folds
      <3> QED
        BY <2>1, <2>3, <2>7
    <2>9. \A x \in SUBSET (1..n) :
             f[x] = IF x = {} THEN base ELSE next(f[x \ {Max(x)}], seq[Max(x)])
      BY <2>1, <2>8
    <2> HIDE DEF Folds, step
    <2>10. \A m \in 1..n : f[1..(m - 1)] \in G => f[1..m] \in G
      <3> SUFFICES ASSUME NEW m \in 1..n, f[1..(m - 1)] \in G
                   PROVE  f[1..m] \in G
        OBVIOUS
      <3>1. m \in Nat /\ m > 0 /\ 1..m \in SUBSET (1..n)
        BY <2>1
      <3>2. 1..m # {} /\ Max(1..m) = m /\ (1..m) \ {Max(1..m)} = 1..(m - 1)
        BY <3>1, MaxOfFirst
      <3>3. f[1..m] = next(f[1..(m - 1)], seq[m])
        BY <2>9, <3>1, <3>2
      <3> QED
        BY <2>1, <2>4, <3>3
    <2>11. f[{}] \in G
      BY <2>4, <2>9
    <2>12. chain \in G
      BY <2>1, <2>8, <2>10, <2>11, FoldKeeps
    <2>13. chain.graph \in Grown(g) /\ chain.graph \in Graphs /\ chain.last \in Ids(chain.graph)
      BY <2>12 DEF G, Ends
    <2>14. u \in Ids(chain.graph)
      BY <2>13 DEF Grown, Grows
    <2>15. AddEdge(chain.graph, chain.last, u) \in Grown(chain.graph)
      BY <2>13, <2>14, EdgeGrows
    <2>16. AddEdge(chain.graph, chain.last, u) \in Grown(g)
      BY <2>13, <2>15, GrowthIsTransitive
    <2> QED
      BY <1>2, <1>4, <2>16
  <1> QED
    BY <1>3, <1>4

\* A chain: a graph grown from the one before and vertices of it.
Chains(g) == { s \in [graph : Graphs, list : Seq(Nat)] :
                 /\ s.graph \in Grown(g)
                 /\ s.list # <<>> /\ \A i \in DOMAIN s.list : s.list[i] \in Ids(s.graph) }

\* A chain with one vertex more.
LEMMA ChainsGrow ==
    ASSUME NEW g, NEW s \in Chains(g), NEW w \in Vertices
    PROVE  [graph |-> NewLinked(s.graph, w, Last(s.list)),
            list |-> Append(s.list, GenerateVertexID(s.graph))] \in Chains(g)
  <1> DEFINE h == NewLinked(s.graph, w, Last(s.list))
             id == GenerateVertexID(s.graph)
             list == Append(s.list, id)
  <1>1. /\ s.graph \in Graphs /\ s.graph \in Grown(g) /\ s.list \in Seq(Nat) /\ s.list # <<>>
        /\ \A i \in DOMAIN s.list : s.list[i] \in Ids(s.graph)
    BY DEF Chains
  <1>2. Last(s.list) \in Ids(s.graph)
    BY <1>1 DEF Last
  <1>3. h \in Grown(s.graph) /\ id \in Ids(h) /\ Ids(h) = Ids(s.graph) \cup {id}
    <2> DEFINE to == Last(s.list)
    <2>1. s.graph \in Graphs /\ to \in Ids(s.graph)
      BY <1>1, <1>2
    <2> HIDE DEF to
    <2>2. LET k == NewLinked(s.graph, w, to) IN
          /\ k \in Grown(s.graph) /\ id \in Ids(k) /\ Ids(k) = Ids(s.graph) \cup {id}
      BY <2>1, LinkedGrows
    <2> QED
      BY <2>2 DEF to
  <1> HIDE DEF h, id
  <1>4. h \in Grown(g) /\ h \in Graphs
    BY <1>1, <1>3, GrowthIsTransitive DEF Grown
  <1>5. id \in Nat
    BY <1>3, <1>4, SoundGraph
  <1>6. list \in Seq(Nat) /\ list # <<>>
    BY <1>1, <1>5
  <1>7. ASSUME NEW i \in DOMAIN list
        PROVE  list[i] \in Ids(h)
    <2>1. i \in DOMAIN s.list \/ list[i] = id
      BY <1>1, <1>5
    <2>2. i \in DOMAIN s.list => list[i] = s.list[i]
      BY <1>1, <1>5
    <2> QED
      BY <1>1, <1>3, <2>1, <2>2
  <1> HIDE DEF list
  <1>8. [graph |-> h, list |-> list] \in Chains(g)
    BY <1>4, <1>6, <1>7 DEF Chains
  <1> QED
    BY <1>8 DEF h, id, list

\* The vertices of a path behind its tie.
LEMMA ChainedIsChain ==
    ASSUME NEW g \in Graphs, NEW tie, IsTie(g, tie), tie.id # -1,
           NEW path \in Seq(Vertices), path # <<>>
    PROVE  Chained(tie, path) \in Chains(g)
  <1> DEFINE n == Len(Tail(path))
             seq == Tail(path)
             next(s, v) == [graph |-> NewLinked(s.graph, v, Last(s.list)),
                            list |-> Append(s.list, GenerateVertexID(s.graph))]
             base == [graph |-> tie.graph, list |-> <<tie.id>>]
             G == Chains(g)
             step == [q \in G \X (1..n) |-> next(q[1], seq[q[2]])]
             Folds(f) == f = [x \in SUBSET DOMAIN seq |->
                                IF x = {} THEN base ELSE next(f[x \ {Max(x)}], seq[Max(x)])]
  <1>1. n \in Nat /\ DOMAIN seq = 1..n /\ \A j \in 1..n : seq[j] \in Vertices
    <2> HIDE DEF Vertices
    <2>1. seq \in Seq(Vertices)
      OBVIOUS
    <2> HIDE DEF seq
    <2> QED
      BY <2>1 DEF seq
  <1>2. Chained(tie, path) = (CHOOSE f : Folds(f))[DOMAIN seq]
    BY DEF Chained, FoldLeft, MapThenFoldSet
  <1>3. base \in G
    <2>1. tie.graph \in Grown(g) /\ tie.graph \in Graphs /\ tie.id \in Ids(tie.graph)
      BY DEF IsTie, Grown
    <2>2. tie.id \in Nat
      BY <2>1, SoundGraph
    <2>3. /\ <<tie.id>> \in Seq(Nat) /\ <<tie.id>> # <<>>
          /\ \A i \in DOMAIN <<tie.id>> : <<tie.id>>[i] = tie.id
      BY <2>2
    <2> QED
      BY <2>1, <2>3 DEF Chains
  <1>4. \A s \in G, j \in 1..n : next(s, seq[j]) \in G
    <2> HIDE DEF seq, n
    <2> QED
      BY <1>1, ChainsGrow
  <1> HIDE DEF next, base, G, seq, n
  <1>5. step \in [G \X (1..n) -> G]
    BY <1>4
  <1>6. PICK it \in [SUBSET (1..n) -> G] : IsFold(it, n, base, step)
    <2> HIDE DEF step
    <2> QED
      BY <1>1, <1>3, <1>5, FoldExists
  <1>7. Folds(it)
    <2> SUFFICES ASSUME NEW x \in SUBSET (1..n), x # {}
                 PROVE  step[<<it[x \ {Max(x)}], Max(x)>>]
                            = next(it[x \ {Max(x)}], seq[Max(x)])
      BY <1>1, <1>6 DEF IsFold
    <2>1. Max(x) \in 1..n /\ it[x \ {Max(x)}] \in G
      BY <1>1, MaxUpTo
    <2> QED
      BY <2>1
  <1>8. PICK f : Folds(f) /\ Chained(tie, path) = f[1..n]
    <2> HIDE DEF Folds
    <2> QED
      BY <1>1, <1>2, <1>7
  <1>9. \A x \in SUBSET (1..n) :
           f[x] = IF x = {} THEN base ELSE next(f[x \ {Max(x)}], seq[Max(x)])
    BY <1>1, <1>8
  <1> HIDE DEF Folds, step
  <1>10. \A m \in 1..n : f[1..(m - 1)] \in G => f[1..m] \in G
    <2> SUFFICES ASSUME NEW m \in 1..n, f[1..(m - 1)] \in G
                 PROVE  f[1..m] \in G
      OBVIOUS
    <2>1. m \in Nat /\ m > 0 /\ 1..m \in SUBSET (1..n)
      BY <1>1
    <2>2. 1..m # {} /\ Max(1..m) = m /\ (1..m) \ {Max(1..m)} = 1..(m - 1)
      BY <2>1, MaxOfFirst
    <2>3. f[1..m] = next(f[1..(m - 1)], seq[m])
      BY <1>9, <2>1, <2>2
    <2> QED
      BY <1>4, <2>3
  <1>11. f[{}] \in G
    BY <1>3, <1>9
  <1> QED
    BY <1>1, <1>8, <1>10, <1>11, FoldKeeps DEF G

\* The edges, shortcuts and vertices between that a chain is given.
LEMMA ConnectedGrows ==
    ASSUME NEW g \in Graphs, NEW chain \in Chains(g)
    PROVE  Connected(chain) \in Grown(g)
  <1> DEFINE c == chain.graph
             G == Grown(c)
             connect(h, v) == MaybeAddShortcutEdges(ExpandGraphEdges(h, v), v)
             fill(h, i) == Interpolated(h, chain.list[i], chain.list[i + 1])
             n == Len(chain.list)
             k == n - 1
             linked == FoldLeft(connect, c, chain.list)
             pairs == [i \in 1..k |-> i]
             filled == FoldLeft(fill, linked, pairs)
  <1>1. /\ c \in Graphs /\ c \in Grown(g)
        /\ n \in Nat /\ n > 0 /\ DOMAIN chain.list = 1..n
        /\ \A i \in 1..n : chain.list[i] \in Ids(c)
    BY DEF Chains
  <1>2. Connected(chain) = filled
    BY DEF Connected
  <1>3. \A h \in G : h \in Graphs /\ Ids(c) \subseteq Ids(h)
    BY DEF Grown, Grows
  <1>4. linked \in G
    <2> DEFINE step == [q \in G \X (1..n) |-> connect(q[1], chain.list[q[2]])]
               Folds(f) == f = [x \in SUBSET DOMAIN chain.list |->
                                  IF x = {} THEN c
                                  ELSE connect(f[x \ {Max(x)}], chain.list[Max(x)])]
    <2>1. linked = (CHOOSE f : Folds(f))[DOMAIN chain.list]
      BY DEF FoldLeft, MapThenFoldSet
    <2>2. c \in G
      BY <1>1, GrowthIsReflexive
    <2>3. ASSUME NEW h \in G, NEW j \in 1..n
          PROVE  connect(h, chain.list[j]) \in G
      <3> DEFINE v == chain.list[j]
                 e == ExpandGraphEdges(h, v)
      <3>1. h \in Graphs /\ v \in Ids(h)
        BY <1>1, <1>3
      <3> HIDE DEF v
      <3>2. e \in Grown(h) /\ Ids(e) = Ids(h) /\ e \in Graphs
        BY <3>1, ExpandedEdgesGrow DEF Grown
      <3> HIDE DEF e
      <3>3. MaybeAddShortcutEdges(e, v) \in Grown(e)
        BY <3>1, <3>2, ExpandedEdgesGrow
      <3>4. MaybeAddShortcutEdges(e, v) \in G
        BY <3>2, <3>3, GrowthIsTransitive
      <3> QED
        BY <3>4 DEF e, v
    <2> HIDE DEF connect, G, linked, c, n
    <2>4. step \in [G \X (1..n) -> G]
      BY <2>3
    <2>5. PICK it \in [SUBSET (1..n) -> G] : IsFold(it, n, c, step)
      <3> HIDE DEF step
      <3> QED
        BY <1>1, <2>2, <2>4, FoldExists
    <2>6. Folds(it)
      <3> SUFFICES ASSUME NEW x \in SUBSET (1..n), x # {}
                   PROVE  step[<<it[x \ {Max(x)}], Max(x)>>]
                              = connect(it[x \ {Max(x)}], chain.list[Max(x)])
        BY <1>1, <2>5 DEF IsFold
      <3>1. Max(x) \in 1..n /\ it[x \ {Max(x)}] \in G
        BY <1>1, MaxUpTo
      <3> QED
        BY <3>1
    <2>7. PICK f : Folds(f) /\ linked = f[1..n]
      <3> HIDE DEF Folds
      <3> QED
        BY <1>1, <2>1, <2>6
    <2>8. \A x \in SUBSET (1..n) :
             f[x] = IF x = {} THEN c ELSE connect(f[x \ {Max(x)}], chain.list[Max(x)])
      BY <1>1, <2>7
    <2> HIDE DEF Folds, step
    <2>9. \A m \in 1..n : f[1..(m - 1)] \in G => f[1..m] \in G
      <3> SUFFICES ASSUME NEW m \in 1..n, f[1..(m - 1)] \in G
                   PROVE  f[1..m] \in G
        OBVIOUS
      <3>1. m \in Nat /\ m > 0 /\ 1..m \in SUBSET (1..n)
        BY <1>1
      <3>2. 1..m # {} /\ Max(1..m) = m /\ (1..m) \ {Max(1..m)} = 1..(m - 1)
        BY <3>1, MaxOfFirst
      <3>3. f[1..m] = connect(f[1..(m - 1)], chain.list[m])
        BY <2>8, <3>1, <3>2
      <3> QED
        BY <2>3, <3>3
    <2>10. f[{}] \in G
      BY <2>2, <2>8
    <2> QED
      BY <1>1, <2>7, <2>9, <2>10, FoldKeeps
  <1>5. filled \in G
    <2> DEFINE step == [q \in G \X (1..k) |-> fill(q[1], q[2])]
               Folds(f) == f = [x \in SUBSET DOMAIN pairs |->
                                  IF x = {} THEN linked
                                  ELSE fill(f[x \ {Max(x)}], pairs[Max(x)])]
    <2>1. filled = (CHOOSE f : Folds(f))[DOMAIN pairs]
      BY DEF FoldLeft, MapThenFoldSet
    <2>2. k \in Nat /\ DOMAIN pairs = 1..k /\ \A j \in 1..k : pairs[j] = j
      BY <1>1
    <2>3. ASSUME NEW h \in G, NEW j \in 1..k
          PROVE  fill(h, j) \in G
      <3>1. j \in 1..n /\ j + 1 \in 1..n
        BY <1>1
      <3>2. h \in Graphs /\ chain.list[j] \in Ids(h) /\ chain.list[j + 1] \in Ids(h)
        BY <1>1, <1>3, <3>1
      <3>3. fill(h, j) \in Grown(h)
        BY <3>2, InterpolatedGrows
      <3> HIDE DEF fill
      <3> QED
        BY <1>1, <3>3, GrowthIsTransitive
    <2> HIDE DEF fill, G, linked, c, n, k, filled, pairs
    <2>4. step \in [G \X (1..k) -> G]
      BY <2>3
    <2>5. PICK it \in [SUBSET (1..k) -> G] : IsFold(it, k, linked, step)
      <3> HIDE DEF step
      <3> QED
        BY <1>4, <2>2, <2>4, FoldExists
    <2>6. Folds(it)
      <3> SUFFICES ASSUME NEW x \in SUBSET (1..k), x # {}
                   PROVE  step[<<it[x \ {Max(x)}], Max(x)>>]
                              = fill(it[x \ {Max(x)}], pairs[Max(x)])
        BY <2>2, <2>5 DEF IsFold
      <3>1. Max(x) \in 1..k /\ it[x \ {Max(x)}] \in G
        BY <2>2, MaxUpTo
      <3> QED
        BY <2>2, <3>1
    <2>7. PICK f : Folds(f) /\ filled = f[1..k]
      <3> HIDE DEF Folds
      <3> QED
        BY <2>1, <2>2, <2>6
    <2>8. \A x \in SUBSET (1..k) :
             f[x] = IF x = {} THEN linked ELSE fill(f[x \ {Max(x)}], pairs[Max(x)])
      BY <2>2, <2>7
    <2> HIDE DEF Folds, step
    <2>9. \A m \in 1..k : f[1..(m - 1)] \in G => f[1..m] \in G
      <3> SUFFICES ASSUME NEW m \in 1..k, f[1..(m - 1)] \in G
                   PROVE  f[1..m] \in G
        OBVIOUS
      <3>1. m \in Nat /\ m > 0 /\ 1..m \in SUBSET (1..k)
        BY <2>2
      <3>2. 1..m # {} /\ Max(1..m) = m /\ (1..m) \ {Max(1..m)} = 1..(m - 1)
        BY <3>1, MaxOfFirst
      <3>3. f[1..m] = fill(f[1..(m - 1)], pairs[m])
        BY <2>8, <3>1, <3>2
      <3> QED
        BY <2>2, <2>3, <3>3
    <2>10. f[{}] \in G
      BY <1>4, <2>8
    <2> QED
      BY <2>2, <2>7, <2>9, <2>10, FoldKeeps
  <1> HIDE DEF c, filled
  <1> QED
    BY <1>1, <1>2, <1>5, GrowthIsTransitive

\* commitVerifiedPathToCognitiveMap.
LEMMA CommittedGrows ==
    ASSUME NEW g \in Graphs, NEW path \in Seq(Vertices)
    PROVE  CommitVerifiedPath(g, path) \in Grown(g)
  <1> DEFINE tie == Tie(g, path[1].place, 0, TRUE)
             h == Connected(Chained(tie, path))
  <1>1. CommitVerifiedPath(g, path)
            = IF path = <<>> \/ Ids(g) = {} THEN g ELSE IF tie.id = -1 THEN g ELSE h
    BY DEF CommitVerifiedPath
  <1>2. ASSUME path # <<>>
        PROVE  IsTie(g, tie)
    <2>1. path[1] \in Vertices
      <3> HIDE DEF Vertices
      <3> QED
        BY <1>2
    <2>2. path[1].place \in Places
      BY <2>1 DEF Vertices
    <2> QED
      BY <2>2, TieIsTie
  <1> HIDE DEF tie, Vertices
  <1>3. ASSUME path # <<>>, tie.id # -1
        PROVE  h \in Grown(g)
    <2>1. Chained(tie, path) \in Chains(g)
      BY <1>2, <1>3, ChainedIsChain
    <2> QED
      BY <2>1, ConnectedGrows
  <1> HIDE DEF h
  <1> QED
    BY <1>1, <1>3, GrowthIsReflexive

-----------------------------------------------------------------------------
(* Revising the vertices of a graph.                                       *)

\* setType and updateVertexTypeInRange.
LEMMA RetypedGraph ==
    ASSUME NEW g \in Graphs, NEW ids, NEW type \in Types,
           NEW h, h = SetType(g, ids, type)
    PROVE  /\ h \in Graphs /\ Ids(h) = Ids(g) /\ h.edges = g.edges /\ h.idCount = g.idCount
           /\ type = "kVisited" => h \in Grown(g)
  <1> DEFINE w == [i \in Ids(g) |-> IF i \in ids THEN [g.vertex[i] EXCEPT !.type = type]
                                    ELSE g.vertex[i]]
  <1>1. h = [g EXCEPT !.vertex = w]
    BY DEF SetType
  <1>2. ASSUME NEW v \in Ids(g)
        PROVE  /\ w[v] \in Vertices /\ w[v].place = g.vertex[v].place
               /\ w[v].type = g.vertex[v].type \/ w[v].type = type
    <2> DEFINE x == g.vertex[v]
               y == [x EXCEPT !.type = type]
    <2>1. x \in Vertices
      BY SoundGraph
    <2>2. w[v] = y \/ w[v] = x
      OBVIOUS
    <2> HIDE DEF x
    <2>3. y \in Vertices /\ y.place = x.place /\ y.type = type
      BY <2>1 DEF Vertices
    <2> HIDE DEF y, w
    <2> QED
      BY <2>1, <2>2, <2>3 DEF x
  <1>3. w \in [Ids(g) -> Vertices]
    <2>1. w = [i \in Ids(g) |-> w[i]]
      OBVIOUS
    <2> HIDE DEF w, Vertices
    <2> QED
      BY <1>2, <2>1
  <1>4. type = "kVisited" => \A v \in Ids(g) : g.vertex[v].type = "kVisited" => w[v].type = "kVisited"
    <2> HIDE DEF w
    <2> QED
      BY <1>2
  <1> HIDE DEF w
  <1> QED
    BY <1>1, <1>2, <1>3, <1>4, RevisionGrows

\* The visit of the odometry timer.
LEMMA VisitGrows ==
    ASSUME NEW g \in Graphs, NEW p, NEW range
    PROVE  /\ UpdateVertexTypeInRange(g, p, range) \in Grown(g)
           /\ UpdateVertexTypeInRange(g, p, range).idCount = g.idCount
           /\ Ids(UpdateVertexTypeInRange(g, p, range)) = Ids(g)
  <1>1. "kVisited" \in Types
    BY DEF Types
  <1> QED
    BY <1>1, RetypedGraph DEF UpdateVertexTypeInRange

\* A frontier that is looked at again stays where it is and is not visited.
LEMMA RefreshedVertex ==
    ASSUME NEW x \in Vertices,
           NEW y, y \in {x, Evaluated(x), [Evaluated(x) EXCEPT !.type = "kUnvisited"]}
    PROVE  y \in Vertices /\ y.place = x.place
  <1>1. "kUnvisited" \in Types
    BY DEF Types
  <1> DEFINE e == Evaluated(x)
             r == [e EXCEPT !.type = "kUnvisited"]
  <1>2. e \in Vertices /\ e.place = x.place /\ r \in Vertices /\ r.place = x.place
    BY <1>1, EvaluatedVertex, Zenon
  <1>3. y \in {x, e, r}
    OBVIOUS
  <1> HIDE DEF e, r
  <1> QED
    BY <1>2, <1>3

\* The first pass of addFrontiers over the map.
LEMMA RefreshGrows ==
    ASSUME NEW g \in Graphs
    PROVE  /\ RefreshFrontiers(g) \in Grown(g) /\ Ids(RefreshFrontiers(g)) = Ids(g)
  <1> DEFINE h == RefreshFrontiers(g)
             again(x) == IF x.type # "kFrontier" THEN x
                         ELSE IF Gain(x.place) > 0 THEN Evaluated(x)
                         ELSE [Evaluated(x) EXCEPT !.type = "kUnvisited"]
             w == [v \in Ids(g) |-> again(g.vertex[v])]
  <1>1. h = [g EXCEPT !.vertex = w]
    BY DEF RefreshFrontiers
  <1>2. ASSUME NEW v \in Ids(g)
        PROVE  /\ w[v] \in Vertices /\ w[v].place = g.vertex[v].place
               /\ g.vertex[v].type = "kVisited" => w[v].type = "kVisited"
    <2> DEFINE x == g.vertex[v]
    <2>1. x \in Vertices
      BY SoundGraph
    <2>2. w[v] = again(x)
      OBVIOUS
    <2> HIDE DEF x, w
    <2>3. /\ again(x) \in {x, Evaluated(x), [Evaluated(x) EXCEPT !.type = "kUnvisited"]}
          /\ x.type # "kFrontier" => again(x) = x
      OBVIOUS
    <2> HIDE DEF again
    <2>4. again(x) \in Vertices /\ again(x).place = x.place
      BY <2>1, <2>3, RefreshedVertex
    <2>5. x.type = "kVisited" => again(x).type = "kVisited"
      BY <2>3
    <2> QED
      BY <2>2, <2>4, <2>5 DEF x
  <1>3. w \in [Ids(g) -> Vertices]
    <2>1. w = [i \in Ids(g) |-> w[i]]
      OBVIOUS
    <2> HIDE DEF w, Vertices
    <2> QED
      BY <1>2, <2>1
  <1> HIDE DEF w, h
  <1> QED
    BY <1>1, <1>2, <1>3, RevisionGrows DEF h

\* computeExplorationGain.
LEMMA LabelledGraph ==
    ASSUME NEW g \in Graphs
    PROVE  /\ Labelled(g) \in Graphs /\ Ids(Labelled(g)) = Ids(g)
           /\ Labelled(g).edges = g.edges /\ Labelled(g).idCount = g.idCount
  <1> DEFINE h == Labelled(g)
             label(x) == IF Evaluated(x).frontier
                         THEN [Evaluated(x) EXCEPT !.type = "kFrontier"] ELSE Evaluated(x)
             w == [v \in Ids(g) |-> label(g.vertex[v])]
  <1>1. h = [g EXCEPT !.vertex = w]
    BY DEF Labelled
  <1>2. ASSUME NEW v \in Ids(g)
        PROVE  w[v] \in Vertices /\ w[v].place = g.vertex[v].place
    <2> DEFINE x == g.vertex[v]
    <2>1. x \in Vertices
      BY SoundGraph
    <2>2. w[v] = label(x)
      OBVIOUS
    <2> HIDE DEF x, w
    <2>3. label(x) = Evaluated(x) \/ label(x) = [Evaluated(x) EXCEPT !.type = "kFrontier"]
      OBVIOUS
    <2>4. "kFrontier" \in Types
      BY DEF Types
    <2> DEFINE e == Evaluated(x)
               f == [e EXCEPT !.type = "kFrontier"]
    <2>5. e \in Vertices /\ e.place = x.place /\ f \in Vertices /\ f.place = x.place
      BY <2>1, <2>4, EvaluatedVertex, Zenon
    <2>6. label(x) = e \/ label(x) = f
      BY <2>3
    <2> HIDE DEF label, e, f
    <2>7. label(x) \in Vertices /\ label(x).place = x.place
      BY <2>5, <2>6
    <2> QED
      BY <2>2, <2>7 DEF x
  <1>3. w \in [Ids(g) -> Vertices]
    <2>1. w = [i \in Ids(g) |-> w[i]]
      OBVIOUS
    <2> HIDE DEF w, Vertices
    <2> QED
      BY <1>2, <2>1
  <1> HIDE DEF w, h
  <1> QED
    BY <1>1, <1>2, <1>3, RevisionGrows DEF h

-----------------------------------------------------------------------------
(* Shortest paths.                                                         *)

\* A report about a set of vertices.
IsReport(r, S) ==
    /\ r.status \in BOOLEAN
    /\ r.status => r.parent \in [S -> S] /\ r.distance \in [S -> Nat]

\* A search that was never made reports nothing.
LEMMA NoReportIsReport == \A S : IsReport(NoReport, S)
  BY DEF IsReport, NoReport

\* Of some vertices one is the first by a measure, and by its id.
LEMMA FirstByMeasure ==
    ASSUME NEW S \in SUBSET Nat, IsFiniteSet(S), S # {}, NEW d, \A v \in S : d[v] \in Int
    PROVE  \E v \in S : \A u \in S : d[v] < d[u] \/ (d[v] = d[u] /\ v <= u)
  <1> DEFINE R == { p \in S \X S : d[p[1]] < d[p[2]] \/ (d[p[1]] = d[p[2]] /\ p[1] <= p[2]) }
  <1>1. \A x, y \in S : <<x, y>> \in R <=> d[x] < d[y] \/ (d[x] = d[y] /\ x <= y)
    OBVIOUS
  <1> HIDE DEF R
  <1>2. \A x, y \in S : <<x, y>> \in R \/ <<y, x>> \in R
    <2> SUFFICES ASSUME NEW x \in S, NEW y \in S
                 PROVE  <<x, y>> \in R \/ <<y, x>> \in R
      OBVIOUS
    <2>1. x \in Nat /\ y \in Nat /\ d[x] \in Int /\ d[y] \in Int
      OBVIOUS
    <2>2. \/ d[x] < d[y] \/ (d[x] = d[y] /\ x <= y)
          \/ d[y] < d[x] \/ (d[y] = d[x] /\ y <= x)
      BY <2>1
    <2> QED
      BY <1>1, <2>2
  <1>3. \A x, y, z \in S : <<x, y>> \in R /\ <<y, z>> \in R => <<x, z>> \in R
    BY <1>1
  <1>4. PICK v \in S : \A u \in S : <<v, u>> \in R
    BY <1>2, <1>3, FiniteFirst
  <1> QED
    BY <1>1, <1>4

\* getShortestDistance.
LEMMA DistanceIsNatural ==
    ASSUME NEW r, NEW S, IsReport(r, S), NEW v
    PROVE  ShortestDistance(r, v) \in Nat
  BY DEF IsReport, ShortestDistance, Inf

\* The walks from a source: from it over any number of edges.  A walk is where
\* it ends, its length and its number of edges.
IsWalking(g, source, walks) ==
    /\ walks \subseteq Ids(g) \X Nat \X Nat
    /\ <<source, 0, 0>> \in walks
    /\ \A w \in walks : \A u \in Ids(g) :
           {u, w[1]} \in g.edges => <<u, w[2] + VertexDist(g, w[1], u), w[3] + 1>> \in walks
    /\ \A x \in walks :
           \/ x = <<source, 0, 0>>
           \/ \E w \in walks : /\ {x[1], w[1]} \in g.edges
                               /\ x[2] = w[2] + VertexDist(g, w[1], x[1]) /\ x[3] = w[3] + 1

\* Those with no more edges than a number.
Within(walks, n) == { w \in walks : w[3] <= n }

\* Distances of vertices are naturals.
LEMMA EdgeLength ==
    ASSUME NEW g \in Graphs, NEW v \in Ids(g), NEW u \in Ids(g)
    PROVE  /\ VertexDist(g, v, u) \in Nat
           /\ VertexDist(g, v, u) = VertexDist(g, u, v)
  BY SoundGraph, SpaceAssumption DEF VertexDist

\* The walks of the search are those with as many edges as a graph may need.
LEMMA WalksAreWalks ==
    ASSUME NEW g \in Graphs, NEW source \in Ids(g)
    PROVE  \E walks : /\ IsWalking(g, source, walks)
                      /\ Walks(g, source) = Within(walks, g.idCount)
  <1> DEFINE more(w) == { <<u, w[2] + VertexDist(g, w[1], u), w[3] + 1>> :
                            u \in { x \in Ids(g) : {x, w[1]} \in g.edges } }
             from(w) == {w} \cup more(w)
             All == Ids(g) \X Nat \X Nat
             G == SUBSET All
             base == { <<source, 0, 0>> }
             step == [W \in G |-> UNION { from(w) : w \in W }]
             n == Cardinality(Ids(g)) - 1
             Recurs(walks) == walks = [m \in Nat |-> IF m = 0 THEN base
                                                  ELSE UNION { from(w) : w \in walks[m - 1] }]
  <1>1. Walks(g, source) = (CHOOSE walks : Recurs(walks))[n]
    BY DEF Walks
  <1>2. base \in G
    OBVIOUS
  <1>3. ASSUME NEW w \in All
        PROVE  from(w) \in G
    <2>1. w[1] \in Ids(g) /\ w[2] \in Nat /\ w[3] \in Nat
      OBVIOUS
    <2> DEFINE reached == { x \in Ids(g) : {x, w[1]} \in g.edges }
    <2>2. \A u \in reached : /\ u \in Ids(g) /\ w[2] + VertexDist(g, w[1], u) \in Nat
                             /\ w[3] + 1 \in Nat
      BY <2>1, EdgeLength
    <2> HIDE DEF reached
    <2>3. { <<u, w[2] + VertexDist(g, w[1], u), w[3] + 1>> : u \in reached } \subseteq All
      BY <2>2
    <2>4. more(w) \subseteq All
      BY <2>3 DEF reached
    <2> HIDE DEF more
    <2> QED
      BY <2>4
  <1>4. \A x, w : x \in from(w) <=>
                    \/ x = w
                    \/ \E u \in Ids(g) : /\ {u, w[1]} \in g.edges
                                         /\ x = <<u, w[2] + VertexDist(g, w[1], u), w[3] + 1>>
    OBVIOUS
  <1> HIDE DEF from
  <1>5. \A W \in G : UNION { from(w) : w \in W } \in G
    <2> HIDE DEF All
    <2> QED
      BY <1>3
  <1>6. step \in [G -> G]
    <2> HIDE DEF G
    <2> QED
      BY <1>5
  <1>7. PICK it \in [Nat -> G] : Iterates(it, base, step)
    <2> HIDE DEF G, step, base
    <2> QED
      BY <1>2, <1>6, IterationExists
  <1>8. Recurs(it)
    <2> HIDE DEF G, base
    <2>1. \A m \in Nat : m # 0 => it[m - 1] \in G
      BY <1>7
    <2>2. \A m \in Nat : it[m] = IF m = 0 THEN base ELSE UNION { from(w) : w \in it[m - 1] }
      BY <1>7, <2>1 DEF Iterates
    <2> HIDE DEF step
    <2> QED
      BY <1>7, <2>2
  <1> DEFINE chosen == CHOOSE walks : Recurs(walks)
  <1>9. Recurs(chosen)
    <2> HIDE DEF Recurs
    <2> QED
      BY <1>8
  <1>10. \A m \in Nat : chosen[m] = IF m = 0 THEN base
                                    ELSE UNION { from(w) : w \in chosen[m - 1] }
    <2> HIDE DEF chosen
    <2> QED
      BY <1>9
  <1> HIDE DEF Recurs, step, chosen
  <1>11. n = g.idCount /\ n \in Nat
    <2>1. Cardinality(Ids(g)) = g.idCount + 1 /\ g.idCount \in Int /\ Ids(g) = 0..g.idCount
      BY SoundGraph
    <2> QED
      BY <2>1
  <1> HIDE DEF n
  <1> DEFINE walks == UNION { chosen[m] : m \in Nat }
  <1>12. \A m \in Nat : \A x : x \in chosen[m + 1] <=> \E w \in chosen[m] : x \in from(w)
    <2> SUFFICES ASSUME NEW m \in Nat
                 PROVE  \A x : x \in chosen[m + 1] <=> \E w \in chosen[m] : x \in from(w)
      OBVIOUS
    <2>1. m + 1 \in Nat /\ m + 1 # 0 /\ (m + 1) - 1 = m
      OBVIOUS
    <2>2. chosen[m + 1] = UNION { from(w) : w \in chosen[m] }
      BY <1>10, <2>1
    <2> DEFINE next == chosen[m + 1]
               this == chosen[m]
    <2>3. next = UNION { from(w) : w \in this }
      BY <2>2
    <2> HIDE DEF next, this
    <2>4. \A x : x \in next <=> \E w \in this : x \in from(w)
      BY <2>3
    <2> QED
      BY <2>4 DEF next, this
  <1>13. chosen[0] = base
    BY <1>10
  <1>14. ASSUME NEW m \in Nat
         PROVE  chosen[m] \in G /\ \A x \in chosen[m] : x[3] <= m
    <2> DEFINE T == { k \in 0..m : chosen[k] \in G /\ \A x \in chosen[k] : x[3] <= k }
    <2>1. 0 \in T
      BY <1>2, <1>13
    <2>2. ASSUME NEW k \in 1..m, k - 1 \in T
          PROVE  k \in T
      <3>1. k - 1 \in Nat /\ (k - 1) + 1 = k
        OBVIOUS
      <3> DEFINE j == k - 1
      <3>2. \A x : x \in chosen[k] <=> \E w \in chosen[j] : x \in from(w)
        BY <1>12, <3>1
      <3>3. chosen[j] \in G /\ \A x \in chosen[j] : x[3] <= j
        BY <2>2
      <3>4. chosen[k] \in G
        BY <1>3, <3>2, <3>3
      <3>5. ASSUME NEW x \in chosen[k]
            PROVE  x[3] <= k
        <4>1. PICK w \in chosen[j] : x \in from(w)
          BY <3>2
        <4>2. w \in All /\ w[3] <= j /\ w[3] \in Nat
          BY <3>3, <4>1
        <4>3. CASE x = w
          BY <3>1, <4>2, <4>3
        <4>4. CASE \E u \in Ids(g) : x = <<u, w[2] + VertexDist(g, w[1], u), w[3] + 1>>
          <5>1. x[3] = w[3] + 1
            BY <4>4
          <5> QED
            BY <3>1, <4>2, <5>1
        <4> QED
          BY <1>4, <4>1, <4>3, <4>4
      <3> HIDE DEF G
      <3> QED
        BY <3>4, <3>5
    <2> HIDE DEF T
    <2>3. m \in T
      <3>1. 0..m \subseteq T
        BY <2>1, <2>2, UpTo
      <3> QED
        BY <3>1
    <2> QED
      BY <2>3 DEF T
  <1>15. \A x \in walks : \E m \in Nat : x \in chosen[m]
    OBVIOUS
  <1>16. \A m \in Nat : \A x \in chosen[m] : x \in walks
    OBVIOUS
  <1> HIDE DEF walks
  <1>17. IsWalking(g, source, walks)
    <2>1. walks \subseteq All
      BY <1>14, <1>15
    <2>2. <<source, 0, 0>> \in walks
      BY <1>13, <1>16
    <2>3. ASSUME NEW w \in walks, NEW u \in Ids(g), {u, w[1]} \in g.edges
          PROVE  <<u, w[2] + VertexDist(g, w[1], u), w[3] + 1>> \in walks
      <3> DEFINE x == <<u, w[2] + VertexDist(g, w[1], u), w[3] + 1>>
      <3>1. x \in from(w)
        BY <1>4, <2>3
      <3> HIDE DEF x
      <3>2. PICK m \in Nat : w \in chosen[m]
        BY <1>15
      <3>3. x \in chosen[m + 1] /\ m + 1 \in Nat
        BY <1>12, <3>1, <3>2
      <3>4. x \in walks
        BY <1>16, <3>3
      <3> QED
        BY <3>4 DEF x
    <2>4. ASSUME NEW x \in walks
          PROVE  \/ x = <<source, 0, 0>>
                 \/ \E w \in walks : /\ {x[1], w[1]} \in g.edges
                                     /\ x[2] = w[2] + VertexDist(g, w[1], x[1])
                                     /\ x[3] = w[3] + 1
      <3> DEFINE Extends(y, w) == /\ {y[1], w[1]} \in g.edges
                                  /\ y[2] = w[2] + VertexDist(g, w[1], y[1])
                                  /\ y[3] = w[3] + 1
                 Comes(y) == y = <<source, 0, 0>> \/ \E w \in walks : Extends(y, w)
      <3>1. PICK m \in Nat : x \in chosen[m]
        BY <1>15
      <3> DEFINE T == { k \in 0..m : \A y \in chosen[k] : Comes(y) }
      <3>2. 0 \in T
        BY <1>13
      <3>3. ASSUME NEW k \in 1..m, k - 1 \in T
            PROVE  k \in T
        <4> DEFINE j == k - 1
        <4>1. j \in Nat /\ j + 1 = k
          OBVIOUS
        <4> SUFFICES ASSUME NEW y \in chosen[k]
                     PROVE  Comes(y)
          OBVIOUS
        <4>2. PICK w \in chosen[j] : y \in from(w)
          BY <1>12, <4>1
        <4>3. CASE y = w
          BY <3>3, <4>2, <4>3
        <4>4. CASE \E u \in Ids(g) : /\ {u, w[1]} \in g.edges
                                     /\ y = <<u, w[2] + VertexDist(g, w[1], u), w[3] + 1>>
          <5>1. Extends(y, w)
            BY <4>4
          <5>2. w \in walks
            BY <1>16, <4>1, <4>2
          <5> HIDE DEF Extends
          <5> QED
            BY <5>1, <5>2
        <4>5. \/ y = w
              \/ \E u \in Ids(g) : /\ {u, w[1]} \in g.edges
                                   /\ y = <<u, w[2] + VertexDist(g, w[1], u), w[3] + 1>>
          BY <1>4, <4>2
        <4> HIDE DEF Comes
        <4> QED
          BY <4>3, <4>4, <4>5
      <3> HIDE DEF T, Comes
      <3>4. m \in T
        <4>1. 0..m \subseteq T
          BY <3>2, <3>3, UpTo
        <4> QED
          BY <4>1
      <3>5. Comes(x)
        BY <3>1, <3>4 DEF T
      <3> QED
        BY <3>5 DEF Comes
    <2> QED
      BY <2>1, <2>2, <2>3, <2>4 DEF IsWalking
  <1>18. \A x \in chosen[n] : x \in walks /\ x[3] <= n
    BY <1>11, <1>14, <1>16
  <1>19. \A x \in walks : x[3] <= n => x \in chosen[n]
    <2> DEFINE T == { k \in 0..n : \A x \in walks : x[3] <= k => x \in chosen[k] }
    <2>1. \A x \in walks : x[3] \in Nat
      BY <1>17 DEF IsWalking
    <2>2. 0 \in T
      <3> SUFFICES ASSUME NEW x \in walks, x[3] <= 0
                   PROVE  x \in chosen[0]
        BY <1>11
      <3>1. \A w \in walks : x[3] # w[3] + 1
        <4> SUFFICES ASSUME NEW w \in walks, x[3] = w[3] + 1
                     PROVE  FALSE
          OBVIOUS
        <4>1. w[3] \in Nat
          BY <2>1
        <4> QED
          BY <4>1
      <3>2. x = <<source, 0, 0>>
        BY <1>17, <3>1 DEF IsWalking
      <3> QED
        BY <1>13, <3>2
    <2>3. ASSUME NEW k \in 1..n, k - 1 \in T
          PROVE  k \in T
      <3> DEFINE j == k - 1
      <3>1. j \in Nat /\ j + 1 = k
        BY <1>11
      <3> SUFFICES ASSUME NEW x \in walks, x[3] <= k
                   PROVE  x \in chosen[k]
        OBVIOUS
      <3>2. CASE x = <<source, 0, 0>>
        <4>1. x \in chosen[j]
          BY <2>3, <3>1, <3>2
        <4>2. x \in from(x)
          BY <1>4
        <4> QED
          BY <1>12, <3>1, <4>1, <4>2
      <3>3. ASSUME NEW w \in walks, {x[1], w[1]} \in g.edges,
                   x[2] = w[2] + VertexDist(g, w[1], x[1]), x[3] = w[3] + 1
            PROVE  x \in chosen[k]
        <4>1. w[3] \in Nat /\ w[3] <= j
          BY <2>1, <3>1, <3>3
        <4>2. w \in chosen[j]
          BY <2>3, <4>1
        <4>3. x \in Ids(g) \X Nat \X Nat
          BY <1>17 DEF IsWalking
        <4>4. x = <<x[1], x[2], x[3]>> /\ x[1] \in Ids(g)
          BY <4>3
        <4>5. x = <<x[1], w[2] + VertexDist(g, w[1], x[1]), w[3] + 1>>
          BY <3>3, <4>4
        <4>6. x \in from(w)
          BY <1>4, <3>3, <4>4, <4>5
        <4> QED
          BY <1>12, <3>1, <4>2, <4>6
      <3> QED
        BY <1>17, <3>2, <3>3 DEF IsWalking
    <2> HIDE DEF T
    <2>4. n \in T
      <3>1. 0..n \subseteq T
        BY <1>11, <2>2, <2>3, UpTo
      <3> QED
        BY <1>11, <3>1
    <2> QED
      BY <2>4 DEF T
  <1>20. Walks(g, source) = chosen[n]
    BY <1>1 DEF chosen
  <1>21. Walks(g, source) = Within(walks, g.idCount)
    BY <1>11, <1>18, <1>19, <1>20 DEF Within
  <1> QED
    BY <1>17, <1>21

\* The vertices that walks reach, and how: first by the length of the walk, then
\* by its number of edges.
IsNearest(g, source, walks, reached, long, hops) ==
    /\ reached \subseteq Ids(g) /\ source \in reached
    /\ long \in [reached -> Nat] /\ long[source] = 0
    /\ hops \in [reached -> 0..g.idCount] /\ hops[source] = 0
    /\ \A w \in walks : /\ w[1] \in reached /\ long[w[1]] <= w[2]
                        /\ w[2] = long[w[1]] => hops[w[1]] <= w[3]
    /\ \A v \in reached : <<v, long[v], hops[v]>> \in walks
    /\ \A v \in reached \ {source} : \E u \in reached :
           /\ {u, v} \in g.edges /\ long[v] = long[u] + VertexDist(g, u, v)
           /\ hops[v] = hops[u] + 1

\* Every vertex that is reached is reached over no more edges than there are
\* other vertices, by one walk that is the first, and all but the source from
\* another vertex.
LEMMA NearestWalks ==
    ASSUME NEW g \in Graphs, NEW source \in Ids(g), NEW walks, IsWalking(g, source, walks)
    PROVE  \E reached, long, hops : IsNearest(g, source, walks, reached, long, hops)
  <1> DEFINE reached == { w[1] : w \in walks }
             At(v) == { w \in walks : w[1] = v }
             lengths(v) == { w[2] : w \in At(v) }
             length(v) == CHOOSE n \in lengths(v) : \A m \in lengths(v) : n <= m
             counts(v) == { w[3] : w \in { x \in At(v) : x[2] = length(v) } }
             count(v) == CHOOSE n \in counts(v) : \A m \in counts(v) : n <= m
             long == [v \in reached |-> length(v)]
             hops == [v \in reached |-> count(v)]
  <1>1. \A w \in walks : /\ w[1] \in Ids(g) /\ w[2] \in Nat /\ w[3] \in Nat
                         /\ w = <<w[1], w[2], w[3]>>
    BY DEF IsWalking
  <1>2. reached \subseteq Ids(g)
    BY <1>1
  <1>3. ASSUME NEW v \in reached
        PROVE  /\ length(v) \in Nat /\ count(v) \in Nat
               /\ <<v, length(v), count(v)>> \in walks
               /\ \A w \in walks : w[1] = v =>
                      length(v) <= w[2] /\ (w[2] = length(v) => count(v) <= w[3])
    <2>1. lengths(v) \in SUBSET Nat /\ lengths(v) # {}
      BY <1>1
    <2>2. \A w \in walks : w[1] = v => w[2] \in lengths(v)
      OBVIOUS
    <2>3. \A n \in lengths(v) : \E w \in walks : w[1] = v /\ w[2] = n
      OBVIOUS
    <2> HIDE DEF lengths
    <2>4. length(v) \in lengths(v) /\ \A m \in lengths(v) : length(v) <= m
      BY <2>1, LeastNatural
    <2> HIDE DEF length
    <2>5. counts(v) \in SUBSET Nat /\ counts(v) # {}
      BY <1>1, <2>3, <2>4
    <2>6. \A w \in walks : w[1] = v /\ w[2] = length(v) => w[3] \in counts(v)
      OBVIOUS
    <2>7. \A n \in counts(v) : \E w \in walks : w[1] = v /\ w[2] = length(v) /\ w[3] = n
      OBVIOUS
    <2> HIDE DEF counts
    <2>8. count(v) \in counts(v) /\ \A m \in counts(v) : count(v) <= m
      BY <2>5, LeastNatural
    <2> HIDE DEF count
    <2>9. PICK w \in walks : w[1] = v /\ w[2] = length(v) /\ w[3] = count(v)
      BY <2>7, <2>8
    <2>10. <<v, length(v), count(v)>> \in walks
      BY <1>1, <2>9
    <2> QED
      BY <2>1, <2>2, <2>4, <2>5, <2>6, <2>8, <2>10
  <1>4. \A v \in reached : long[v] = length(v) /\ hops[v] = count(v)
    OBVIOUS
  <1>5. \A w \in walks : w[1] \in reached
    OBVIOUS
  <1> HIDE DEF length, count
  <1>6. long \in [reached -> Nat] /\ hops \in [reached -> Nat]
    BY <1>3
  <1>7. \A v \in reached : <<v, long[v], hops[v]>> \in walks
    BY <1>3, <1>4
  <1>8. \A w \in walks : /\ w[1] \in reached /\ long[w[1]] <= w[2]
                         /\ w[2] = long[w[1]] => hops[w[1]] <= w[3]
    BY <1>3, <1>4, <1>5
  <1> HIDE DEF reached, long, hops
  <1>9. source \in reached /\ long[source] = 0 /\ hops[source] = 0
    <2>1. <<source, 0, 0>> \in walks
      BY DEF IsWalking
    <2>2. source \in reached /\ long[source] <= 0 /\ (0 = long[source] => hops[source] <= 0)
      BY <1>8, <2>1
    <2>3. long[source] \in Nat /\ hops[source] \in Nat
      BY <1>6, <2>2
    <2>4. long[source] = 0
      BY <2>2, <2>3
    <2> QED
      BY <2>2, <2>3, <2>4
  <1>10. ASSUME NEW v \in reached, v # source \/ hops[v] > 0
         PROVE  \E u \in reached : /\ {u, v} \in g.edges
                                   /\ long[v] = long[u] + VertexDist(g, u, v)
                                   /\ hops[v] = hops[u] + 1
    <2> DEFINE x == <<v, long[v], hops[v]>>
    <2>1. x \in walks /\ x # <<source, 0, 0>>
      BY <1>7, <1>10
    <2>2. x[1] = v /\ x[2] = long[v] /\ x[3] = hops[v]
      OBVIOUS
    <2> HIDE DEF x
    <2>3. PICK w \in walks : /\ {x[1], w[1]} \in g.edges
                             /\ x[2] = w[2] + VertexDist(g, w[1], x[1]) /\ x[3] = w[3] + 1
      BY <2>1 DEF IsWalking
    <2> DEFINE u == w[1]
               y == <<u, long[u], hops[u]>>
               z == <<v, y[2] + VertexDist(g, u, v), y[3] + 1>>
    <2>4. u \in reached /\ long[u] <= w[2] /\ (w[2] = long[u] => hops[u] <= w[3])
      BY <1>8
    <2>5. y \in walks
      BY <1>7, <2>4
    <2>6. v \in Ids(g) /\ u \in Ids(g) /\ VertexDist(g, u, v) \in Nat
      BY <1>2, <2>4, EdgeLength
    <2>7. {u, v} \in g.edges
      BY <2>2, <2>3
    <2>8. z \in walks
      <3>1. {v, y[1]} \in g.edges /\ y[1] = u
        BY <2>7
      <3> HIDE DEF y
      <3> QED
        BY <2>5, <2>6, <3>1 DEF IsWalking
    <2>9. z[1] = v /\ z[2] = long[u] + VertexDist(g, u, v) /\ z[3] = hops[u] + 1
      OBVIOUS
    <2> HIDE DEF z, y
    <2>10. long[v] <= z[2] /\ (z[2] = long[v] => hops[v] <= z[3])
      BY <1>8, <2>8, <2>9
    <2>11. long[v] = w[2] + VertexDist(g, u, v) /\ hops[v] = w[3] + 1
      BY <2>2, <2>3
    <2>12. long[v] \in Nat /\ hops[v] \in Nat /\ w[2] \in Nat /\ w[3] \in Nat
      BY <1>1, <1>6
    <2> HIDE DEF u
    <2>13. long[u] \in Nat /\ hops[u] \in Nat
      BY <1>6, <2>4
    <2>14. long[u] = w[2]
      BY <2>4, <2>6, <2>9, <2>10, <2>11, <2>12, <2>13
    <2>15. hops[u] = w[3]
      BY <2>4, <2>6, <2>9, <2>10, <2>11, <2>12, <2>13, <2>14
    <2> QED
      BY <2>4, <2>7, <2>11, <2>14, <2>15
  <1>11. ASSUME NEW v \in reached
         PROVE  hops[v] <= g.idCount
    <2> DEFINE n == hops[v]
               image == { hops[u] : u \in reached }
               T == { k \in 0..n : n - k \in image }
    <2>1. n \in Nat
      BY <1>6
    <2> HIDE DEF n
    <2>2. 0 \in T
      BY <2>1 DEF n
    <2>3. ASSUME NEW k \in 1..n, k - 1 \in T
          PROVE  k \in T
      <3>1. PICK u \in reached : hops[u] = n - (k - 1)
        BY <2>3
      <3>2. hops[u] > 0
        BY <2>1, <3>1
      <3>3. PICK t \in reached : hops[u] = hops[t] + 1
        BY <1>10, <3>2
      <3>4. hops[t] = n - k
        BY <1>6, <2>1, <3>1, <3>3
      <3> QED
        BY <3>4
    <2>4. 0..n \subseteq T
      <3> HIDE DEF T
      <3> QED
        BY <2>1, <2>2, <2>3, UpTo
    <2>5. 0..n \in SUBSET image
      <3> SUFFICES ASSUME NEW m \in 0..n
                   PROVE  m \in image
        OBVIOUS
      <3>1. n - m \in 0..n /\ n - (n - m) = m
        BY <2>1
      <3>2. n - m \in T
        BY <2>4, <3>1
      <3>3. n - (n - m) \in image
        BY <3>2
      <3> HIDE DEF image
      <3> QED
        BY <3>1, <3>3
    <2>6. hops \in Surjection(reached, image)
      BY <1>6 DEF Surjection, hops
    <2>7. IsFiniteSet(reached) /\ Cardinality(reached) <= g.idCount + 1
      BY <1>2, SoundGraph, FS_Subset
    <2>8. IsFiniteSet(image) /\ Cardinality(image) <= Cardinality(reached)
      <3> HIDE DEF image
      <3> QED
        BY <2>6, <2>7, FS_Surjection
    <2>9. Cardinality(0..n) <= Cardinality(image)
      BY <2>5, <2>8, FS_Subset
    <2>10. Cardinality(0..n) = n + 1
      BY <2>1, FS_Interval
    <2> HIDE DEF image
    <2>11. Cardinality(image) \in Nat /\ Cardinality(reached) \in Nat /\ g.idCount \in Int
      BY <2>7, <2>8, FS_CardinalityType, SoundGraph
    <2> QED
      BY <2>1, <2>7, <2>8, <2>9, <2>10, <2>11 DEF n
  <1>12. hops \in [reached -> 0..g.idCount]
    BY <1>6, <1>11, SoundGraph
  <1>13. \A v \in reached \ {source} : \E u \in reached :
           /\ {u, v} \in g.edges /\ long[v] = long[u] + VertexDist(g, u, v)
           /\ hops[v] = hops[u] + 1
    BY <1>10
  <1>14. IsNearest(g, source, walks, reached, long, hops)
    BY <1>2, <1>6, <1>7, <1>8, <1>9, <1>12, <1>13 DEF IsNearest
  <1> QED
    BY <1>14

\* The least of some naturals.
LEMMA LeastIsMin ==
    ASSUME NEW S \in SUBSET Nat, NEW n \in S, \A m \in S : n <= m
    PROVE  Min(S) = n
  <1>1. Min(S) \in S /\ \A m \in S : Min(S) <= m
    <2>1. \E k \in S : \A m \in S : k <= m
      OBVIOUS
    <2> QED
      BY <2>1 DEF Min
  <1> DEFINE k == Min(S)
  <1>2. k \in Nat /\ n \in Nat /\ k <= n /\ n <= k
    BY <1>1
  <1> HIDE DEF k
  <1>3. k = n
    BY <1>2
  <1> QED
    BY <1>3 DEF k

\* The distances of the search are those of the first walks, as far as they
\* are distances at all, and so are the numbers of edges.
LEMMA NearestDistances ==
    ASSUME NEW g \in Graphs, NEW source \in Ids(g), NEW walks, IsWalking(g, source, walks),
           Walks(g, source) = Within(walks, g.idCount),
           NEW reached, NEW long, NEW hops, IsNearest(g, source, walks, reached, long, hops),
           NEW v \in Ids(g)
    PROVE  LET d == Shortest(Walks(g, source), v) IN
           /\ d \in Nat /\ d <= Inf
           /\ v \in reached /\ long[v] < Inf => d = long[v]
           /\ d < Inf => v \in reached /\ d = long[v] /\ Hops(Walks(g, source), v, d) = hops[v]
  <1> DEFINE W == Walks(g, source)
             At == { x \in W : x[1] = v }
             S == { w[2] : w \in At } \cup {Inf}
             H(n) == { w[3] : w \in { x \in W : x[1] = v /\ x[2] = n } }
  <1>1. \A w \in W : /\ w \in walks /\ w[3] <= g.idCount
                     /\ w[1] \in Ids(g) /\ w[2] \in Nat /\ w[3] \in Nat
    BY DEF IsWalking, Within
  <1>2. v \in reached => <<v, long[v], hops[v]>> \in W
    <2> SUFFICES ASSUME v \in reached
                 PROVE  <<v, long[v], hops[v]>> \in W
      OBVIOUS
    <2> DEFINE x == <<v, long[v], hops[v]>>
    <2>1. x \in walks /\ x[3] = hops[v] /\ hops[v] \in 0..g.idCount /\ g.idCount \in Int
      BY SoundGraph DEF IsNearest
    <2> HIDE DEF x
    <2>2. x \in W
      BY <2>1 DEF Within
    <2> QED
      BY <2>2 DEF x
  <1>3. \A w \in W : w[1] = v => /\ v \in reached /\ long[v] <= w[2]
                                 /\ w[2] = long[v] => hops[v] <= w[3]
    BY <1>1 DEF IsNearest
  <1>4. Shortest(W, v) = Min(S) /\ \A n : Hops(W, v, n) = Min(H(n))
    BY DEF Shortest, Hops
  <1>5. Inf \in S /\ Inf \in Nat
    BY DEF Inf
  <1>6. S \in SUBSET Nat
    BY <1>1, <1>5
  <1>7. \A m \in S : m = Inf \/ (v \in reached /\ long[v] <= m)
    BY <1>3
  <1>8. v \in reached => long[v] \in S /\ hops[v] \in H(long[v])
    <2> SUFFICES ASSUME v \in reached
                 PROVE  long[v] \in S /\ hops[v] \in H(long[v])
      OBVIOUS
    <2> DEFINE x == <<v, long[v], hops[v]>>
    <2>1. x \in W /\ x[1] = v /\ x[2] = long[v] /\ x[3] = hops[v]
      BY <1>2
    <2> HIDE DEF x, W
    <2> QED
      BY <2>1
  <1>9. H(long[v]) \in SUBSET Nat /\ \A m \in H(long[v]) : hops[v] <= m
    BY <1>1, <1>3
  <1>10. v \in reached => long[v] \in Nat
    BY DEF IsNearest
  <1> HIDE DEF S, H, W
  <1>11. CASE v \in reached /\ long[v] < Inf
    <2>1. \A m \in S : long[v] <= m
      BY <1>5, <1>7, <1>10, <1>11
    <2>2. Min(S) = long[v]
      BY <1>6, <1>8, <1>11, <2>1, LeastIsMin
    <2>3. Min(H(long[v])) = hops[v]
      BY <1>8, <1>9, <1>11, LeastIsMin
    <2> QED
      BY <1>4, <1>5, <1>10, <1>11, <2>2, <2>3 DEF W
  <1>12. CASE ~(v \in reached /\ long[v] < Inf)
    <2>1. \A m \in S : Inf <= m
      BY <1>5, <1>6, <1>7, <1>10, <1>12
    <2>2. Min(S) = Inf
      BY <1>5, <1>6, <2>1, LeastIsMin
    <2> QED
      BY <1>4, <1>5, <1>12, <2>2 DEF W
  <1> QED
    BY <1>11, <1>12

\* One vertex may be relaxed from another.
Relaxes(g, source, walks, dist, u, v) ==
    /\ u # v /\ {u, v} \in g.edges /\ v # source /\ dist[v] < Inf
    /\ dist[u] + VertexDist(g, u, v) = dist[v]
    /\ VertexDist(g, u, v) > 0 \/ Hops(walks, u, dist[u]) < Hops(walks, v, dist[v])

\* The parent of a vertex is one it is relaxed from, if there is one.
LEMMA ParentRelaxes ==
    ASSUME NEW g \in Graphs, NEW source, NEW walks, NEW dist \in [Ids(g) -> Nat], NEW v \in Ids(g)
    PROVE  LET p == Parent(g, source, walks, dist, v) IN
           /\ p \in Ids(g)
           /\ p = v \/ Relaxes(g, source, walks, dist, p, v)
           /\ \A u \in Ids(g) : Relaxes(g, source, walks, dist, u, v) => p # v
  <1> DEFINE before == { u \in Ids(g) \ {v} :
                           /\ {u, v} \in g.edges /\ v # source /\ dist[v] < Inf
                           /\ dist[u] + VertexDist(g, u, v) = dist[v]
                           /\ \/ VertexDist(g, u, v) > 0
                              \/ Hops(walks, u, dist[u]) < Hops(walks, v, dist[v]) }
             first == CHOOSE u \in before :
                          \A w \in before : dist[u] < dist[w] \/ (dist[u] = dist[w] /\ u <= w)
  <1>1. Parent(g, source, walks, dist, v) = IF before = {} THEN v ELSE first
    BY DEF Parent
  <1>2. Ids(g) \subseteq Nat /\ IsFiniteSet(Ids(g)) /\ before \in SUBSET Ids(g)
    BY SoundGraph
  <1>3. \A u : u \in before <=> u \in Ids(g) /\ Relaxes(g, source, walks, dist, u, v)
    BY DEF Relaxes
  <1>4. v \notin before
    OBVIOUS
  <1> HIDE DEF before
  <1>5. before # {} => first \in before
    <2> SUFFICES ASSUME before # {}
                 PROVE  first \in before
      OBVIOUS
    <2>1. IsFiniteSet(before) /\ before \in SUBSET Nat /\ \A u \in before : dist[u] \in Int
      BY <1>2, FS_Subset
    <2>2. \E u \in before :
              \A w \in before : dist[u] < dist[w] \/ (dist[u] = dist[w] /\ u <= w)
      BY <2>1, FirstByMeasure
    <2> QED
      BY <2>2
  <1> HIDE DEF first
  <1> QED
    BY <1>1, <1>2, <1>3, <1>4, <1>5

\* What a search from a vertex of a graph is: a tree of shortest paths.  A
\* vertex at a distance has a parent that is nearer, or reached over fewer
\* edges; one at none is its own parent.  No edge is a short cut.
IsTree(g, source, r, rank) ==
    /\ r.status = TRUE /\ r.source = source
    /\ r.parent \in [Ids(g) -> Ids(g)] /\ r.distance \in [Ids(g) -> 0..Inf]
    /\ r.parent[source] = source /\ r.distance[source] = 0
    /\ rank \in [Ids(g) -> 0..g.idCount]
    /\ \A v \in Ids(g) : LET p == r.parent[v] IN
           p # v => /\ {p, v} \in g.edges /\ r.distance[v] < Inf /\ rank[p] < rank[v]
                    /\ r.distance[p] + VertexDist(g, p, v) = r.distance[v]
    /\ \A v \in Ids(g) \ {source} : r.distance[v] < Inf => r.parent[v] # v
    /\ \A v, u \in Ids(g) : {u, v} \in g.edges =>
           LET d == r.distance[v] + VertexDist(g, v, u) IN d < Inf => r.distance[u] <= d

\* By the order in which vertices are reached, each has a rank.
LEMMA NearestRanks ==
    ASSUME NEW g \in Graphs, NEW source \in Ids(g), NEW walks,
           NEW reached, NEW long, NEW hops, IsNearest(g, source, walks, reached, long, hops)
    PROVE  \E rank \in [Ids(g) -> 0..g.idCount] : \A u, v \in reached :
               long[u] < long[v] \/ (long[u] = long[v] /\ hops[u] < hops[v]) => rank[u] < rank[v]
  <1> DEFINE Lower(u, v) == long[u] < long[v] \/ (long[u] = long[v] /\ hops[u] < hops[v])
             below(v) == { u \in reached : Lower(u, v) }
             rank == [v \in Ids(g) |-> IF v \in reached THEN Cardinality(below(v)) ELSE 0]
  <1>1. \A v \in reached : v \in Ids(g) /\ long[v] \in Nat /\ hops[v] \in Int
    BY SoundGraph DEF IsNearest
  <1>2. IsFiniteSet(reached) /\ Cardinality(reached) <= g.idCount + 1 /\ reached \in SUBSET Ids(g)
    BY SoundGraph, FS_Subset DEF IsNearest
  <1>3. \A v \in reached : ~Lower(v, v)
    BY <1>1
  <1>4. \A u, v, w \in reached : Lower(u, v) /\ Lower(v, w) => Lower(u, w)
    BY <1>1
  <1> HIDE DEF Lower
  <1>5. ASSUME NEW v \in reached
        PROVE  /\ IsFiniteSet(below(v)) /\ Cardinality(below(v)) \in Nat
               /\ Cardinality(below(v)) < Cardinality(reached)
    <2>1. below(v) \in SUBSET reached /\ below(v) # reached
      BY <1>3
    <2> HIDE DEF below
    <2>2. /\ IsFiniteSet(below(v)) /\ Cardinality(below(v)) <= Cardinality(reached)
          /\ Cardinality(below(v)) # Cardinality(reached)
      BY <1>2, <2>1, FS_Subset
    <2>3. Cardinality(below(v)) \in Nat /\ Cardinality(reached) \in Nat
      BY <1>2, <2>2, FS_CardinalityType
    <2> QED
      BY <2>2, <2>3
  <1>6. ASSUME NEW u \in reached, NEW v \in reached, Lower(u, v)
        PROVE  Cardinality(below(u)) < Cardinality(below(v))
    <2>1. below(u) \in SUBSET below(v) /\ u \in below(v) /\ u \notin below(u)
      BY <1>3, <1>4, <1>6
    <2> HIDE DEF below
    <2>2. /\ Cardinality(below(u)) <= Cardinality(below(v))
          /\ Cardinality(below(u)) # Cardinality(below(v))
      BY <1>5, <2>1, FS_Subset
    <2> QED
      BY <1>5, <2>2
  <1> HIDE DEF below
  <1>7. Cardinality(reached) \in Nat /\ g.idCount \in Int /\ g.idCount >= 0
    BY <1>2, FS_CardinalityType, SoundGraph
  <1>8. rank \in [Ids(g) -> 0..g.idCount]
    <2>1. \A v \in reached : Cardinality(below(v)) \in 0..g.idCount
      BY <1>2, <1>5, <1>7
    <2> QED
      BY <1>7, <2>1
  <1>9. \A v \in reached : rank[v] = Cardinality(below(v))
    BY <1>1
  <1> HIDE DEF rank
  <1>10. \A u, v \in reached : Lower(u, v) => rank[u] < rank[v]
    BY <1>6, <1>9
  <1> QED
    BY <1>8, <1>10 DEF Lower

\* findDijkstraShortestPaths, from a vertex of a graph of several.
LEMMA SearchIsTree ==
    ASSUME NEW g \in Graphs, NEW source \in Ids(g), Cardinality(Ids(g)) >= 2
    PROVE  \E rank : IsTree(g, source, ShortestPaths(g, source), rank)
  <1> DEFINE W == Walks(g, source)
             d == [v \in Ids(g) |-> Shortest(W, v)]
             parents == [v \in Ids(g) |-> Parent(g, source, W, d, v)]
             made == [status |-> TRUE, source |-> source, distance |-> d, parent |-> parents]
             r == ShortestPaths(g, source)
  <1>1. r = made
    <2> DEFINE distances(walks) == [v \in Ids(g) |-> Shortest(walks, v)]
               parentsOf(walks, dist) == [v \in Ids(g) |-> Parent(g, source, walks, dist, v)]
               report(walks, dist) == [status |-> TRUE, source |-> source, distance |-> dist,
                                       parent |-> parentsOf(walks, dist)]
    <2>1. ~(Cardinality(Ids(g)) < 2)
      BY SoundGraph
    <2>2. r = CHOOSE x \in { report(walks, distances(walks)) : walks \in {W} } : TRUE
      BY <2>1 DEF ShortestPaths
    <2>3. made = report(W, distances(W))
      OBVIOUS
    <2> HIDE DEF report, distances, made, r, W
    <2> QED
      BY <2>2, <2>3
  <1>2. r.status = TRUE /\ r.source = source /\ r.distance = d /\ r.parent = parents
    BY <1>1
  <1> HIDE DEF r, made
  <1>3. PICK walks : IsWalking(g, source, walks) /\ W = Within(walks, g.idCount)
    BY WalksAreWalks
  <1>4. PICK reached, long, hops : IsNearest(g, source, walks, reached, long, hops)
    BY <1>3, NearestWalks
  <1>5. \A v \in Ids(g) :
            /\ d[v] \in Nat /\ d[v] <= Inf
            /\ v \in reached /\ long[v] < Inf => d[v] = long[v]
            /\ d[v] < Inf => v \in reached /\ d[v] = long[v] /\ Hops(W, v, d[v]) = hops[v]
    <2> TAKE v \in Ids(g)
    <2>1. d[v] = Shortest(W, v)
      OBVIOUS
    <2> HIDE DEF d
    <2>2. Walks(g, source) = Within(walks, g.idCount)
      BY <1>3
    <2> DEFINE e == Shortest(Walks(g, source), v)
    <2>3. /\ e \in Nat /\ e <= Inf
          /\ v \in reached /\ long[v] < Inf => e = long[v]
          /\ e < Inf => v \in reached /\ e = long[v] /\ Hops(Walks(g, source), v, e) = hops[v]
      BY <1>3, <1>4, <2>2, NearestDistances
    <2>4. d[v] = e
      BY <2>1
    <2> HIDE DEF e
    <2> QED
      BY <2>3, <2>4
  <1>6. DOMAIN d = Ids(g) /\ DOMAIN parents = Ids(g)
        /\ \A v \in Ids(g) : parents[v] = Parent(g, source, W, d, v)
    OBVIOUS
  <1>7. d \in [Ids(g) -> Nat]
    <2> SUFFICES ASSUME NEW v \in Ids(g)
                 PROVE  Shortest(W, v) \in Nat
      OBVIOUS
    <2> QED
      BY <1>5
  <1> HIDE DEF d, W
  <1>8. \A v \in Ids(g) :
            /\ parents[v] \in Ids(g)
            /\ parents[v] = v \/ Relaxes(g, source, W, d, parents[v], v)
            /\ \A u \in Ids(g) : Relaxes(g, source, W, d, u, v) => parents[v] # v
    BY <1>6, <1>7, ParentRelaxes
  <1>9. parents \in [Ids(g) -> Ids(g)]
    BY <1>8
  <1> HIDE DEF parents
  <1>10. \A u, v \in Ids(g) : VertexDist(g, u, v) \in Nat
    BY EdgeLength
  <1>11. Inf \in Nat /\ Inf > 0
    BY DEF Inf
  <1>12. PICK rank \in [Ids(g) -> 0..g.idCount] : \A u, v \in reached :
               long[u] < long[v] \/ (long[u] = long[v] /\ hops[u] < hops[v]) => rank[u] < rank[v]
    BY <1>4, NearestRanks
  <1>13. /\ reached \subseteq Ids(g)
         /\ \A v \in reached : long[v] \in Nat /\ hops[v] \in Int
         /\ source \in reached /\ long[source] = 0
    BY <1>4, SoundGraph DEF IsNearest
  <1>14. ASSUME NEW v \in Ids(g), NEW p, p = parents[v], p # v
         PROVE  /\ {p, v} \in g.edges /\ d[v] < Inf /\ rank[p] < rank[v]
                /\ d[p] + VertexDist(g, p, v) = d[v]
    <2>1. p \in Ids(g) /\ Relaxes(g, source, W, d, p, v)
      BY <1>8, <1>14
    <2>2. /\ {p, v} \in g.edges /\ d[v] < Inf /\ d[p] + VertexDist(g, p, v) = d[v]
          /\ VertexDist(g, p, v) > 0 \/ Hops(W, p, d[p]) < Hops(W, v, d[v])
      BY <2>1 DEF Relaxes
    <2>3. d[p] \in Nat /\ d[v] \in Nat /\ VertexDist(g, p, v) \in Nat
      BY <1>7, <1>10, <2>1
    <2>4. d[p] <= d[v] /\ d[p] < Inf
      BY <1>11, <2>2, <2>3
    <2>5. /\ p \in reached /\ d[p] = long[p] /\ Hops(W, p, d[p]) = hops[p]
          /\ v \in reached /\ d[v] = long[v] /\ Hops(W, v, d[v]) = hops[v]
      BY <1>5, <2>1, <2>2, <2>4
    <2>6. long[p] < long[v] \/ (long[p] = long[v] /\ hops[p] < hops[v])
      BY <2>2, <2>3, <2>5
    <2> QED
      BY <1>12, <2>2, <2>5, <2>6
  <1>15. ASSUME NEW v \in Ids(g) \ {source}, d[v] < Inf
         PROVE  parents[v] # v
    <2>1. v \in reached /\ d[v] = long[v] /\ Hops(W, v, d[v]) = hops[v]
      BY <1>5, <1>15
    <2>2. PICK u \in reached : /\ {u, v} \in g.edges
                               /\ long[v] = long[u] + VertexDist(g, u, v)
                               /\ hops[v] = hops[u] + 1
      BY <1>4, <2>1 DEF IsNearest
    <2>3. /\ u \in Ids(g) /\ long[u] \in Nat /\ long[v] \in Nat /\ hops[u] \in Int
          /\ VertexDist(g, u, v) \in Nat
      BY <1>10, <1>13, <2>1
    <2>4. long[u] <= long[v] /\ long[u] < Inf /\ hops[u] < hops[v]
      BY <1>11, <1>15, <2>1, <2>2, <2>3
    <2>5. d[u] = long[u]
      BY <1>5, <2>3, <2>4
    <2>6. d[u] < Inf /\ Hops(W, u, d[u]) = hops[u]
      BY <1>5, <2>3, <2>4, <2>5
    <2>7. u # v
      BY <1>13, <2>4
    <2>8. Relaxes(g, source, W, d, u, v)
      BY <1>15, <2>1, <2>2, <2>4, <2>5, <2>6, <2>7 DEF Relaxes
    <2> QED
      BY <1>8, <2>3, <2>8
  <1>16. d[source] = 0 /\ parents[source] = source
    <2>1. d[source] = 0
      BY <1>5, <1>11, <1>13
    <2>2. ~Relaxes(g, source, W, d, parents[source], source)
      BY DEF Relaxes
    <2> QED
      BY <1>8, <2>1, <2>2
  <1>17. ASSUME NEW v \in Ids(g), NEW u \in Ids(g), {u, v} \in g.edges,
                d[v] + VertexDist(g, v, u) < Inf
         PROVE  d[u] <= d[v] + VertexDist(g, v, u)
    <2>1. d[v] \in Nat /\ d[u] \in Nat /\ VertexDist(g, v, u) \in Nat
      BY <1>7, <1>10
    <2>2. d[v] < Inf
      BY <1>11, <1>17, <2>1
    <2>3. v \in reached /\ d[v] = long[v]
      BY <1>5, <2>2
    <2> DEFINE x == <<v, long[v], hops[v]>>
               y == <<u, x[2] + VertexDist(g, v, u), x[3] + 1>>
    <2>4. x \in walks
      BY <1>4, <2>3 DEF IsNearest
    <2>5. x[1] = v /\ x[2] = long[v]
      OBVIOUS
    <2> HIDE DEF x
    <2>6. y \in walks
      BY <1>3, <1>17, <2>4, <2>5 DEF IsWalking
    <2>7. y[1] = u /\ y[2] = long[v] + VertexDist(g, v, u)
      BY <2>5
    <2> HIDE DEF y
    <2>8. u \in reached /\ long[u] <= long[v] + VertexDist(g, v, u)
      BY <1>4, <2>6, <2>7 DEF IsNearest
    <2>9. long[u] \in Nat /\ long[u] < Inf
      BY <1>11, <1>13, <1>17, <2>1, <2>3, <2>8
    <2> QED
      BY <1>5, <2>3, <2>8, <2>9
  <1>18. d \in [Ids(g) -> 0..Inf]
    BY <1>5, <1>7, <1>11
  <1>19. IsTree(g, source, r, rank)
    BY <1>2, <1>9, <1>14, <1>15, <1>16, <1>17, <1>18 DEF IsTree
  <1> QED
    BY <1>19 DEF r

\* A tree is a report.
LEMMA TreeReports ==
    ASSUME NEW g, NEW source, NEW r, NEW rank, IsTree(g, source, r, rank)
    PROVE  IsReport(r, Ids(g))
  <1>1. r.parent \in [Ids(g) -> Ids(g)] /\ r.distance \in [Ids(g) -> 0..Inf] /\ Inf \in Nat
    BY DEF IsTree, Inf
  <1>2. r.status = TRUE
    BY DEF IsTree
  <1>3. r.distance \in [Ids(g) -> Nat]
    BY <1>1
  <1> QED
    BY <1>1, <1>2, <1>3 DEF IsReport

\* findDijkstraShortestPaths: whatever it is asked, the report is one.
LEMMA SearchReports ==
    ASSUME NEW g \in Graphs, NEW source
    PROVE  IsReport(ShortestPaths(g, source), Ids(g))
  <1> DEFINE none == [NoReport EXCEPT !.source = source]
             r == ShortestPaths(g, source)
  <1>1. CASE source \notin Ids(g) \/ Cardinality(Ids(g)) < 2
    <2>1. r = none
      BY <1>1 DEF ShortestPaths
    <2>2. none.status = FALSE
      BY DEF NoReport
    <2> QED
      BY <2>1, <2>2 DEF IsReport
  <1>2. CASE ~(source \notin Ids(g) \/ Cardinality(Ids(g)) < 2)
    <2>1. source \in Ids(g) /\ Cardinality(Ids(g)) >= 2
      BY <1>2, SoundGraph
    <2>2. PICK rank : IsTree(g, source, r, rank)
      BY <2>1, SearchIsTree
    <2> HIDE DEF r
    <2>3. IsReport(r, Ids(g))
      BY <2>2, TreeReports
    <2> QED
      BY <2>3 DEF r
  <1> QED
    BY <1>1, <1>2

\* The paths to the vertices of a report, of so many steps.
PathTable(r, S, path) ==
    \A m \in Nat, v \in S :
        path[m][v] = IF v = r.source \/ m = 0 THEN <<v>>
                     ELSE Append(path[m - 1][r.parent[v]], v)

\* getShortestPath: the paths a search gives are those of one table.
LEMMA PathsUnfold ==
    ASSUME NEW S, NEW r, IsReport(r, S), r.status
    PROVE  \E path : /\ PathTable(r, S, path)
                     /\ \A target : ShortestPath(r, target)
                          = IF \/ target \notin DOMAIN r.parent
                               \/ target # r.source /\ r.parent[target] = target
                            THEN <<>> ELSE path[Cardinality(S)][target]
  <1> DEFINE D == DOMAIN r.parent
             Recurs(path) == path = [m \in Nat |-> [v \in D |->
                                IF v = r.source \/ m = 0 THEN <<v>>
                                ELSE Append(path[m - 1][r.parent[v]], v)]]
             chosen == CHOOSE path : Recurs(path)
             none(target) == \/ target \notin D
                             \/ target # r.source /\ r.parent[target] = target
  <1>0. \A target : ShortestPath(r, target)
                       = IF none(target) THEN <<>> ELSE chosen[Cardinality(D)][target]
    BY DEF ShortestPath
  <1>1. r.parent \in [S -> S] /\ D = S
    BY DEF IsReport
  <1> DEFINE G == [S -> Seq(S)]
             base == [v \in S |-> <<v>>]
             step == [q \in G |-> [v \in S |-> IF v = r.source THEN <<v>>
                                               ELSE Append(q[r.parent[v]], v)]]
  <1>2. base \in G
    OBVIOUS
  <1>3. step \in [G -> G]
    <2> SUFFICES ASSUME NEW q \in G, NEW v \in S
                 PROVE  (IF v = r.source THEN <<v>> ELSE Append(q[r.parent[v]], v)) \in Seq(S)
      OBVIOUS
    <2>1. q[r.parent[v]] \in Seq(S)
      BY <1>1
    <2> QED
      BY <2>1
  <1>4. PICK it \in [Nat -> G] : Iterates(it, base, step)
    <2> HIDE DEF G, step, base
    <2> QED
      BY <1>2, <1>3, IterationExists
  <1>5. Recurs(it)
    <2> SUFFICES ASSUME NEW m \in Nat
                 PROVE  it[m] = [v \in S |-> IF v = r.source \/ m = 0 THEN <<v>>
                                             ELSE Append(it[m - 1][r.parent[v]], v)]
      BY <1>1, <1>4
    <2>1. CASE m = 0
      BY <1>4, <2>1 DEF Iterates
    <2>2. CASE m # 0
      <3>1. it[m] = step[it[m - 1]] /\ m - 1 \in Nat /\ it[m - 1] \in G
        <4> HIDE DEF step, G, base
        <4> QED
          BY <1>4, <2>2 DEF Iterates
      <3>2. it[m] = [v \in S |-> IF v = r.source THEN <<v>> ELSE Append(it[m - 1][r.parent[v]], v)]
        BY <3>1
      <3> QED
        BY <2>2, <3>2
    <2> QED
      BY <2>1, <2>2
  <1>6. Recurs(chosen)
    <2> HIDE DEF Recurs
    <2> QED
      BY <1>5
  <1>7. \A m \in Nat, v \in S :
           chosen[m][v] = IF v = r.source \/ m = 0 THEN <<v>>
                          ELSE Append(chosen[m - 1][r.parent[v]], v)
    <2> HIDE DEF chosen
    <2> DEFINE at(m) == [v \in S |-> IF v = r.source \/ m = 0 THEN <<v>>
                                     ELSE Append(chosen[m - 1][r.parent[v]], v)]
    <2>1. chosen = [m \in Nat |-> at(m)]
      BY <1>1, <1>6
    <2>2. \A m \in Nat : chosen[m] = at(m)
      <3> HIDE DEF at
      <3> QED
        BY <2>1
    <2> HIDE DEF Recurs
    <2> SUFFICES ASSUME NEW m \in Nat, NEW v \in S
                 PROVE  chosen[m][v] = IF v = r.source \/ m = 0 THEN <<v>>
                                       ELSE Append(chosen[m - 1][r.parent[v]], v)
      OBVIOUS
    <2>3. chosen[m] = at(m)
      BY <2>2, Zenon
    <2>4. chosen[m][v] = at(m)[v]
      BY <2>3, Zenon
    <2> QED
      BY <2>4
  <1> HIDE DEF chosen, Recurs, G, step, base
  <1>8. PathTable(r, S, chosen)
    BY <1>7 DEF PathTable
  <1>9. \A target : ShortestPath(r, target)
                       = IF none(target) THEN <<>> ELSE chosen[Cardinality(S)][target]
    <2> HIDE DEF none
    <2> QED
      BY <1>0, <1>1
  <1> QED
    BY <1>8, <1>9

\* getShortestPath: there is no path, or it is one of the table.
LEMMA PathUnfolds ==
    ASSUME NEW S, NEW r, IsReport(r, S), NEW target
    PROVE  LET none == \/ ~r.status \/ target \notin DOMAIN r.parent
                       \/ target # r.source /\ r.parent[target] = target
           IN  /\ none => ShortestPath(r, target) = <<>>
               /\ ~none => /\ target \in S
                           /\ \E path : /\ PathTable(r, S, path)
                                        /\ ShortestPath(r, target) = path[Cardinality(S)][target]
  <1> DEFINE none == \/ ~r.status \/ target \notin DOMAIN r.parent
                     \/ target # r.source /\ r.parent[target] = target
  <1>1. none => ShortestPath(r, target) = <<>>
    BY DEF ShortestPath
  <1>2. ASSUME ~none
        PROVE  /\ target \in S
               /\ \E path : /\ PathTable(r, S, path)
                            /\ ShortestPath(r, target) = path[Cardinality(S)][target]
    <2>1. r.status /\ target \in S
      BY <1>2 DEF IsReport
    <2>2. PICK path : /\ PathTable(r, S, path)
                      /\ \A v : ShortestPath(r, v)
                            = IF \/ v \notin DOMAIN r.parent
                                 \/ v # r.source /\ r.parent[v] = v
                              THEN <<>> ELSE path[Cardinality(S)][v]
      BY <2>1, PathsUnfold
    <2>3. ShortestPath(r, target) = path[Cardinality(S)][target]
      BY <1>2, <2>2
    <2> QED
      BY <2>1, <2>2, <2>3
  <1> QED
    BY <1>1, <1>2

\* getShortestPath: a sequence of vertices the report knows.
LEMMA PathIsOfVertices ==
    ASSUME NEW S, IsFiniteSet(S), NEW r, IsReport(r, S), NEW target
    PROVE  ShortestPath(r, target) \in Seq(S)
  <1> DEFINE n == Cardinality(S)
             none == \/ ~r.status \/ target \notin DOMAIN r.parent
                     \/ target # r.source /\ r.parent[target] = target
  <1>1. /\ none => ShortestPath(r, target) = <<>>
        /\ ~none => /\ target \in S
                    /\ \E path : /\ PathTable(r, S, path)
                                 /\ ShortestPath(r, target) = path[n][target]
    BY PathUnfolds
  <1>2. CASE none
    <2> HIDE DEF none
    <2> QED
      BY <1>1, <1>2
  <1>3. CASE ~none
    <2>1. r.parent \in [S -> S] /\ target \in S
      BY <1>1, <1>3 DEF IsReport
    <2>2. PICK path : PathTable(r, S, path) /\ ShortestPath(r, target) = path[n][target]
      <3> HIDE DEF none, n
      <3> QED
        BY <1>1, <1>3
    <2>3. \A m \in Nat, v \in S :
             path[m][v] = IF v = r.source \/ m = 0 THEN <<v>>
                          ELSE Append(path[m - 1][r.parent[v]], v)
      BY <2>2 DEF PathTable
    <2> HIDE DEF none
    <2> DEFINE T == { m \in 0..n : \A v \in S : path[m][v] \in Seq(S) }
    <2>4. n \in Nat
      BY FS_CardinalityType
    <2>5. 0 \in T
      <3>1. \A v \in S : path[0][v] = <<v>>
        BY <2>3
      <3>2. 0 \in 0..n
        BY <2>4
      <3>3. ASSUME NEW v \in S
            PROVE  path[0][v] \in Seq(S)
        <4>1. path[0][v] = <<v>>
          BY <3>1
        <4>2. <<v>> \in Seq(S)
          OBVIOUS
        <4> QED
          BY <4>1, <4>2, Zenon
      <3> HIDE DEF n
      <3> QED
        BY <3>2, <3>3
    <2>6. \A m \in 1..n : m - 1 \in T => m \in T
      <3> SUFFICES ASSUME NEW m \in 1..n, m - 1 \in T, NEW v \in S
                   PROVE  path[m][v] \in Seq(S)
        BY <2>4
      <3>1. m \in Nat /\ path[m - 1][r.parent[v]] \in Seq(S)
        BY <2>1
      <3>2. path[m][v] = <<v>> \/ path[m][v] = Append(path[m - 1][r.parent[v]], v)
        BY <2>3, <3>1
      <3> DEFINE before == path[m - 1][r.parent[v]]
      <3>3. before \in Seq(S)
        BY <3>1
      <3> HIDE DEF before
      <3>4. Append(before, v) \in Seq(S) /\ <<v>> \in Seq(S)
        BY <3>3
      <3> QED
        BY <3>2, <3>4 DEF before
    <2> HIDE DEF T, n
    <2>7. n \in T
      <3>1. 0..n \subseteq T
        BY <2>4, <2>5, <2>6, UpTo
      <3> QED
        BY <2>4, <3>1
    <2>8. path[n][target] \in Seq(S)
      BY <2>1, <2>7 DEF T
    <2> QED
      BY <2>2, <2>8 DEF n
  <1> QED
    BY <1>2, <1>3

\* A path of the tree of a search: from the source, along its edges.
Leads(g, source, r, path, v) ==
    /\ path \in Seq(Ids(g)) /\ path # <<>> /\ path[1] = source /\ path[Len(path)] = v
    /\ \A i \in 1..(Len(path) - 1) :
           /\ {path[i], path[i + 1]} \in g.edges
           /\ r.distance[path[i]] + VertexDist(g, path[i], path[i + 1]) = r.distance[path[i + 1]]

\* It leads on to a vertex its end is the parent of.
LEMMA LeadsOn ==
    ASSUME NEW g, NEW source, NEW r, NEW path, NEW p, Leads(g, source, r, path, p),
           NEW v \in Ids(g), {p, v} \in g.edges,
           r.distance[p] + VertexDist(g, p, v) = r.distance[v]
    PROVE  Leads(g, source, r, Append(path, v), v)
  <1> DEFINE next == Append(path, v)
             n == Len(path)
  <1>1. path \in Seq(Ids(g)) /\ n \in Nat /\ n >= 1 /\ path[1] = source /\ path[n] = p
    BY DEF Leads
  <1>2. /\ next \in Seq(Ids(g)) /\ Len(next) = n + 1 /\ next # <<>>
        /\ next[n + 1] = v /\ \A i \in 1..n : next[i] = path[i]
    BY <1>1
  <1> HIDE DEF next, n
  <1>3. next[1] = source /\ next[Len(next)] = v
    BY <1>1, <1>2
  <1>4. ASSUME NEW i \in 1..(Len(next) - 1)
        PROVE  /\ {next[i], next[i + 1]} \in g.edges
               /\ r.distance[next[i]] + VertexDist(g, next[i], next[i + 1]) = r.distance[next[i + 1]]
    <2>1. i \in 1..n
      BY <1>1, <1>2
    <2>2. CASE i = n
      BY <1>1, <1>2, <2>1, <2>2
    <2>3. CASE i # n
      <3>1. i \in 1..(n - 1) /\ i + 1 \in 1..n
        BY <1>1, <2>1, <2>3
      <3>2. next[i] = path[i] /\ next[i + 1] = path[i + 1]
        BY <1>2, <2>1, <3>1
      <3> QED
        BY <3>1, <3>2 DEF Leads, n
    <2> QED
      BY <2>2, <2>3
  <1> QED
    BY <1>2, <1>3, <1>4 DEF Leads, next

\* getShortestPath after findDijkstraShortestPaths: a vertex that has a
\* distance has a path that leads to it, of that length; another has none.
LEMMA PathLeads ==
    ASSUME NEW g \in Graphs, NEW source \in Ids(g), NEW r, NEW rank, IsTree(g, source, r, rank),
           NEW target \in Ids(g)
    PROVE  /\ r.distance[target] < Inf => Leads(g, source, r, ShortestPath(r, target), target)
           /\ ~(r.distance[target] < Inf) => ShortestPath(r, target) = <<>>
  <1> DEFINE none == \/ ~r.status \/ target \notin DOMAIN r.parent
                     \/ target # r.source /\ r.parent[target] = target
             S == Ids(g)
  <1>1. /\ r.status = TRUE /\ r.source = source /\ DOMAIN r.parent = S
        /\ r.parent \in [S -> S] /\ r.distance \in [S -> Nat]
    <2>1. r.parent \in [S -> S] /\ r.distance \in [S -> 0..Inf] /\ Inf \in Nat
      BY DEF IsTree, Inf
    <2>2. r.distance \in [S -> Nat] /\ DOMAIN r.parent = S
      BY <2>1
    <2>3. r.status = TRUE /\ r.source = source
      BY DEF IsTree
    <2> QED
      BY <2>1, <2>2, <2>3
  <1>2. IsReport(r, S)
    BY <1>1 DEF IsReport
  <1>3. /\ none => ShortestPath(r, target) = <<>>
        /\ ~none => \E path : /\ PathTable(r, S, path)
                              /\ ShortestPath(r, target) = path[Cardinality(S)][target]
    BY <1>2, PathUnfolds
  <1>4. none <=> ~(r.distance[target] < Inf)
    <2>1. none <=> target # source /\ r.parent[target] = target
      BY <1>1
    <2>2. r.distance[source] < Inf
      BY DEF IsTree, Inf
    <2> QED
      BY <2>1, <2>2 DEF IsTree
  <1>5. ASSUME r.distance[target] < Inf
        PROVE  Leads(g, source, r, ShortestPath(r, target), target)
    <2> HIDE DEF none
    <2>1. PICK path : /\ PathTable(r, S, path)
                      /\ ShortestPath(r, target) = path[Cardinality(S)][target]
      BY <1>3, <1>4, <1>5
    <2> DEFINE n == Cardinality(S)
               T == { m \in 0..n : \A v \in S : r.distance[v] < Inf /\ rank[v] <= m
                                        => Leads(g, source, r, path[m][v], v) }
    <2>2. n \in Nat /\ g.idCount \in Int /\ n = g.idCount + 1
      BY SoundGraph, FS_CardinalityType
    <2> HIDE DEF n
    <2>3. Leads(g, source, r, <<source>>, source)
      BY DEF Leads
    <2>4. \A v \in S : rank[v] \in Nat
      BY <2>2 DEF IsTree
    <2>5. ASSUME NEW v \in S, v # source, r.distance[v] < Inf
          PROVE  /\ r.parent[v] \in S /\ {r.parent[v], v} \in g.edges
                 /\ r.distance[r.parent[v]] < Inf /\ rank[r.parent[v]] < rank[v]
                 /\ r.distance[r.parent[v]] + VertexDist(g, r.parent[v], v) = r.distance[v]
      <3> DEFINE p == r.parent[v]
      <3>1. p # v /\ p \in S
        BY <1>1, <2>5 DEF IsTree
      <3>2. /\ {p, v} \in g.edges /\ rank[p] < rank[v]
            /\ r.distance[p] + VertexDist(g, p, v) = r.distance[v]
        BY <3>1 DEF IsTree
      <3> HIDE DEF p
      <3>3. r.distance[p] \in Nat /\ r.distance[v] \in Nat /\ VertexDist(g, p, v) \in Nat
        BY <1>1, <3>1, EdgeLength
      <3>4. r.distance[p] < Inf
        BY <2>5, <3>2, <3>3 DEF Inf
      <3> QED
        BY <3>1, <3>2, <3>4 DEF p
    <2>6. 0 \in T
      <3> SUFFICES ASSUME NEW v \in S, r.distance[v] < Inf, rank[v] <= 0
                   PROVE  Leads(g, source, r, path[0][v], v)
        BY <2>2
      <3>1. v = source
        <4> SUFFICES ASSUME v # source
                     PROVE  FALSE
          OBVIOUS
        <4>1. r.parent[v] \in S /\ rank[r.parent[v]] < rank[v]
          BY <2>5
        <4>2. rank[r.parent[v]] \in Nat /\ rank[v] \in Nat
          BY <2>4, <4>1
        <4> QED
          BY <4>1, <4>2
      <3>2. path[0][v] = <<v>>
        BY <2>1 DEF PathTable
      <3> QED
        BY <2>3, <3>1, <3>2
    <2>7. ASSUME NEW m \in 1..n, m - 1 \in T
          PROVE  m \in T
      <3> SUFFICES ASSUME NEW v \in S, r.distance[v] < Inf, rank[v] <= m
                   PROVE  Leads(g, source, r, path[m][v], v)
        BY <2>2
      <3>1. m \in Nat /\ m # 0
        BY <2>2
      <3>2. path[m][v] = IF v = r.source \/ m = 0 THEN <<v>>
                         ELSE Append(path[m - 1][r.parent[v]], v)
        BY <2>1, <3>1 DEF PathTable
      <3>3. CASE v = source
        BY <1>1, <2>3, <3>2, <3>3
      <3>4. CASE v # source
        <4> DEFINE p == r.parent[v]
        <4>1. /\ p \in S /\ {p, v} \in g.edges /\ r.distance[p] < Inf /\ rank[p] < rank[v]
              /\ r.distance[p] + VertexDist(g, p, v) = r.distance[v]
          BY <2>5, <3>4
        <4>2. path[m][v] = Append(path[m - 1][p], v)
          BY <1>1, <3>1, <3>2, <3>4
        <4> HIDE DEF p
        <4>3. rank[p] <= m - 1
          BY <2>4, <3>1, <4>1
        <4>4. Leads(g, source, r, path[m - 1][p], p)
          BY <2>7, <4>1, <4>3
        <4>5. Leads(g, source, r, Append(path[m - 1][p], v), v)
          BY <4>1, <4>4, LeadsOn
        <4> QED
          BY <4>2, <4>5
      <3> QED
        BY <3>3, <3>4
    <2> HIDE DEF T
    <2>8. n \in T
      <3>1. 0..n \subseteq T
        BY <2>2, <2>6, <2>7, UpTo
      <3> QED
        BY <2>2, <3>1
    <2>9. rank[target] <= n
      BY <2>2 DEF IsTree
    <2>10. Leads(g, source, r, path[n][target], target)
      BY <1>5, <2>8, <2>9 DEF T
    <2> QED
      BY <2>1, <2>10 DEF n
  <1> HIDE DEF none
  <1> QED
    BY <1>3, <1>4, <1>5

-----------------------------------------------------------------------------
(* A graph in one piece is searched whole.                                 *)

\* Walks from the root end at every vertex of it.
LEMMA LinkedIsReachable ==
    ASSUME NEW g \in Graphs, Linked(g)
    PROVE  AllReachable(g)
  <1> SUFFICES ASSUME Cardinality(Ids(g)) >= 2
               PROVE  Ids(g) = { w[1] : w \in Walks(g, 0) }
    BY DEF AllReachable
  <1>1. 0 \in Ids(g)
    <2>1. Ids(g) = 0..g.idCount /\ g.idCount \in Int /\ Cardinality(Ids(g)) = g.idCount + 1
      BY SoundGraph
    <2> QED
      BY <2>1
  <1>2. PICK walks : IsWalking(g, 0, walks) /\ Walks(g, 0) = Within(walks, g.idCount)
    BY <1>1, WalksAreWalks
  <1>3. PICK reached, long, hops : IsNearest(g, 0, walks, reached, long, hops)
    BY <1>1, <1>2, NearestWalks
  <1>4. ASSUME NEW v \in reached, NEW u \in Ids(g), {u, v} \in g.edges
        PROVE  u \in reached
    <2> DEFINE w == <<v, long[v], hops[v]>>
               x == <<u, w[2] + VertexDist(g, w[1], u), w[3] + 1>>
    <2>1. w \in walks /\ w[1] = v
      BY <1>3 DEF IsNearest
    <2> HIDE DEF w
    <2>2. x \in walks /\ x[1] = u
      BY <1>2, <1>4, <2>1 DEF IsWalking
    <2> HIDE DEF x
    <2> QED
      BY <1>3, <2>2 DEF IsNearest
  <1>5. reached = Ids(g)
    <2>1. reached \in SUBSET Ids(g) /\ 0 \in reached
      BY <1>3 DEF IsNearest
    <2> QED
      BY <1>4, <2>1 DEF Linked
  <1>6. ASSUME NEW v \in Ids(g)
        PROVE  \E w \in Walks(g, 0) : w[1] = v
    <2> DEFINE w == <<v, long[v], hops[v]>>
    <2>1. w \in walks /\ hops[v] <= g.idCount
      BY <1>3, <1>5, SoundGraph DEF IsNearest
    <2>2. w[1] = v /\ w[3] = hops[v]
      OBVIOUS
    <2> HIDE DEF w
    <2>3. w \in Within(walks, g.idCount)
      BY <2>1, <2>2 DEF Within
    <2> QED
      BY <1>2, <2>2, <2>3
  <1>7. \A w \in Walks(g, 0) : w[1] \in Ids(g)
    BY <1>2 DEF IsWalking, Within
  <1> QED
    BY <1>6, <1>7

\* A distance is a number of edges, each as long as an edge may be.
LEMMA RankedDistance ==
    ASSUME NEW far \in Nat, NEW a \in Nat, NEW b \in Nat, a < b
    PROVE  far * a + far <= far * b
  <1>1. PICK c \in Nat : b = a + 1 + c
    <2>1. b - a - 1 \in Nat /\ b = a + 1 + (b - a - 1)
      OBVIOUS
    <2> QED
      BY <2>1
  <1>2. far * b = far * a + far + far * c
    BY <1>1
  <1>3. far * c \in Nat /\ far * a \in Nat
    OBVIOUS
  <1> QED
    BY <1>2, <1>3

\* Where no path is as long as the largest double, the search from the root
\* finds every vertex.
LEMMA SearchReaches ==
    ASSUME NEW g \in Graphs, Linked(g), Cardinality(Ids(g)) >= 2,
           NEW far \in Nat, \A p, q \in Places : Dist(p, q) <= far,
           far * (g.idCount + 1) < Inf
    PROVE  \A v \in Ids(g) : ShortestPaths(g, 0).distance[v] < Inf
  <1> DEFINE r == ShortestPaths(g, 0)
             n == g.idCount
             S == { v \in Ids(g) : r.distance[v] < Inf }
  <1>1. /\ 0 \in Ids(g) /\ n \in Nat /\ Inf \in Nat /\ Inf > 0
        /\ \A v \in Ids(g) : g.vertex[v].place \in Places
    <2>1. Ids(g) = 0..n /\ n \in Int /\ Cardinality(Ids(g)) = n + 1
      BY SoundGraph
    <2> QED
      BY <2>1, SoundGraph DEF Inf
  <1>2. PICK rank : IsTree(g, 0, r, rank)
    BY <1>1, SearchIsTree
  <1>3. /\ r.distance \in [Ids(g) -> Nat] /\ rank \in [Ids(g) -> 0..n]
        /\ r.parent \in [Ids(g) -> Ids(g)] /\ r.distance[0] = 0
    <2>1. r.distance \in [Ids(g) -> 0..Inf] /\ Inf \in Nat
      BY <1>1, <1>2 DEF IsTree
    <2>2. r.distance \in [Ids(g) -> Nat]
      BY <2>1
    <2> QED
      BY <1>2, <2>2 DEF IsTree
  <1>4. \A v \in S \ {0} : \E p \in S : /\ rank[p] < rank[v]
                                        /\ r.distance[v] = r.distance[p] + VertexDist(g, p, v)
    <2> SUFFICES ASSUME NEW v \in S \ {0}
                 PROVE  \E p \in S : /\ rank[p] < rank[v]
                                     /\ r.distance[v] = r.distance[p] + VertexDist(g, p, v)
      OBVIOUS
    <2> DEFINE p == r.parent[v]
    <2>1. /\ p \in Ids(g) /\ rank[p] < rank[v] /\ r.distance[v] < Inf
          /\ r.distance[p] + VertexDist(g, p, v) = r.distance[v]
      BY <1>2, <1>3 DEF IsTree
    <2>2. r.distance[p] \in Nat /\ VertexDist(g, p, v) \in Nat /\ r.distance[v] \in Nat
      BY <1>3, <2>1, EdgeLength
    <2>3. r.distance[p] < Inf
      BY <1>1, <2>1, <2>2
    <2> QED
      BY <2>1, <2>3
  <1>5. \A u, v \in Ids(g) : VertexDist(g, u, v) \in Nat /\ VertexDist(g, u, v) <= far
    BY <1>1, EdgeLength DEF VertexDist
  <1>6. \A v \in Ids(g), u \in Ids(g) : {u, v} \in g.edges =>
            LET d == r.distance[v] + VertexDist(g, v, u) IN d < Inf => r.distance[u] <= d
    BY <1>2 DEF IsTree
  <1>7. S \subseteq Ids(g) /\ 0 \in S
    BY <1>1, <1>3
  <1> DEFINE T == { m \in 0..n : \A v \in S : rank[v] <= m => r.distance[v] <= far * rank[v] }
  <1>8. \A v \in S : rank[v] <= n => r.distance[v] <= far * rank[v]
    <2>1. ASSUME NEW m \in 0..n, \A v \in S : rank[v] < m => r.distance[v] <= far * rank[v]
          PROVE  m \in T
      <3> SUFFICES ASSUME NEW v \in S, rank[v] <= m
                   PROVE  r.distance[v] <= far * rank[v]
        OBVIOUS
      <3>1. CASE v = 0
        <4>1. far * rank[v] \in Nat
          BY <1>3, <1>7
        <4> QED
          BY <1>3, <3>1, <4>1
      <3>2. CASE v # 0
        <4>1. PICK p \in S : /\ rank[p] < rank[v]
                              /\ r.distance[v] = r.distance[p] + VertexDist(g, p, v)
          BY <1>4, <3>2
        <4>2. /\ rank[p] \in Nat /\ rank[v] \in Nat
              /\ r.distance[p] \in Nat /\ VertexDist(g, p, v) \in Nat
              /\ VertexDist(g, p, v) <= far
          BY <1>3, <1>5, <1>7
        <4>3. r.distance[p] <= far * rank[p]
          BY <2>1, <4>1, <4>2
        <4>4. far * rank[p] + far <= far * rank[v] /\ far * rank[p] \in Nat /\ far * rank[v] \in Nat
          BY <4>1, <4>2, RankedDistance
        <4> QED
          BY <4>1, <4>2, <4>3, <4>4
      <3> QED
        BY <3>1, <3>2
    <2> HIDE DEF S, r
    <2>2. 0 \in T
      <3>1. \A v \in S : ~(rank[v] < 0)
        BY <1>3, <1>7
      <3>2. 0 \in 0..n
        BY <1>1
      <3> HIDE DEF T
      <3> QED
        BY <2>1, <3>1, <3>2
    <2>3. \A m \in 1..n : m - 1 \in T => m \in T
      <3> SUFFICES ASSUME NEW m \in 1..n, m - 1 \in T
                   PROVE  m \in T
        OBVIOUS
      <3>1. \A v \in S : rank[v] < m => rank[v] <= m - 1
        BY <1>1, <1>3, <1>7
      <3>2. \A v \in S : rank[v] < m => r.distance[v] <= far * rank[v]
        BY <3>1
      <3>3. m \in 0..n
        BY <1>1
      <3> HIDE DEF T
      <3> QED
        BY <2>1, <3>2, <3>3
    <2>4. n \in T
      <3>1. n \in 0..n
        BY <1>1
      <3> HIDE DEF T
      <3> QED
        BY <1>1, <2>2, <2>3, <3>1, UpTo
    <2> QED
      BY <2>4
  <1> HIDE DEF T
  <1>9. ASSUME NEW v \in S, NEW u \in Ids(g), {u, v} \in g.edges
        PROVE  u \in S
    <2>1. rank[v] \in 0..n /\ r.distance[v] \in Nat /\ r.distance[u] \in Nat
      BY <1>3, <1>7
    <2>2. r.distance[v] <= far * rank[v]
      BY <1>1, <1>8, <2>1
    <2>3. far * rank[v] + far <= far * (n + 1) /\ far * rank[v] \in Nat /\ far * (n + 1) \in Nat
      <3>1. rank[v] \in Nat /\ n + 1 \in Nat /\ rank[v] < n + 1
        BY <1>1, <2>1
      <3> QED
        BY <3>1, RankedDistance
    <2>4. VertexDist(g, v, u) \in Nat /\ VertexDist(g, v, u) <= far
      BY <1>5, <1>7
    <2>5. r.distance[v] + VertexDist(g, v, u) < Inf
      BY <1>1, <2>1, <2>2, <2>3, <2>4
    <2>6. r.distance[u] <= r.distance[v] + VertexDist(g, v, u)
      BY <1>6, <1>7, <1>9, <2>5
    <2> QED
      BY <1>1, <2>1, <2>4, <2>5, <2>6
  <1>10. S \in SUBSET Ids(g)
    BY <1>7
  <1> HIDE DEF S
  <1>11. S = Ids(g)
    BY <1>7, <1>9, <1>10 DEF Linked
  <1> QED
    BY <1>11 DEF S

\* So there is a path to every vertex.
LEMMA PathsReach ==
    ASSUME NEW g \in Graphs, Linked(g), Cardinality(Ids(g)) >= 2,
           NEW far \in Nat, \A p, q \in Places : Dist(p, q) <= far,
           far * (g.idCount + 1) < Inf, NEW v \in Ids(g)
    PROVE  Leads(g, 0, ShortestPaths(g, 0), ShortestPath(ShortestPaths(g, 0), v), v)
  <1> DEFINE r == ShortestPaths(g, 0)
  <1>1. 0 \in Ids(g)
    <2>1. Ids(g) = 0..g.idCount /\ g.idCount \in Int /\ Cardinality(Ids(g)) = g.idCount + 1
      BY SoundGraph
    <2> QED
      BY <2>1
  <1>2. PICK rank : IsTree(g, 0, r, rank)
    BY <1>1, SearchIsTree
  <1>3. r.distance[v] < Inf
    BY SearchReaches
  <1> HIDE DEF r
  <1>4. Leads(g, 0, r, ShortestPath(r, v), v)
    BY <1>1, <1>2, <1>3, PathLeads
  <1> QED
    BY <1>4 DEF r

\* The vertices along a path.
LEMMA VerticesOfPath ==
    ASSUME NEW g \in Graphs, NEW path \in Seq(Ids(g))
    PROVE  PathVertices(g, path) \in Seq(Vertices)
  <1> DEFINE p == PathVertices(g, path)
             n == Len(path)
  <1>1. /\ p = [i \in 1..n |-> g.vertex[path[i]]] /\ n \in Nat
        /\ \A i \in 1..n : path[i] \in Ids(g)
    BY DEF PathVertices
  <1> HIDE DEF p, n, Vertices
  <1>2. \A i \in 1..n : g.vertex[path[i]] \in Vertices
    BY <1>1, SoundGraph
  <1>3. p \in [1..n -> Vertices]
    BY <1>1, <1>2
  <1>4. p \in Seq(Vertices)
    BY <1>1, <1>3
  <1> QED
    BY <1>4 DEF p

-----------------------------------------------------------------------------
(* Leaves and what their paths show.                                       *)

\* A path to a vertex is one to its parent, and one step more.
LEMMA PathGoesOn ==
    ASSUME NEW g \in Graphs, NEW source \in Ids(g), NEW r, NEW rank, IsTree(g, source, r, rank),
           \A v \in Ids(g) : r.distance[v] < Inf, NEW target \in Ids(g)
    PROVE  ShortestPath(r, target)
               = IF target = source THEN <<target>>
                 ELSE Append(ShortestPath(r, r.parent[target]), target)
  <1> DEFINE S == Ids(g)
             n == Cardinality(S)
  <1>1. /\ r.status = TRUE /\ r.source = source /\ r.parent \in [S -> S]
        /\ rank \in [S -> 0..g.idCount]
        /\ \A v \in S \ {source} : r.parent[v] # v
        /\ \A v \in S \ {source} : rank[r.parent[v]] < rank[v]
    BY DEF IsTree
  <1>2. n \in Nat /\ g.idCount \in Int /\ n = g.idCount + 1 /\ \A v \in S : rank[v] \in Nat
    BY <1>1, SoundGraph, FS_CardinalityType
  <1>3. IsReport(r, S)
    BY TreeReports
  <1>4. PICK path : /\ PathTable(r, S, path)
                    /\ \A v : ShortestPath(r, v)
                          = IF \/ v \notin DOMAIN r.parent
                               \/ v # r.source /\ r.parent[v] = v
                            THEN <<>> ELSE path[n][v]
    <2>1. r.status
      BY <1>1
    <2> QED
      BY <1>3, <2>1, PathsUnfold
  <1>5. \A v \in S : ShortestPath(r, v) = path[n][v]
    BY <1>1, <1>4
  <1> HIDE DEF n, S
  <1>6. \A m \in Nat, v \in S : path[m][v] = IF v = source \/ m = 0 THEN <<v>>
                                               ELSE Append(path[m - 1][r.parent[v]], v)
    BY <1>1, <1>4 DEF PathTable
  <1>7. \A m \in Nat : path[m][source] = <<source>>
    <2> SUFFICES ASSUME NEW m \in Nat
                 PROVE  path[m][source] = <<source>>
      OBVIOUS
    <2>1. source \in S
      BY DEF S
    <2> QED
      BY <1>6, <2>1
  <1>8. \A m \in Nat, v \in S :
            m # 0 /\ v # source => path[m][v] = Append(path[m - 1][r.parent[v]], v)
    <2> SUFFICES ASSUME NEW m \in Nat, NEW v \in S, m # 0, v # source
                 PROVE  path[m][v] = Append(path[m - 1][r.parent[v]], v)
      OBVIOUS
    <2> QED
      BY <1>6
  <1> DEFINE Settled(k) == \A v \in S : rank[v] <= k => \A m \in Nat : m >= k => path[m][v] = path[k][v]
             T == { k \in 0..n : Settled(k) }
  <1>9. 0 \in T
    <2>1. ASSUME NEW v \in S, rank[v] <= 0
          PROVE  v = source
      BY <1>1, <1>2, <2>1
    <2>2. \A m \in Nat : path[m][source] = <<source>>
      BY <1>6 DEF S
    <2>3. 0 \in 0..n /\ 0 \in Nat
      BY <1>2
    <2>4. Settled(0)
      BY <2>1, <2>2
    <2> HIDE DEF Settled
    <2> QED
      BY <2>3, <2>4
  <1>10. ASSUME NEW k \in 1..n, k - 1 \in T
        PROVE  k \in T
    <2>1. ASSUME NEW v \in S, rank[v] <= k, NEW m \in Nat, m >= k
          PROVE  path[m][v] = path[k][v]
      <3>1. CASE v = source
        <4>1. k \in Nat
          BY <1>2
        <4> QED
          BY <1>7, <2>1, <3>1, <4>1
      <3>2. CASE v # source
        <4> DEFINE p == r.parent[v]
        <4>1. p \in S /\ rank[p] <= k - 1
          <5>1. p \in S /\ rank[p] < rank[v]
            BY <1>1, <3>2
          <5>2. rank[p] \in Nat /\ rank[v] \in Nat
            BY <1>2, <5>1
          <5> HIDE DEF p
          <5> QED
            BY <2>1, <5>1, <5>2
        <4>2. path[m][v] = Append(path[m - 1][p], v) /\ path[k][v] = Append(path[k - 1][p], v)
          <5>1. k \in Nat /\ k # 0 /\ m \in Nat /\ m # 0
            BY <1>2, <2>1
          <5> QED
            BY <1>8, <3>2, <5>1
        <4> HIDE DEF p
        <4>3. path[m - 1][p] = path[k - 1][p]
          <5>1. m - 1 \in Nat /\ m - 1 >= k - 1
            BY <1>2, <2>1
          <5>2. Settled(k - 1)
            BY <1>10
          <5> QED
            BY <4>1, <5>1, <5>2
        <4> QED
          BY <4>2, <4>3
      <3> QED
        BY <3>1, <3>2
    <2>2. k \in 0..n
      BY <1>2
    <2>3. Settled(k)
      BY <2>1
    <2> HIDE DEF Settled
    <2> QED
      BY <2>2, <2>3
  <1>11. \A k \in 0..n : Settled(k)
    <2> HIDE DEF Settled
    <2>1. 0..n \subseteq T
      <3> HIDE DEF T
      <3> QED
        BY <1>2, <1>9, <1>10, UpTo
    <2> QED
      BY <2>1
  <1>12. CASE target = source
    BY <1>2, <1>5, <1>7, <1>12 DEF S
  <1>13. CASE target # source
    <2> DEFINE p == r.parent[target]
    <2>1. p \in S /\ target \in S /\ rank[p] < rank[target] /\ rank[target] \in 0..g.idCount
      BY <1>1, <1>13 DEF S
    <2>2. n > 0 /\ n - 1 \in 0..n /\ rank[p] <= n - 1
      BY <1>2, <2>1
    <2>3. path[n][target] = Append(path[n - 1][p], target)
      <3>1. n \in Nat /\ n # 0
        BY <1>2, <2>2
      <3> QED
        BY <1>8, <1>13, <2>1, <3>1
    <2> HIDE DEF p
    <2>4. path[n][p] = path[n - 1][p]
      <3>1. Settled(n - 1)
        BY <1>11, <2>2
      <3>2. n \in Nat /\ n >= n - 1
        BY <1>2
      <3> QED
        BY <2>1, <2>2, <3>1, <3>2
    <2>5. ShortestPath(r, target) = Append(ShortestPath(r, p), target)
      BY <1>5, <2>1, <2>3, <2>4
    <2> QED
      BY <1>13, <2>5 DEF p
  <1> QED
    BY <1>12, <1>13

\* Every vertex that is reached is on the path of a leaf beyond the root: of
\* those it is on the way to, one that was found last is nobody's parent.
LEMMA LeavesCover ==
    ASSUME NEW g \in Graphs, 0 \in Ids(g), Cardinality(Ids(g)) >= 2, NEW r, NEW rank,
           IsTree(g, 0, r, rank), \A v \in Ids(g) : r.distance[v] < Inf, NEW v \in Ids(g)
    PROVE  \E leaf \in LongLeaves(g, r) : \E i \in DOMAIN LeafPath(r, leaf) :
               LeafPath(r, leaf)[i] = v
  <1> DEFINE S == Ids(g)
             n == g.idCount
             On(u) == \E i \in DOMAIN LeafPath(r, u) : LeafPath(r, u)[i] = v
             B == { u \in S \ {0} : On(u) }
  <1>1. /\ r.status = TRUE /\ r.parent \in [S -> S] /\ rank \in [S -> 0..n] /\ r.parent[0] = 0
        /\ \A u \in S \ {0} : r.parent[u] # u /\ rank[r.parent[u]] < rank[u]
    BY DEF IsTree
  <1>2. n \in Nat /\ S = 0..n /\ 1 \in S
    <2>1. S = 0..n /\ n \in Int /\ Cardinality(S) = n + 1
      BY SoundGraph
    <2> QED
      BY <2>1
  <1>3. \A u \in S : LeafPath(r, u) \in Seq(S)
    <2>1. IsReport(r, S)
      BY TreeReports
    <2>2. IsFiniteSet(S)
      BY <1>2, FS_Interval
    <2> HIDE DEF S
    <2> QED
      BY <2>1, <2>2, PathIsOfVertices DEF LeafPath
  <1>4. \A u \in S : LeafPath(r, u) = IF u = 0 THEN <<u>> ELSE Append(LeafPath(r, r.parent[u]), u)
    BY PathGoesOn DEF LeafPath
  <1>5. \A u \in S \ {0} : On(r.parent[u]) => On(u)
    <2> SUFFICES ASSUME NEW u \in S \ {0}, NEW i \in DOMAIN LeafPath(r, r.parent[u]),
                        LeafPath(r, r.parent[u])[i] = v
                 PROVE  On(u)
      OBVIOUS
    <2> DEFINE q == LeafPath(r, r.parent[u])
               t == LeafPath(r, u)
    <2>1. q \in Seq(S) /\ t = Append(q, u)
      BY <1>1, <1>3, <1>4
    <2>2. i \in DOMAIN q /\ q[i] = v
      OBVIOUS
    <2> HIDE DEF q
    <2>3. i \in DOMAIN t /\ t[i] = v
      BY <2>1, <2>2
    <2> QED
      BY <2>3
  <1>6. \A u \in S \ {0} : On(0) => On(u)
    <2> SUFFICES ASSUME On(0), NEW u0 \in S \ {0}, ~On(u0)
                 PROVE  FALSE
      OBVIOUS
    <2> DEFINE N == { u \in S \ {0} : ~On(u) }
               R == { rank[u] : u \in N }
    <2>1. R \in SUBSET Nat /\ R # {}
      BY <1>1, <1>2
    <2> HIDE DEF R, On
    <2>2. PICK k \in R : \A m \in R : k <= m
      BY <2>1, LeastNatural
    <2>3. PICK u \in N : k = rank[u]
      BY DEF R
    <2>4. r.parent[u] \in S /\ rank[r.parent[u]] < rank[u] /\ ~On(r.parent[u])
      BY <1>1, <1>5, <2>3
    <2>5. r.parent[u] \in N
      BY <2>4
    <2>6. rank[u] <= rank[r.parent[u]]
      BY <2>2, <2>3, <2>5 DEF R
    <2>7. rank[u] \in Nat /\ rank[r.parent[u]] \in Nat
      BY <1>1, <1>2, <2>4
    <2> QED
      BY <2>4, <2>6, <2>7
  <1>7. On(v)
    <2> DEFINE t == LeafPath(r, v)
               q == LeafPath(r, r.parent[v])
    <2>1. CASE v = 0
      <3>1. t = <<v>>
        BY <1>4, <2>1
      <3> HIDE DEF t
      <3>2. 1 \in DOMAIN t /\ t[1] = v
        BY <3>1
      <3> QED
        BY <3>2 DEF t
    <2>2. CASE v # 0
      <3>1. q \in Seq(S) /\ t = Append(q, v)
        BY <1>1, <1>3, <1>4, <2>2
      <3> HIDE DEF q, t
      <3>2. Len(q) + 1 \in DOMAIN t /\ t[Len(q) + 1] = v
        BY <3>1
      <3> QED
        BY <3>2 DEF t
    <2> QED
      BY <2>1, <2>2
  <1> HIDE DEF On
  <1>8. B # {}
    BY <1>2, <1>6, <1>7
  <1> DEFINE late == [u \in B |-> n - rank[u]]
             L == { late[u] : u \in B }
  <1>9. L \in SUBSET Nat /\ L # {}
    <2>1. \A u \in B : late[u] \in Nat
      BY <1>1, <1>2
    <2> HIDE DEF late, B
    <2> QED
      BY <1>8, <2>1
  <1> HIDE DEF L
  <1>10. PICK k \in L : \A m \in L : k <= m
    BY <1>9, LeastNatural
  <1>11. PICK leaf \in B : k = late[leaf]
    BY <1>10 DEF L
  <1>12. \A u \in B : rank[u] <= rank[leaf]
    <2> SUFFICES ASSUME NEW u \in B
                 PROVE  rank[u] <= rank[leaf]
      OBVIOUS
    <2>1. late[u] \in L
      BY DEF L
    <2>2. n - rank[leaf] <= n - rank[u]
      BY <1>10, <1>11, <2>1
    <2>3. rank[u] \in Int /\ rank[leaf] \in Int /\ n \in Int
      BY <1>1, <1>2
    <2> QED
      BY <2>2, <2>3
  <1>13. leaf \in S \ {0} /\ On(leaf)
    OBVIOUS
  <1>14. leaf \in LeafVertices(g, r)
    <2> SUFFICES ASSUME NEW w \in S, ParentID(r, w) = leaf
                 PROVE  FALSE
      BY <1>13 DEF LeafVertices
    <2>1. r.parent[w] = leaf
      BY <1>1 DEF ParentID
    <2>2. w # 0
      BY <1>1, <1>13, <2>1
    <2>3. rank[leaf] < rank[w] /\ w \in B
      BY <1>1, <1>5, <1>13, <2>1, <2>2
    <2>4. rank[w] \in Int /\ rank[leaf] \in Int
      BY <1>1, <1>2, <1>13
    <2> QED
      BY <1>12, <2>3, <2>4
  <1>15. Len(LeafPath(r, leaf)) > 1
    <2> DEFINE q == LeafPath(r, r.parent[leaf])
               t == LeafPath(r, leaf)
               p == r.parent[leaf]
    <2>1. q \in Seq(S) /\ t = Append(q, leaf) /\ p \in S
      BY <1>1, <1>3, <1>4, <1>13
    <2>2. q = IF p = 0 THEN <<p>> ELSE Append(LeafPath(r, r.parent[p]), p)
      BY <1>4, <2>1
    <2>3. Len(q) > 0
      <3>1. CASE p = 0
        <4>1. q = <<p>>
          BY <2>2, <3>1
        <4> HIDE DEF q
        <4> QED
          BY <4>1
      <3>2. CASE p # 0
        <4>1. LeafPath(r, r.parent[p]) \in Seq(S)
          BY <1>1, <1>3, <2>1
        <4>2. q = Append(LeafPath(r, r.parent[p]), p)
          BY <2>2, <3>2
        <4> HIDE DEF q
        <4> QED
          BY <4>1, <4>2
      <3> QED
        BY <3>1, <3>2
    <2> HIDE DEF q, t
    <2>4. Len(t) > 1
      BY <2>1, <2>3
    <2> QED
      BY <2>4 DEF t
  <1> QED
    BY <1>13, <1>14, <1>15 DEF LongLeaves, On

\* What the path of a leaf shows is a sum over its vertices.
LEMMA GainIsSum ==
    ASSUME NEW g \in Graphs, NEW r, NEW v, LeafPath(r, v) \in Seq(Ids(g)),
           NEW n \in Nat, n = Len(LeafPath(r, v)),
           NEW w, w = [i \in 1..n |-> g.vertex[LeafPath(r, v)[i]].gain]
    PROVE  w \in [1..n -> Nat] /\ SumsTo(PathGain(g, r, v), 1..n, w)
  <1> DEFINE path == LeafPath(r, v)
             S == 1..n
             some(s) == CHOOSE x \in s : TRUE
             pick == [s \in SUBSET S |-> some(s)]
             gain(i) == g.vertex[path[i]].gain
             Sums(f) == f = [s \in SUBSET S |->
                               IF s = {} THEN 0 ELSE gain(some(s)) + f[s \ {some(s)}]]
  <1>1. w \in [S -> Nat] /\ (\A i \in S : w[i] = gain(i)) /\ DOMAIN path = S
    <2>1. DOMAIN path = S
      OBVIOUS
    <2>2. ASSUME NEW i \in S
          PROVE  gain(i) \in Nat
      <3>1. path[i] \in Ids(g)
        BY <2>1
      <3>2. g.vertex[path[i]] \in Vertices
        BY <3>1, SoundGraph
      <3> QED
        BY <3>2 DEF Vertices
    <2>3. w = [i \in S |-> gain(i)]
      OBVIOUS
    <2> HIDE DEF gain, S, path
    <2> QED
      BY <2>1, <2>2, <2>3
  <1>2. IsFiniteSet(S)
    BY FS_Interval
  <1>3. \A s \in SUBSET S : pick[s] = some(s)
    OBVIOUS
  <1>4. \A s : s # {} => some(s) \in s
    OBVIOUS
  <1>5. PathGain(g, r, v) = (CHOOSE f : Sums(f))[S]
    BY <1>1 DEF PathGain, MapThenSumSet, MapThenFoldSet
  <1> HIDE DEF some, pick, gain, S, path
  <1>6. Picks(pick, S)
    BY <1>3, <1>4 DEF Picks
  <1>7. w \in [S -> Int]
    BY <1>1
  <1>8. PICK it \in [SUBSET S -> Int] : IsSum(it, S, pick, w)
    BY <1>2, <1>6, <1>7, SumExists
  <1>9. Sums(it)
    <2> SUFFICES ASSUME NEW s \in SUBSET S
                 PROVE  it[s] = IF s = {} THEN 0 ELSE gain(some(s)) + it[s \ {some(s)}]
      BY <1>8
    <2>1. it[s] = IF s = {} THEN 0 ELSE w[pick[s]] + it[s \ {pick[s]}]
      BY <1>8 DEF IsSum
    <2>2. s # {} => some(s) \in S
      BY <1>4
    <2> QED
      BY <1>1, <1>3, <2>1, <2>2
  <1>10. PICK f : Sums(f) /\ PathGain(g, r, v) = f[S]
    <2> HIDE DEF Sums
    <2> QED
      BY <1>5, <1>9
  <1>11. IsSum(f, S, pick, w)
    <2> SUFFICES ASSUME NEW s \in SUBSET S
                 PROVE  f[s] = IF s = {} THEN 0 ELSE w[pick[s]] + f[s \ {pick[s]}]
      BY DEF IsSum
    <2>1. f[s] = IF s = {} THEN 0 ELSE gain(some(s)) + f[s \ {some(s)}]
      BY <1>10
    <2>2. s # {} => some(s) \in S
      BY <1>4
    <2> QED
      BY <1>1, <1>3, <2>1, <2>2
  <1> QED
    BY <1>1, <1>6, <1>10, <1>11 DEF S, SumsTo

\* It shows something exactly if one of them does.
LEMMA GainOfPath ==
    ASSUME NEW g \in Graphs, NEW r, NEW v, LeafPath(r, v) \in Seq(Ids(g))
    PROVE  PathGain(g, r, v) > 0
               <=> \E i \in DOMAIN LeafPath(r, v) : g.vertex[LeafPath(r, v)[i]].gain > 0
  <1> DEFINE path == LeafPath(r, v)
             n == Len(path)
             w == [i \in 1..n |-> g.vertex[path[i]].gain]
             total == PathGain(g, r, v)
  <1>1. n \in Nat /\ DOMAIN path = 1..n
    OBVIOUS
  <1>2. w \in [1..n -> Nat] /\ SumsTo(total, 1..n, w)
    <2> HIDE DEF n, total
    <2>1. PICK k : k = n
      OBVIOUS
    <2>2. PICK u : u = w
      OBVIOUS
    <2> QED
      BY <1>1, GainIsSum DEF total, n
  <1>3. \A i \in 1..n : w[i] = g.vertex[path[i]].gain
    OBVIOUS
  <1> HIDE DEF path, n, w, total
  <1>4. IsFiniteSet(1..n)
    BY <1>1, FS_Interval
  <1>5. total \in Nat /\ (\A x \in 1..n : total >= w[x]) /\ ((\A x \in 1..n : w[x] = 0) => total = 0)
    BY <1>2, <1>4, SumOfNaturals
  <1>6. total > 0 <=> \E i \in 1..n : w[i] > 0
    BY <1>2, <1>5
  <1> QED
    BY <1>1, <1>3, <1>6 DEF path, total

\* What a vertex shows once it is evaluated, labelled or not.
LEMMA EvaluatedShows ==
    ASSUME NEW v \in Vertices, NEW gain, gain = Gain(v.place)
    PROVE  /\ Evaluated(v).gain = gain /\ Evaluated(v).frontier = (gain > 0)
           /\ \A type : LET w == [Evaluated(v) EXCEPT !.type = type] IN
                 w.gain = gain /\ w.frontier = (gain > 0) /\ w.type = type
  <1> DEFINE shows == gain > 0
             e == Evaluated(v)
  <1>1. e = [v EXCEPT !.gain = gain, !.frontier = shows]
    BY DEF Evaluated
  <1>2. v = [place |-> v.place, type |-> v.type, frontier |-> v.frontier, gain |-> v.gain]
    BY DEF Vertices
  <1> HIDE DEF e, shows
  <1>3. e = [place |-> v.place, type |-> v.type, frontier |-> shows, gain |-> gain]
    BY <1>1, <1>2
  <1>4. \A type : [e EXCEPT !.type = type]
                    = [place |-> v.place, type |-> type, frontier |-> shows, gain |-> gain]
    BY <1>3
  <1>5. e.gain = gain /\ e.frontier = shows
    BY <1>3
  <1>6. \A type : LET w == [e EXCEPT !.type = type] IN
            w.gain = gain /\ w.frontier = shows /\ w.type = type
    BY <1>4
  <1> QED
    BY <1>5, <1>6 DEF e, shows

\* computeExplorationGain: every vertex has what it shows, and is labelled a
\* frontier if that is something.
LEMMA LabelledShows ==
    ASSUME NEW g \in Graphs, NEW v \in Ids(g), NEW gain, gain = Gain(g.vertex[v].place)
    PROVE  /\ Labelled(g).vertex[v].gain = gain /\ Labelled(g).vertex[v].frontier = (gain > 0)
           /\ gain > 0 => Labelled(g).vertex[v].type = "kFrontier"
           /\ ~(gain > 0) => Labelled(g).vertex[v].type = g.vertex[v].type
  <1> DEFINE x == g.vertex[v]
             e == Evaluated(x)
             f == [e EXCEPT !.type = "kFrontier"]
             w == Labelled(g).vertex[v]
  <1>1. w = IF e.frontier THEN f ELSE e
    BY SoundGraph DEF Labelled
  <1>2. x \in Vertices /\ gain = Gain(x.place)
    BY SoundGraph
  <1> HIDE DEF x, w
  <1>3. /\ e.gain = gain /\ e.frontier = (gain > 0)
        /\ f.gain = gain /\ f.frontier = (gain > 0) /\ f.type = "kFrontier"
    BY <1>2, EvaluatedShows
  <1>4. e.type = x.type
    BY <1>2, EvaluatedVertex
  <1> HIDE DEF e, f
  <1> QED
    BY <1>1, <1>3, <1>4 DEF w, x

-----------------------------------------------------------------------------
(* Adding frontiers.                                                       *)

\* performShortestPathsClustering: some of the vertices, in an order.
LEMMA ClustersAreVertices ==
    ASSUME NEW g \in Graphs, NEW r, IsReport(r, Ids(g)), NEW S \in SUBSET Ids(g)
    PROVE  Clusters(g, r, S) \in Seq(S)
  <1> DEFINE d(v) == ShortestDistance(r, v)
             before(v, u) == d(v) > d(u) \/ (d(v) = d(u) /\ v < u)
             last(s) == CHOOSE v \in s : \A u \in s \ {v} : before(u, v)
             add(v, ids) ==
                 IF \/ Len(ShortestPath(r, v)) <= 1
                    \/ \E i \in DOMAIN ids :
                           Alongside(g, ShortestPath(r, v), ShortestPath(r, ids[i]))
                 THEN ids ELSE Append(ids, v)
             Folds(f) == f = [s \in SUBSET S |->
                                IF s = {} THEN <<>> ELSE add(last(s), f[s \ {last(s)}])]
             G == Seq(S)
             pick == [s \in SUBSET S |-> last(s)]
             step == [q \in G \X S |-> add(q[2], q[1])]
  <1>1. Clusters(g, r, S) = (CHOOSE f : Folds(f))[S]
    BY DEF Clusters, MapThenFoldSet
  <1>2. S \in SUBSET Nat /\ IsFiniteSet(S)
    BY SoundGraph, FS_Subset
  <1>3. \A v \in S : d(v) \in Nat
    BY DistanceIsNatural
  <1>4. ASSUME NEW s \in SUBSET S, s # {}
        PROVE  last(s) \in s
    <2> DEFINE R == { p \in s \X s : p[1] = p[2] \/ before(p[2], p[1]) }
    <2>1. \A x, y \in s : <<x, y>> \in R <=> x = y \/ before(y, x)
      OBVIOUS
    <2> HIDE DEF R, d
    <2>2. \A x \in s : x \in Nat /\ d(x) \in Nat
      BY <1>2, <1>3
    <2>3. \A x, y \in s : <<x, y>> \in R \/ <<y, x>> \in R
      <3> SUFFICES ASSUME NEW x \in s, NEW y \in s
                   PROVE  <<x, y>> \in R \/ <<y, x>> \in R
        OBVIOUS
      <3>1. x \in Nat /\ y \in Nat /\ d(x) \in Nat /\ d(y) \in Nat
        BY <2>2
      <3>2. x = y \/ before(x, y) \/ before(y, x)
        BY <3>1
      <3> HIDE DEF before
      <3> QED
        BY <2>1, <3>2
    <2>4. \A x, y, z \in s : <<x, y>> \in R /\ <<y, z>> \in R => <<x, z>> \in R
      BY <2>1, <2>2
    <2>5. IsFiniteSet(s)
      BY <1>2, FS_Subset
    <2>6. PICK v \in s : \A u \in s : <<v, u>> \in R
      <3> HIDE DEF before
      <3> QED
        BY <1>4, <2>3, <2>4, <2>5, FiniteFirst
    <2> HIDE DEF before
    <2>7. \E x \in s : \A u \in s \ {x} : before(u, x)
      BY <2>1, <2>6
    <2> QED
      BY <2>7
  <1>5. \A s \in SUBSET S : pick[s] = last(s)
    OBVIOUS
  <1> HIDE DEF last, pick, d
  <1>6. Picks(pick, S)
    BY <1>4, <1>5 DEF Picks
  <1>7. <<>> \in G
    OBVIOUS
  <1>8. ASSUME NEW ids \in G, NEW v \in S
        PROVE  add(v, ids) \in G
    <2>1. add(v, ids) = ids \/ add(v, ids) = Append(ids, v)
      OBVIOUS
    <2> HIDE DEF add
    <2> QED
      BY <2>1
  <1> HIDE DEF add, G
  <1>9. step \in [G \X S -> G]
    BY <1>8
  <1>10. PICK it \in [SUBSET S -> G] : IsSetFold(it, S, pick, <<>>, step)
    <2> HIDE DEF step
    <2> QED
      BY <1>2, <1>6, <1>7, <1>9, SetFoldExists
  <1>11. Folds(it)
    <2> SUFFICES ASSUME NEW s \in SUBSET S, s # {}
                 PROVE  step[<<it[s \ {pick[s]}], pick[s]>>] = add(last(s), it[s \ {last(s)}])
      BY <1>10 DEF IsSetFold
    <2>1. pick[s] = last(s) /\ last(s) \in S /\ it[s \ {last(s)}] \in G
      BY <1>4, <1>5
    <2> QED
      BY <2>1
  <1>12. PICK f : Folds(f) /\ Clusters(g, r, S) = f[S]
    <2> HIDE DEF Folds
    <2> QED
      BY <1>1, <1>11
  <1>13. \A s \in SUBSET S : f[s] = IF s = {} THEN <<>> ELSE add(last(s), f[s \ {last(s)}])
    BY <1>12
  <1> HIDE DEF Folds, step
  <1>14. \A s \in SUBSET S : s # {} /\ f[s \ {pick[s]}] \in G => f[s] \in G
    <2> SUFFICES ASSUME NEW s \in SUBSET S, s # {}, f[s \ {pick[s]}] \in G
                 PROVE  f[s] \in G
      OBVIOUS
    <2>1. last(s) \in S /\ f[s \ {last(s)}] \in G
      BY <1>4, <1>5
    <2>2. f[s] = add(last(s), f[s \ {last(s)}])
      BY <1>13
    <2> QED
      BY <1>8, <2>1, <2>2
  <1>15. f[{}] \in G
    BY <1>7, <1>13
  <1>16. \A s \in SUBSET S : f[s] \in G
    BY <1>2, <1>6, <1>14, <1>15, SetFoldKeeps
  <1> QED
    BY <1>12, <1>16 DEF G

\* The candidates for seeds: a path of the local graph and a place.
LEMMA CandidatesAreFinite ==
    ASSUME NEW g, NEW loc \in Graphs, NEW r, IsReport(r, Ids(loc))
    PROVE  /\ IsFiniteSet(SeedCandidates(g, loc, r))
           /\ \A c \in SeedCandidates(g, loc, r) : c[1] \in Seq(Ids(loc)) /\ c[2] \in Places
  <1> DEFINE paths == { ShortestPath(r, v) : v \in Ids(loc) }
             path == [v \in Ids(loc) |-> ShortestPath(r, v)]
             C == SeedCandidates(g, loc, r)
  <1>1. C \in SUBSET (paths \X Places)
    BY DEF SeedCandidates
  <1>2. IsFiniteSet(Ids(loc))
    BY SoundGraph
  <1>3. path \in Surjection(Ids(loc), paths)
    BY DEF Surjection
  <1>4. IsFiniteSet(paths)
    <2> HIDE DEF path, paths
    <2> QED
      BY <1>2, <1>3, FS_Surjection
  <1>5. \A p \in paths : p \in Seq(Ids(loc))
    <2> SUFFICES ASSUME NEW v \in Ids(loc)
                 PROVE  ShortestPath(r, v) \in Seq(Ids(loc))
      OBVIOUS
    <2> QED
      BY <1>2, PathIsOfVertices
  <1> HIDE DEF paths, C
  <1>6. IsFiniteSet(paths \X Places)
    BY <1>4, SpaceAssumption, FS_Product
  <1>7. IsFiniteSet(C)
    BY <1>1, <1>6, FS_Subset
  <1>8. \A c \in C : c[1] \in Seq(Ids(loc)) /\ c[2] \in Places
    BY <1>1, <1>5
  <1> QED
    BY <1>7, <1>8 DEF C

\* addOpeningFrontierSeeds.
LEMMA SeedsGrow ==
    ASSUME NEW g \in Graphs, NEW loc \in Graphs, NEW r, IsReport(r, Ids(loc))
    PROVE  AddOpeningFrontierSeeds(g, loc, r) \in Grown(g)
  <1> DEFINE root == loc.vertex[0].place
             seed(place) == [Evaluated(Vertex(place)) EXCEPT !.type = "kFrontier"]
             last(s) == CHOOSE c \in s : \A d \in s : Gain(c[2]) <= Gain(d[2])
             taken(s, c, next) ==
                 IF next = s.graph THEN s
                 ELSE [graph |-> next, bearings |-> Append(s.bearings, Bearing(root, c[2]))]
             committed(s, c) ==
                 CommitVerifiedPath(s.graph, Append(PathVertices(loc, c[1]), seed(c[2])))
             add(c, s) ==
                 IF Len(s.bearings) >= MaxSeeds \/ Contains(s.bearings, Bearing(root, c[2]))
                 THEN s ELSE taken(s, c, committed(s, c))
             base == [graph |-> g, bearings |-> <<>>]
             S == SeedCandidates(g, loc, r)
             Folds(f) == f = [s \in SUBSET S |->
                                IF s = {} THEN base ELSE add(last(s), f[s \ {last(s)}])]
             result == (CHOOSE f : Folds(f))[S]
             B == { Bearing(root, p) : p \in Places }
             G == [graph : Grown(g), bearings : Seq(B)]
             pick == [s \in SUBSET S |-> last(s)]
             step == [q \in G \X S |-> add(q[2], q[1])]
  <1>1. AddOpeningFrontierSeeds(g, loc, r) = result.graph
    BY DEF AddOpeningFrontierSeeds, MapThenFoldSet
  <1>2. IsFiniteSet(S) /\ \A c \in S : c[1] \in Seq(Ids(loc)) /\ c[2] \in Places
    BY CandidatesAreFinite
  <1>3. ASSUME NEW s \in SUBSET S, s # {}
        PROVE  last(s) \in s
    <2> DEFINE R == { p \in s \X s : Gain(p[1][2]) <= Gain(p[2][2]) }
    <2>1. \A x, y \in s : <<x, y>> \in R <=> Gain(x[2]) <= Gain(y[2])
      OBVIOUS
    <2>2. \A x \in s : Gain(x[2]) \in Nat
      <3> HIDE DEF S
      <3> QED
        BY <1>2, GainIsNatural
    <2>3. IsFiniteSet(s)
      <3> HIDE DEF S
      <3> QED
        BY <1>2, FS_Subset
    <2> HIDE DEF R, S
    <2>4. \A x, y \in s : <<x, y>> \in R \/ <<y, x>> \in R
      <3> SUFFICES ASSUME NEW x \in s, NEW y \in s
                   PROVE  <<x, y>> \in R \/ <<y, x>> \in R
        OBVIOUS
      <3>1. Gain(x[2]) <= Gain(y[2]) \/ Gain(y[2]) <= Gain(x[2])
        BY <2>2
      <3> QED
        BY <2>1, <3>1
    <2>5. \A x, y, z \in s : <<x, y>> \in R /\ <<y, z>> \in R => <<x, z>> \in R
      BY <2>1, <2>2
    <2>6. PICK c \in s : \A d \in s : <<c, d>> \in R
      BY <1>3, <2>3, <2>4, <2>5, FiniteFirst
    <2>7. \E x \in s : \A y \in s : Gain(x[2]) <= Gain(y[2])
      BY <2>1, <2>6
    <2> QED
      BY <2>7
  <1>4. \A s \in SUBSET S : pick[s] = last(s)
    OBVIOUS
  <1> HIDE DEF last, pick, S, result
  <1>5. Picks(pick, S)
    BY <1>3, <1>4 DEF Picks
  <1>6. base \in G
    BY GrowthIsReflexive
  <1>7. ASSUME NEW s \in G, NEW c \in S
        PROVE  add(c, s) \in G
    <2>1. s.graph \in Graphs /\ s.graph \in Grown(g) /\ s.bearings \in Seq(B)
      BY DEF Grown
    <2>2. PathVertices(loc, c[1]) \in Seq(Vertices)
      BY <1>2, VerticesOfPath
    <2>3. seed(c[2]) \in Vertices
      <3>1. Vertex(c[2]) \in Vertices
        BY <1>2, NewVertex
      <3>2. "kFrontier" \in Types
        BY DEF Types
      <3> QED
        BY <3>1, <3>2, EvaluatedVertex, Zenon
    <2> HIDE DEF Vertices, seed
    <2>4. committed(s, c) \in Grown(s.graph)
      <3>1. Append(PathVertices(loc, c[1]), seed(c[2])) \in Seq(Vertices)
        BY <2>2, <2>3
      <3> QED
        BY <2>1, <3>1, CommittedGrows
    <2> HIDE DEF committed
    <2>5. committed(s, c) \in Grown(g)
      BY <2>1, <2>4, GrowthIsTransitive
    <2>6. Bearing(root, c[2]) \in B
      BY <1>2
    <2> HIDE DEF B, root
    <2>7. Append(s.bearings, Bearing(root, c[2])) \in Seq(B)
      BY <2>1, <2>6
    <2>8. taken(s, c, committed(s, c)) \in G
      BY <2>5, <2>7
    <2> HIDE DEF taken
    <2> QED
      BY <2>8
  <1> HIDE DEF add, G, base
  <1>8. step \in [G \X S -> G]
    BY <1>7
  <1>9. PICK it \in [SUBSET S -> G] : IsSetFold(it, S, pick, base, step)
    <2> HIDE DEF step
    <2> QED
      BY <1>2, <1>5, <1>6, <1>8, SetFoldExists
  <1>10. Folds(it)
    <2> SUFFICES ASSUME NEW s \in SUBSET S, s # {}
                 PROVE  step[<<it[s \ {pick[s]}], pick[s]>>] = add(last(s), it[s \ {last(s)}])
      BY <1>9 DEF IsSetFold
    <2>1. pick[s] = last(s) /\ last(s) \in S /\ it[s \ {last(s)}] \in G
      BY <1>3, <1>4
    <2> QED
      BY <2>1
  <1>11. PICK f : Folds(f) /\ result = f[S]
    <2> HIDE DEF Folds
    <2> QED
      BY <1>10 DEF result
  <1>12. \A s \in SUBSET S : f[s] = IF s = {} THEN base ELSE add(last(s), f[s \ {last(s)}])
    BY <1>11
  <1> HIDE DEF Folds, step
  <1>13. \A s \in SUBSET S : s # {} /\ f[s \ {pick[s]}] \in G => f[s] \in G
    <2> SUFFICES ASSUME NEW s \in SUBSET S, s # {}, f[s \ {pick[s]}] \in G
                 PROVE  f[s] \in G
      OBVIOUS
    <2>1. last(s) \in S /\ f[s \ {last(s)}] \in G
      BY <1>3, <1>4
    <2>2. f[s] = add(last(s), f[s \ {last(s)}])
      BY <1>12
    <2> QED
      BY <1>7, <2>1, <2>2
  <1>14. f[{}] \in G
    BY <1>6, <1>12
  <1>15. \A s \in SUBSET S : f[s] \in G
    BY <1>2, <1>5, <1>13, <1>14, SetFoldKeeps
  <1> QED
    BY <1>1, <1>11, <1>15 DEF G

\* addFrontiers, with a local graph and its report: the map has grown, and
\* the local graph keeps its vertices.
LEMMA FrontiersGrow ==
    ASSUME NEW g \in Graphs, NEW loc \in Graphs, NEW r, IsReport(r, Ids(loc))
    PROVE  /\ AddFrontiers(g, loc, r).graph \in Grown(g)
           /\ AddFrontiers(g, loc, r).local \in Graphs
           /\ Ids(AddFrontiers(g, loc, r).local) = Ids(loc)
  <1> DEFINE frontiers == { v \in Ids(loc) : loc.vertex[v].type = "kFrontier" }
             cleared(s, v) == SetType(s.local, ToSet(Front(ShortestPath(r, v))), "kUnvisited")
             extended(s, v) ==
                 [graph |-> CommitVerifiedPath(s.graph, PathVertices(cleared(s, v), ShortestPath(r, v))),
                  local |-> cleared(s, v)]
             add(s, v) == IF ~IsNewPlace(s.graph, s.local.vertex[v].place) THEN s ELSE extended(s, v)
             base == [graph |-> RefreshFrontiers(g), local |-> loc]
             seq == Clusters(loc, r, frontiers)
             n == Len(seq)
             G == { s \in [graph : Grown(g), local : Graphs] : Ids(s.local) = Ids(loc) }
             Folds(f) == f = [x \in SUBSET DOMAIN seq |->
                                IF x = {} THEN base ELSE add(f[x \ {Max(x)}], seq[Max(x)])]
             step == [q \in G \X (1..n) |-> add(q[1], seq[q[2]])]
             added == (CHOOSE f : Folds(f))[DOMAIN seq]
             seeded == [added EXCEPT !.graph = AddOpeningFrontierSeeds(@, added.local, r)]
  <1>1. AddFrontiers(g, loc, r) = seeded
    BY DEF AddFrontiers, FoldLeft, MapThenFoldSet
  <1>2. seq \in Seq(Ids(loc))
    <2>1. frontiers \in SUBSET Ids(loc)
      OBVIOUS
    <2> HIDE DEF frontiers
    <2>2. seq \in Seq(frontiers)
      BY <2>1, ClustersAreVertices
    <2> HIDE DEF seq
    <2> QED
      BY <2>1, <2>2
  <1> HIDE DEF seq, added
  <1>3. n \in Nat /\ DOMAIN seq = 1..n /\ \A j \in 1..n : seq[j] \in Ids(loc)
    BY <1>2
  <1>4. base \in G
    BY RefreshGrows
  <1>5. ASSUME NEW s \in G, NEW v \in Ids(loc)
        PROVE  add(s, v) \in G
    <2> DEFINE path == ShortestPath(r, v)
               c == cleared(s, v)
    <2>1. s.graph \in Grown(g) /\ s.graph \in Graphs /\ s.local \in Graphs /\ Ids(s.local) = Ids(loc)
      BY DEF Grown
    <2>2. "kUnvisited" \in Types
      BY DEF Types
    <2>3. c \in Graphs /\ Ids(c) = Ids(loc)
      BY <2>1, <2>2, RetypedGraph
    <2> HIDE DEF cleared
    <2>4. path \in Seq(Ids(c))
      <3>1. IsFiniteSet(Ids(loc))
        BY SoundGraph
      <3> QED
        BY <2>3, <3>1, PathIsOfVertices
    <2> HIDE DEF c, path
    <2>5. PathVertices(c, path) \in Seq(Vertices)
      BY <2>3, <2>4, VerticesOfPath
    <2>6. CommitVerifiedPath(s.graph, PathVertices(c, path)) \in Grown(s.graph)
      BY <2>1, <2>5, CommittedGrows
    <2>7. CommitVerifiedPath(s.graph, PathVertices(c, path)) \in Grown(g)
      BY <2>1, <2>6, GrowthIsTransitive
    <2>8. extended(s, v) \in G
      BY <2>3, <2>7 DEF c, path
    <2> HIDE DEF extended, G
    <2> QED
      BY <2>8
  <1> HIDE DEF add, G, base, n
  <1>6. \A s \in G, j \in 1..n : add(s, seq[j]) \in G
    BY <1>3, <1>5
  <1>7. step \in [G \X (1..n) -> G]
    BY <1>6
  <1>8. PICK it \in [SUBSET (1..n) -> G] : IsFold(it, n, base, step)
    <2> HIDE DEF step
    <2> QED
      BY <1>3, <1>4, <1>7, FoldExists
  <1>9. Folds(it)
    <2> SUFFICES ASSUME NEW x \in SUBSET (1..n), x # {}
                 PROVE  step[<<it[x \ {Max(x)}], Max(x)>>] = add(it[x \ {Max(x)}], seq[Max(x)])
      BY <1>3, <1>8 DEF IsFold
    <2>1. Max(x) \in 1..n /\ it[x \ {Max(x)}] \in G
      BY <1>3, MaxUpTo
    <2> QED
      BY <2>1
  <1>10. PICK f : Folds(f) /\ added = f[1..n]
    <2> HIDE DEF Folds
    <2> QED
      BY <1>3, <1>9 DEF added
  <1>11. \A x \in SUBSET (1..n) : f[x] = IF x = {} THEN base ELSE add(f[x \ {Max(x)}], seq[Max(x)])
    BY <1>3, <1>10
  <1> HIDE DEF Folds, step
  <1>12. \A m \in 1..n : f[1..(m - 1)] \in G => f[1..m] \in G
    <2> SUFFICES ASSUME NEW m \in 1..n, f[1..(m - 1)] \in G
                 PROVE  f[1..m] \in G
      OBVIOUS
    <2>1. m \in Nat /\ m > 0 /\ 1..m \in SUBSET (1..n)
      BY <1>3
    <2>2. 1..m # {} /\ Max(1..m) = m /\ (1..m) \ {Max(1..m)} = 1..(m - 1)
      BY <2>1, MaxOfFirst
    <2>3. f[1..m] = add(f[1..(m - 1)], seq[m])
      BY <1>11, <2>1, <2>2
    <2> QED
      BY <1>6, <2>3
  <1>13. f[{}] \in G
    BY <1>4, <1>11
  <1>14. added \in G
    BY <1>3, <1>10, <1>12, <1>13, FoldKeeps
  <1>15. /\ added = [graph |-> added.graph, local |-> added.local]
         /\ added.graph \in Grown(g) /\ added.local \in Graphs /\ Ids(added.local) = Ids(loc)
    BY <1>14 DEF G
  <1>16. AddOpeningFrontierSeeds(added.graph, added.local, r) \in Grown(added.graph)
    BY <1>15, SeedsGrow DEF Grown
  <1>17. AddOpeningFrontierSeeds(added.graph, added.local, r) \in Grown(g)
    BY <1>15, <1>16, GrowthIsTransitive
  <1>18. /\ seeded.graph = AddOpeningFrontierSeeds(added.graph, added.local, r)
         /\ seeded.local = added.local
    BY <1>15
  <1> HIDE DEF seeded
  <1> QED
    BY <1>1, <1>15, <1>17, <1>18

-----------------------------------------------------------------------------
(* Building the local graph.                                               *)

\* No vertex is labelled a frontier yet.
Unlabelled(g) == \A v \in Ids(g) : g.vertex[v].type # "kFrontier"

\* None is when one that is not is added, with its edge.
LEMMA LinkedUnlabelled ==
    ASSUME NEW g \in Graphs, Unlabelled(g), NEW v \in Vertices, v.type # "kFrontier",
           NEW to \in Ids(g)
    PROVE  Unlabelled(NewLinked(g, v, to))
  <1> DEFINE k == AddVertex(g, v)
             id == GenerateVertexID(g)
             pairs == {<<id, to>>}
  <1>1. /\ k \in Graphs /\ Ids(k) = Ids(g) \cup {id} /\ k.vertex[id] = v /\ k.idCount = id
    BY VertexGrows
  <1>2. \A u \in Ids(g) : k.vertex[u] = g.vertex[u]
    <2>1. Sound(g)
      BY GraphsAreSound
    <2> QED
      BY <2>1, AddVertexAdds DEF Sound
  <1>3. NewLinked(g, v, to) = AddEdges(k, pairs)
    BY DEF NewLinked, AddEdge
  <1> HIDE DEF k, id
  <1>4. pairs \subseteq Ids(k) \X Ids(k)
    BY <1>1
  <1> HIDE DEF pairs
  <1>5. Ids(AddEdges(k, pairs)) = Ids(k) /\ AddEdges(k, pairs).vertex = k.vertex
    BY <1>1, <1>4, EdgesGrow
  <1> QED
    BY <1>1, <1>2, <1>3, <1>5 DEF Unlabelled

\* Nor when the graph is expanded.
LEMMA ExpandedUnlabelled ==
    ASSUME NEW g \in Graphs, Unlabelled(g), NEW p \in Places
    PROVE  Unlabelled(ExpandGraph(g, p, "kUnvisited"))
  <1> DEFINE h == ExpandGraph(g, p, "kUnvisited")
             id == GenerateVertexID(g)
             near == NearestVertex(g, p)
             at == Vertex(Truncated(g.vertex[near].place, p))
             new == [at EXCEPT !.type = "kUnvisited"]
             k == NewLinked(g, new, near)
  <1>1. CASE ~CanExpand(g, p)
    BY <1>1 DEF ExpandGraph
  <1>2. CASE CanExpand(g, p)
    <2>1. Ids(g) # {}
      BY <1>2 DEF CanExpand
    <2>2. near \in Ids(g) /\ g.vertex[near].place \in Places
      BY <2>1, NearestIsVertex
    <2>3. Truncated(g.vertex[near].place, p) \in Places
      <3> HIDE DEF near
      <3> QED
        BY <2>2, TruncatedIsPlace
    <2>4. h = LinkInRange(k, id)
      BY <1>2 DEF ExpandGraph
    <2> HIDE DEF near
    <2>5. new \in Vertices /\ new.type = "kUnvisited"
      BY <2>3, NewVertex DEF Vertex, Types
    <2> HIDE DEF h, new, at
    <2>6. k \in Graphs /\ id \in Ids(k)
      BY <2>2, <2>5, LinkedGrows DEF Grown
    <2>7. Unlabelled(k)
      BY <2>2, <2>5, LinkedUnlabelled
    <2> HIDE DEF k, id
    <2>8. LinkInRange(k, id).vertex = k.vertex /\ Ids(LinkInRange(k, id)) = Ids(k)
      BY <2>6, ExpandedEdgesGrow
    <2>9. Unlabelled(h)
      BY <2>4, <2>7, <2>8 DEF Unlabelled
    <2> QED
      BY <2>9 DEF h
  <1> QED
    BY <1>1, <1>2

\* Nor when the robot is tied to it.
LEMMA TiedUnlabelled ==
    ASSUME NEW g \in Graphs, Unlabelled(g), robot \in Places
    PROVE  Unlabelled(TieRobot(g).graph)
  <1> DEFINE tie == Tie(g, robot, AnchorLimit, FALSE)
             near == NearestVertex(g, robot)
             h == ExpandGraphEdges(tie.graph, tie.id)
             linked == [tie EXCEPT !.graph = h]
  <1>1. IsTie(g, tie)
    BY TieIsTie
  <1>2. Unlabelled(tie.graph)
    <2>1. Ids(g) # {} => Unlabelled(NewLinked(g, Vertex(robot), near))
      <3>1. Ids(g) # {} => near \in Ids(g)
        BY NearestIsVertex
      <3>2. Vertex(robot) \in Vertices /\ Vertex(robot).type # "kFrontier"
        BY NewVertex DEF Vertex
      <3> HIDE DEF near
      <3> QED
        BY <3>1, <3>2, LinkedUnlabelled
    <2>2. Unlabelled(ExpandGraph(g, robot, "kUnvisited"))
      BY ExpandedUnlabelled
    <2>3. \/ tie.graph = g
          \/ tie.graph = ExpandGraph(g, robot, "kUnvisited")
          \/ Ids(g) # {} /\ tie.graph = NewLinked(g, Vertex(robot), near)
      BY DEF Tie
    <2> HIDE DEF tie, near
    <2> QED
      BY <2>1, <2>2, <2>3
  <1>3. TieRobot(g) = IF IsNear(g, robot, AnchorLimit) THEN linked ELSE tie
    BY DEF TieRobot
  <1> HIDE DEF tie
  <1>4. Unlabelled(h)
    <2>1. IsGraph(tie.graph)
      BY <1>1, GraphsAreSound DEF IsTie, Grown, Sound
    <2>2. h.vertex = tie.graph.vertex
      BY <2>1, AddEdgesAdds DEF ExpandGraphEdges
    <2> HIDE DEF h
    <2> QED
      BY <1>2, <2>2 DEF Unlabelled, Ids
  <1> HIDE DEF h
  <1>5. linked.graph = h
    BY <1>1 DEF IsTie
  <1> HIDE DEF linked
  <1> QED
    BY <1>2, <1>3, <1>4, <1>5

\* The graph of the root alone.
LEMMA RootIsGraph ==
    \A p \in Places : AddVertex(EmptyGraph, Vertex(p)) \in Graphs
  BY EmptyIsSound, NewVertex, VertexGrows

\* buildGraph: it grows from its root, by a vertex for each sample at most.
LEMMA BasicIsGraph ==
    ASSUME NEW root \in Places, NEW samples \in Seq(Places)
    PROVE  LET g == BasicGraph(root, samples) IN
           g \in Graphs /\ Linked(g) /\ g.idCount <= Len(samples) /\ Unlabelled(g)
  <1> DEFINE n == Len(samples)
             base == AddVertex(EmptyGraph, Vertex(root))
             G == { g \in Grown(base) : Unlabelled(g) }
             next(g, p) == ExpandGraph(g, p, "kUnvisited")
             step == [q \in G \X (1..n) |-> next(q[1], samples[q[2]])]
             Folds(f) == f = [x \in SUBSET DOMAIN samples |->
                                IF x = {} THEN base ELSE next(f[x \ {Max(x)}], samples[Max(x)])]
             Reach == [m \in 0..n |-> { g \in G : g.idCount <= m }]
  <1>1. n \in Nat /\ DOMAIN samples = 1..n /\ \A j \in 1..n : samples[j] \in Places
    OBVIOUS
  <1>2. BasicGraph(root, samples) = (CHOOSE f : Folds(f))[DOMAIN samples]
    BY DEF BasicGraph, FoldLeft, MapThenFoldSet
  <1>3. base \in G /\ base.idCount = 0 /\ Linked(base)
    <2>1. base \in Grown(base) /\ base.idCount = 0 /\ Linked(base)
      BY RootIsGraph, EmptyIsSound, NewVertex, RootGrows, GrowthIsReflexive
    <2>2. Unlabelled(base)
      <3>1. Vertex(root) \in Vertices /\ Vertex(root).type # "kFrontier"
        BY NewVertex DEF Vertex
      <3>2. LET id == GenerateVertexID(EmptyGraph) IN
            Ids(base) = Ids(EmptyGraph) \cup {id} /\ base.vertex[id] = Vertex(root)
        BY <3>1, EmptyIsSound, VertexGrows
      <3> HIDE DEF base
      <3> QED
        BY <3>1, <3>2, EmptyIsSound DEF Unlabelled
    <2> HIDE DEF base
    <2> QED
      BY <2>1, <2>2
  <1>4. ASSUME NEW g \in G, NEW j \in 1..n
        PROVE  next(g, samples[j]) \in G /\ next(g, samples[j]).idCount <= g.idCount + 1
    <2> DEFINE p == samples[j]
    <2>1. "kUnvisited" \in Types /\ p \in Places /\ g \in Graphs
      BY <1>1 DEF Types, Grown
    <2> HIDE DEF n, base, p
    <2>2. next(g, p) \in Grown(g)
          /\ (CanExpand(g, p) => next(g, p).idCount = GenerateVertexID(g))
      BY <2>1, ExpandedGrows
    <2>3. ~CanExpand(g, p) => next(g, p) = g
      BY DEF ExpandGraph
    <2>4. g.idCount \in Int
      BY <2>1, SoundGraph
    <2>5. Unlabelled(next(g, p))
      BY <2>1, ExpandedUnlabelled
    <2> HIDE DEF next
    <2>6. next(g, p) \in Grown(base)
      BY <2>2, GrowthIsTransitive
    <2> QED
      BY <2>2, <2>3, <2>4, <2>5, <2>6 DEF GenerateVertexID, p
  <1> HIDE DEF next, base, n, G
  <1>5. step \in [G \X (1..n) -> G]
    BY <1>4
  <1>6. PICK it \in [SUBSET (1..n) -> G] : IsFold(it, n, base, step)
    <2> HIDE DEF step
    <2> QED
      BY <1>1, <1>3, <1>5, FoldExists
  <1>7. Folds(it)
    <2> SUFFICES ASSUME NEW x \in SUBSET (1..n), x # {}
                 PROVE  step[<<it[x \ {Max(x)}], Max(x)>>]
                            = next(it[x \ {Max(x)}], samples[Max(x)])
      BY <1>1, <1>6 DEF IsFold
    <2>1. Max(x) \in 1..n /\ it[x \ {Max(x)}] \in G
      BY <1>1, MaxUpTo
    <2> QED
      BY <2>1
  <1>8. PICK f : Folds(f) /\ BasicGraph(root, samples) = f[1..n]
    <2> HIDE DEF Folds
    <2> QED
      BY <1>1, <1>2, <1>7
  <1>9. \A x \in SUBSET (1..n) :
           f[x] = IF x = {} THEN base ELSE next(f[x \ {Max(x)}], samples[Max(x)])
    BY <1>1, <1>8
  <1> HIDE DEF Folds, step
  <1>10. \A m \in 0..n : Reach[m] = { g \in G : g.idCount <= m }
    OBVIOUS
  <1>11. \A g \in G : g.idCount \in Int
    BY SoundGraph DEF G, Grown
  <1> HIDE DEF Reach
  <1>12. ASSUME NEW m \in 1..n, f[1..(m - 1)] \in Reach[m - 1]
         PROVE  f[1..m] \in Reach[m]
    <2>1. m \in Nat /\ m > 0 /\ 1..m \in SUBSET (1..n) /\ m \in 0..n /\ m - 1 \in 0..n
      BY <1>1
    <2>2. 1..m # {} /\ Max(1..m) = m /\ (1..m) \ {Max(1..m)} = 1..(m - 1)
      BY <2>1, MaxOfFirst
    <2>3. f[1..m] = next(f[1..(m - 1)], samples[m])
      BY <1>9, <2>1, <2>2
    <2>4. f[1..(m - 1)] \in G /\ f[1..(m - 1)].idCount <= m - 1
      BY <1>10, <1>12, <2>1
    <2>5. f[1..m] \in G /\ f[1..m].idCount <= f[1..(m - 1)].idCount + 1
      BY <1>4, <2>3, <2>4
    <2>6. f[1..m].idCount <= m
      BY <1>11, <2>1, <2>4, <2>5
    <2> QED
      BY <1>10, <2>1, <2>5, <2>6
  <1>13. f[{}] \in Reach[0]
    <2>1. {} \in SUBSET (1..n) /\ 0 \in 0..n
      BY <1>1
    <2>2. f[{}] = base
      BY <1>9, <2>1
    <2> QED
      BY <1>3, <1>10, <2>1, <2>2
  <1>14. f[1..n] \in Reach[n]
    BY <1>1, <1>12, <1>13, FoldStays
  <1>15. f[1..n] \in G /\ f[1..n].idCount <= n
    <2>1. n \in 0..n
      BY <1>1
    <2> QED
      BY <1>10, <1>14, <2>1
  <1>16. f[1..n] \in Graphs /\ Linked(f[1..n]) /\ Unlabelled(f[1..n])
    BY <1>3, <1>15 DEF G, Grown
  <1> QED
    BY <1>8, <1>15, <1>16 DEF n

\* The kept samples are renumbered one to one, from 0 on.
LEMMA RanksAreDense ==
    ASSUME NEW K \in SUBSET Nat, IsFiniteSet(K),
           NEW rank, rank = [i \in K |-> Cardinality({ j \in K : j < i })]
    PROVE  /\ \A i \in K : rank[i] \in 0..(Cardinality(K) - 1)
           /\ \A v \in 0..(Cardinality(K) - 1) : \E i \in K : rank[i] = v
  <1> DEFINE n == Cardinality(K)
             below(i) == { j \in K : j < i }
  <1>0. n \in Nat
    BY FS_CardinalityType
  <1>1. ASSUME NEW i \in K
        PROVE  IsFiniteSet(below(i)) /\ rank[i] = Cardinality(below(i)) /\ rank[i] \in 0..(n - 1)
    <2>1. below(i) \in SUBSET (K \ {i})
      OBVIOUS
    <2>2. IsFiniteSet(K \ {i}) /\ Cardinality(K \ {i}) = n - 1
      BY FS_RemoveElement
    <2>3. IsFiniteSet(below(i)) /\ Cardinality(below(i)) <= n - 1
      <3> HIDE DEF below
      <3> QED
        BY <2>1, <2>2, FS_Subset
    <2>4. Cardinality(below(i)) \in Nat
      BY <2>3, FS_CardinalityType
    <2> QED
      BY <1>0, <2>3, <2>4
  <1>2. ASSUME NEW i \in K, NEW j \in K, i < j
        PROVE  rank[i] # rank[j]
    <2>1. below(i) \in SUBSET below(j) /\ i \in below(j) /\ i \notin below(i)
      <3>1. \A k \in K : k < i => k < j
        BY <1>2
      <3>2. below(i) \subseteq below(j)
        BY <3>1
      <3>3. i \in below(j)
        BY <1>2
      <3>4. ~(i < i)
        OBVIOUS
      <3> QED
        BY <3>2, <3>3, <3>4
    <2>2. IsFiniteSet(below(i)) /\ IsFiniteSet(below(j))
      BY <1>1
    <2> HIDE DEF below
    <2>3. Cardinality(below(i)) # Cardinality(below(j))
      BY <2>1, <2>2, FS_Subset
    <2> QED
      BY <1>1, <2>3
  <1> HIDE DEF n
  <1>3. rank \in [K -> 0..(n - 1)]
    BY <1>1
  <1>4. \A i, j \in K : rank[i] = rank[j] => i = j
    <2> SUFFICES ASSUME NEW i \in K, NEW j \in K, rank[i] = rank[j], i # j
                 PROVE  FALSE
      OBVIOUS
    <2>1. i < j \/ j < i
      OBVIOUS
    <2> QED
      BY <1>2, <2>1
  <1>5. rank \in Injection(K, 0..(n - 1))
    BY <1>3, <1>4 DEF Injection, IsInjective
  <1>6. IsFiniteSet(0..(n - 1)) /\ Cardinality(0..(n - 1)) = n
    BY <1>0, FS_Interval
  <1>7. rank \in Surjection(K, 0..(n - 1))
    BY <1>5, <1>6, FS_Injection DEF n
  <1>8. \A v \in 0..(n - 1) : \E i \in K : rank[i] = v
    BY <1>7 DEF Surjection
  <1> QED
    BY <1>1, <1>8 DEF n

\* Samples that are joined to the first one, through each other.
Joint(J, R) ==
    /\ 1 \in R
    /\ \A C \in SUBSET R :
           1 \in C /\ (\A i \in C, j \in R : <<i, j>> \in J => j \in C) => C = R

\* They stay it as those that are joined to them are kept.
LEMMA SpreadStaysJoint ==
    ASSUME NEW J, NEW R, Joint(J, R), NEW more, \A j \in more : \E i \in R : <<i, j>> \in J
    PROVE  Joint(J, R \cup more)
  <1> SUFFICES ASSUME NEW C \in SUBSET (R \cup more), 1 \in C,
                      \A i \in C, j \in R \cup more : <<i, j>> \in J => j \in C
               PROVE  C = R \cup more
    BY DEF Joint
  <1> DEFINE B == C \cap R
  <1>1. B \in SUBSET R /\ 1 \in B
    BY DEF Joint
  <1>2. \A i \in B, j \in R : <<i, j>> \in J => j \in B
    OBVIOUS
  <1> HIDE DEF B
  <1>3. B = R
    BY <1>1, <1>2 DEF Joint
  <1>4. R \subseteq C
    BY <1>3 DEF B
  <1>5. \A j \in more : j \in C
    BY <1>4
  <1> QED
    BY <1>4, <1>5

\* A graph of them, whatever they are renumbered to, is in one piece.
LEMMA JointIsLinked ==
    ASSUME NEW J, NEW K, Joint(J, K), NEW g, NEW rank \in [K -> Ids(g)], rank[1] = 0,
           \A v \in Ids(g) : \E i \in K : rank[i] = v,
           \A i, j \in K : <<i, j>> \in J => {rank[j], rank[i]} \in g.edges
    PROVE  Linked(g)
  <1> SUFFICES ASSUME NEW S \in SUBSET Ids(g), 0 \in S,
                      \A v \in S, u \in Ids(g) : {u, v} \in g.edges => u \in S
               PROVE  S = Ids(g)
    BY DEF Linked
  <1> DEFINE C == { i \in K : rank[i] \in S }
  <1>1. C \in SUBSET K /\ 1 \in C
    BY DEF Joint
  <1>2. \A i \in C, j \in K : <<i, j>> \in J => j \in C
    OBVIOUS
  <1>3. C = K
    <2> HIDE DEF C
    <2> QED
      BY <1>1, <1>2 DEF Joint
  <1> QED
    BY <1>3

\* batchGraph: the samples that are kept are numbered from 0 on, and in one
\* piece.
LEMMA BatchIsGraph ==
    ASSUME NEW root \in Places, NEW samples \in Seq(Places)
    PROVE  LET g == BatchGraph(root, samples) IN
           g \in Graphs /\ Linked(g) /\ g.idCount <= Len(samples) /\ Unlabelled(g)
  <1> DEFINE places == <<root>> \o samples
             joined(i, j) == /\ i # j
                             /\ Dist(places[i], places[j]) <= NearestRange
                             /\ PathFree(places[i], places[j], TRUE)
             spread(reached, round) ==
                 reached \cup { j \in DOMAIN places : \E i \in reached : joined(i, j) }
             rounds == [round \in DOMAIN samples |-> round]
             kept == FoldLeft(spread, {1}, rounds)
             rank == [i \in kept |-> Cardinality({ j \in kept : j < i })]
             k == Cardinality(kept)
             place(v) == places[CHOOSE i \in kept : Cardinality({ j \in kept : j < i }) = v]
             vertex == [v \in 0..(k - 1) |-> Vertex(place(v))]
             g == [EmptyGraph EXCEPT !.vertex = vertex, !.idCount = k - 1]
             near == { q \in kept \X kept : q[1] > q[2] /\ joined(q[1], q[2]) }
             pairs == { <<Cardinality({ j \in kept : j < p[1] }),
                          Cardinality({ j \in kept : j < p[2] })>> : p \in near }
  <1>1. BatchGraph(root, samples) = AddEdges(g, pairs)
    BY DEF BatchGraph
  <1>2. /\ DOMAIN places = 1..(Len(samples) + 1) /\ \A i \in DOMAIN places : places[i] \in Places
        /\ Len(samples) \in Nat /\ DOMAIN samples = 1..Len(samples)
    OBVIOUS
  <1> DEFINE J == { q \in (DOMAIN places) \X (DOMAIN places) : joined(q[1], q[2]) }
  <1>3. kept \in SUBSET DOMAIN places /\ Joint(J, kept)
    <2> DEFINE n == Len(samples)
               G == { R \in SUBSET DOMAIN places : Joint(J, R) }
               step == [q \in G \X (1..n) |-> spread(q[1], rounds[q[2]])]
               Folds(f) == f = [x \in SUBSET DOMAIN rounds |->
                                  IF x = {} THEN {1} ELSE spread(f[x \ {Max(x)}], rounds[Max(x)])]
    <2>1. n \in Nat /\ DOMAIN rounds = 1..n
      BY <1>2
    <2>2. kept = (CHOOSE f : Folds(f))[DOMAIN rounds]
      BY DEF FoldLeft, MapThenFoldSet
    <2>3. {1} \in G
      <3>1. {1} \in SUBSET DOMAIN places
        BY <1>2
      <3>2. Joint(J, {1})
        BY DEF Joint
      <3> QED
        BY <3>1, <3>2
    <2>4. \A reached \in G : \A round : spread(reached, round) \in G
      <3> SUFFICES ASSUME NEW reached \in G, NEW round
                   PROVE  spread(reached, round) \in G
        OBVIOUS
      <3> DEFINE more == { j \in DOMAIN places : \E i \in reached : joined(i, j) }
      <3>1. reached \in SUBSET DOMAIN places /\ Joint(J, reached)
        OBVIOUS
      <3>2. \A j \in more : \E i \in reached : <<i, j>> \in J
        <4> SUFFICES ASSUME NEW j \in more
                     PROVE  \E i \in reached : <<i, j>> \in J
          OBVIOUS
        <4>1. PICK i \in reached : joined(i, j) /\ i \in DOMAIN places /\ j \in DOMAIN places
          BY <3>1
        <4> HIDE DEF joined, places, more
        <4>2. <<i, j>> \in J
          BY <4>1
        <4> QED
          BY <4>2
      <3>3. spread(reached, round) = reached \cup more /\ more \in SUBSET DOMAIN places
        OBVIOUS
      <3> HIDE DEF more, J, spread, joined, places
      <3>4. Joint(J, reached \cup more)
        BY <3>1, <3>2, SpreadStaysJoint
      <3>5. reached \cup more \in SUBSET DOMAIN places
        BY <3>1, <3>3
      <3> QED
        BY <3>3, <3>4, <3>5
    <2> HIDE DEF spread, G, kept, n, rounds
    <2>5. step \in [G \X (1..n) -> G]
      BY <2>4
    <2>6. PICK it \in [SUBSET (1..n) -> G] : IsFold(it, n, {1}, step)
      <3> HIDE DEF step
      <3> QED
        BY <2>1, <2>3, <2>5, FoldExists
    <2>7. Folds(it)
      <3> SUFFICES ASSUME NEW x \in SUBSET (1..n), x # {}
                   PROVE  step[<<it[x \ {Max(x)}], Max(x)>>]
                              = spread(it[x \ {Max(x)}], rounds[Max(x)])
        BY <2>1, <2>6 DEF IsFold
      <3>1. Max(x) \in 1..n /\ it[x \ {Max(x)}] \in G
        BY <2>1, MaxUpTo
      <3> QED
        BY <3>1
    <2>8. PICK f : Folds(f) /\ kept = f[1..n]
      <3> HIDE DEF Folds
      <3> QED
        BY <2>1, <2>2, <2>7
    <2>9. \A x \in SUBSET (1..n) :
             f[x] = IF x = {} THEN {1} ELSE spread(f[x \ {Max(x)}], rounds[Max(x)])
      BY <2>1, <2>8
    <2> HIDE DEF Folds, step
    <2>10. \A m \in 1..n : f[1..(m - 1)] \in G => f[1..m] \in G
      <3> SUFFICES ASSUME NEW m \in 1..n, f[1..(m - 1)] \in G
                   PROVE  f[1..m] \in G
        OBVIOUS
      <3>1. m \in Nat /\ m > 0 /\ 1..m \in SUBSET (1..n)
        BY <2>1
      <3>2. 1..m # {} /\ Max(1..m) = m /\ (1..m) \ {Max(1..m)} = 1..(m - 1)
        BY <3>1, MaxOfFirst
      <3>3. f[1..m] = spread(f[1..(m - 1)], rounds[m])
        BY <2>9, <3>1, <3>2
      <3> QED
        BY <2>4, <3>3
    <2>11. f[{}] \in G
      <3>1. {} \in SUBSET (1..n)
        OBVIOUS
      <3> QED
        BY <2>3, <2>9, <3>1
    <2>12. f[1..n] \in G
      BY <2>1, <2>10, <2>11, FoldKeeps
    <2> QED
      BY <2>8, <2>12 DEF G
  <1> HIDE DEF kept
  <1>4. /\ kept \in SUBSET Nat /\ IsFiniteSet(kept) /\ k <= Len(samples) + 1
        /\ \A i \in kept : i >= 1
    <2>1. /\ IsFiniteSet(DOMAIN places) /\ DOMAIN places \in SUBSET Nat
          /\ Cardinality(DOMAIN places) = Len(samples) + 1
      BY <1>2, FS_Interval
    <2>2. \A i \in DOMAIN places : i >= 1
      BY <1>2
    <2> HIDE DEF places
    <2> QED
      BY <1>3, <2>1, <2>2, FS_Subset
  <1>5. k \in Nat
    BY <1>4, FS_CardinalityType
  <1>6. /\ \A i \in kept : rank[i] \in 0..(k - 1)
        /\ \A v \in 0..(k - 1) : \E i \in kept : rank[i] = v
    <2> HIDE DEF rank
    <2> QED
      BY <1>4, RanksAreDense DEF rank
  <1>7. \A i \in kept : rank[i] = Cardinality({ j \in kept : j < i })
    OBVIOUS
  <1> HIDE DEF rank
  <1>8. ASSUME NEW v \in 0..(k - 1)
        PROVE  Vertex(place(v)) \in Vertices
    <2> DEFINE i == CHOOSE i \in kept : Cardinality({ j \in kept : j < i }) = v
    <2>1. \E x \in kept : Cardinality({ j \in kept : j < x }) = v
      BY <1>6, <1>7
    <2>2. i \in kept
      BY <2>1
    <2> HIDE DEF i
    <2>3. places[i] \in Places
      BY <1>2, <1>3, <2>2
    <2>4. place(v) = places[i]
      BY DEF i
    <2> HIDE DEF place, places
    <2> QED
      BY <2>3, <2>4, NewVertex
  <1> HIDE DEF place, k
  <1>9. vertex \in [0..(k - 1) -> Vertices]
    <2> HIDE DEF Vertices
    <2> QED
      BY <1>8
  <1>10. \A v \in 0..(k - 1) : vertex[v].type # "kFrontier"
    <2> SUFFICES ASSUME NEW v \in 0..(k - 1)
                 PROVE  vertex[v].type # "kFrontier"
      OBVIOUS
    <2>1. vertex[v] = Vertex(place(v))
      OBVIOUS
    <2> HIDE DEF vertex
    <2> QED
      BY <2>1 DEF Vertex
  <1> HIDE DEF vertex
  <1>11. g = [vertex |-> vertex, idCount |-> k - 1, edges |-> {}, edgeMap |-> {}, neighbors |-> {}]
    <2>1. /\ EmptyGraph.edges = {} /\ EmptyGraph.edgeMap = {} /\ EmptyGraph.neighbors = {}
          /\ IsGraph(EmptyGraph)
      BY DEF EmptyGraph, IsGraph
    <2> HIDE DEF k
    <2> QED
      BY <2>1, GraphWith
  <1> HIDE DEF g
  <1>12. g \in Graphs
    <2>1. DOMAIN vertex = 0..(k - 1) /\ k - 1 \in Int /\ k - 1 >= -1
      BY <1>5, <1>9
    <2>2. /\ IsGraph(g) /\ Ids(g) = 0..(k - 1) /\ g.idCount = k - 1 /\ g.vertex = vertex
          /\ g.edges = {} /\ g.edgeMap = {} /\ g.neighbors = {}
      BY <1>11, <2>1 DEF IsGraph, Ids
    <2>3. InStep(g) /\ DenseIds(g)
      BY <2>2 DEF InStep, EdgeRecordsAgree, DenseIds
    <2>4. Sound(g)
      BY <1>9, <2>1, <2>2, <2>3 DEF Sound
    <2> QED
      BY <2>4, GraphsAreSound
  <1>13. Ids(g) = 0..(k - 1)
    BY <1>9, <1>11 DEF Ids
  <1>14. pairs \subseteq Ids(g) \X Ids(g)
    <2>1. \A p \in near : p[1] \in kept /\ p[2] \in kept
      OBVIOUS
    <2> HIDE DEF near
    <2> DEFINE id(i) == Cardinality({ j \in kept : j < i })
    <2>2. \A i \in kept : id(i) \in Ids(g)
      BY <1>6, <1>7, <1>13
    <2>3. pairs = { <<id(p[1]), id(p[2])>> : p \in near }
      OBVIOUS
    <2> HIDE DEF id, pairs
    <2>4. \A p \in near : <<id(p[1]), id(p[2])>> \in Ids(g) \X Ids(g)
      BY <2>1, <2>2
    <2> QED
      BY <2>3, <2>4
  <1>15. /\ rank \in [kept -> Ids(g)] /\ rank[1] = 0
         /\ \A v \in Ids(g) : \E i \in kept : rank[i] = v
    <2>1. { j \in kept : j < 1 } = {} /\ 1 \in kept
      <3>1. \A j \in kept : ~(j < 1)
        BY <1>4
      <3>2. 1 \in kept
        BY <1>3 DEF Joint
      <3> QED
        BY <3>1, <3>2
    <2>2. rank[1] = 0
      BY <1>7, <2>1, FS_EmptySet
    <2> QED
      BY <1>6, <1>13, <2>2 DEF rank
  <1> DEFINE h == AddEdges(g, pairs)
  <1>16. ASSUME NEW i \in kept, NEW j \in kept, <<i, j>> \in J
         PROVE  {rank[j], rank[i]} \in { {p[1], p[2]} : p \in pairs }
    <2>1. joined(i, j) /\ joined(j, i) /\ i # j
      <3>1. joined(i, j) /\ places[i] \in Places /\ places[j] \in Places
        BY <1>2, <1>3, <1>16
      <3> HIDE DEF places
      <3> QED
        BY <3>1, SpaceAssumption, PathAssumption DEF PathFree
    <2> HIDE DEF joined
    <2>2. <<rank[i], rank[j]>> \in pairs \/ <<rank[j], rank[i]>> \in pairs
      <3>1. i > j \/ j > i
        BY <1>4, <2>1
      <3>2. ASSUME NEW a \in kept, NEW b \in kept, a > b, joined(a, b)
            PROVE  <<rank[a], rank[b]>> \in pairs
        <4>1. <<a, b>> \in near
          BY <3>2
        <4> DEFINE below(p) == Cardinality({ x \in kept : x < p })
        <4>2. <<below(a), below(b)>> \in { <<below(p[1]), below(p[2])>> : p \in near }
          <5> HIDE DEF near, below
          <5> QED
            BY <4>1
        <4>3. pairs = { <<below(p[1]), below(p[2])>> : p \in near }
          OBVIOUS
        <4>4. rank[a] = below(a) /\ rank[b] = below(b)
          BY <1>7
        <4> HIDE DEF pairs, below
        <4> QED
          BY <4>2, <4>3, <4>4
      <3> HIDE DEF pairs
      <3> QED
        BY <2>1, <3>1, <3>2
    <2> HIDE DEF pairs
    <2> QED
      BY <2>2
  <1> HIDE DEF pairs, J
  <1>17. /\ h \in Graphs /\ Ids(h) = Ids(g) /\ h.idCount = g.idCount
         /\ h.edges = g.edges \cup { {p[1], p[2]} : p \in pairs } /\ h.vertex = g.vertex
    BY <1>12, <1>14, EdgesGrow DEF Grown
  <1> HIDE DEF h
  <1>18. Linked(h)
    <2>1. \A i, j \in kept : <<i, j>> \in J => {rank[j], rank[i]} \in h.edges
      <3> HIDE DEF rank
      <3> QED
        BY <1>16, <1>17
    <2>2. /\ rank \in [kept -> Ids(h)] /\ rank[1] = 0
          /\ \A v \in Ids(h) : \E i \in kept : rank[i] = v
      BY <1>15, <1>17
    <2>3. Joint(J, kept)
      BY <1>3
    <2> HIDE DEF rank
    <2> QED
      BY <2>1, <2>2, <2>3, JointIsLinked
  <1>19. h.idCount <= Len(samples)
    <2>1. h.idCount = k - 1
      BY <1>11, <1>17
    <2> QED
      BY <1>2, <1>4, <1>5, <2>1
  <1>20. Unlabelled(h)
    <2>1. g.vertex = vertex
      BY <1>11
    <2> QED
      BY <1>13, <1>17, <1>10, <2>1 DEF Unlabelled
  <1> QED
    BY <1>1, <1>17, <1>18, <1>19, <1>20 DEF h

-----------------------------------------------------------------------------
(* The track of the odometry timer.                                        *)

\* The track ends at no vertex, or at one of the graph it was laid in.
Tracks(g) ==
    { s \in [graph : Grown(g), prev : [id : Int, place : Places]] :
        s.prev = NoVertex \/ s.prev.id \in Ids(s.graph) }

\* One state of the queue.
LEMMA TrackStays ==
    ASSUME NEW g \in Graphs, NEW s \in Tracks(g), NEW p \in Places
    PROVE  TrackState(s, p) \in Tracks(g)
  <1> DEFINE k == s.graph
             near == NearestVertex(k, p)
             from == IF s.prev = NoVertex THEN TrackStart(k, p) ELSE s.prev
             id == GenerateVertexID(k)
             linked == NewLinked(k, Vertex(p), from.id)
             edges == AddEdges(linked, EdgesInRange(linked, id, OdomRadius, OdomRadius))
             last == AddEdges(edges, ShortcutEdges(edges, id, OdomRadius))
  <1>1. /\ k \in Graphs /\ k \in Grown(g) /\ s.prev \in [id : Int, place : Places]
        /\ s.prev = NoVertex \/ s.prev.id \in Ids(k)
        /\ s = [graph |-> k, prev |-> s.prev]
    BY DEF Tracks, Grown
  <1>2. NoVertex \in [id : Int, place : Places]
    BY SpaceAssumption DEF NoVertex
  <1>3. /\ from \in [id : Int, place : Places]
        /\ from = NoVertex \/ from.id \in Ids(k)
    <2>1. CASE s.prev # NoVertex
      BY <1>1, <2>1
    <2>2. CASE s.prev = NoVertex /\ Ids(k) # {}
      <3>1. near \in Ids(k) /\ k.vertex[near].place \in Places /\ Ids(k) \subseteq Nat
        BY <1>1, <2>2, NearestIsVertex, SoundGraph
      <3>2. from = [id |-> near, place |-> k.vertex[near].place]
        BY <2>2 DEF TrackStart
      <3> HIDE DEF near, from
      <3> QED
        BY <3>1, <3>2
    <2>3. CASE s.prev = NoVertex /\ Ids(k) = {}
      BY <1>2, <2>3 DEF TrackStart
    <2> QED
      BY <2>1, <2>2, <2>3
  <1>4. TrackState(s, p) = IF from = NoVertex \/ Dist(from.place, p) < OdomDist
                           THEN [s EXCEPT !.prev = from]
                           ELSE [graph |-> last, prev |-> [id |-> id, place |-> p]]
    BY DEF TrackState
  <1> HIDE DEF from, near
  <1>5. CASE from = NoVertex \/ Dist(from.place, p) < OdomDist
    <2>1. TrackState(s, p) = [graph |-> k, prev |-> from]
      BY <1>1, <1>4, <1>5
    <2> HIDE DEF k
    <2> QED
      BY <1>1, <1>3, <2>1 DEF Tracks
  <1>6. CASE ~(from = NoVertex \/ Dist(from.place, p) < OdomDist)
    <2>1. Vertex(p) \in Vertices /\ from.id \in Ids(k)
      BY <1>3, <1>6, NewVertex
    <2>2. linked \in Grown(k) /\ id \in Ids(linked)
      BY <1>1, <2>1, LinkedGrows
    <2> HIDE DEF linked, id
    <2>3. linked \in Graphs
      BY <2>2 DEF Grown
    <2>4. edges \in Grown(linked) /\ Ids(edges) = Ids(linked)
      BY <2>2, <2>3, EdgesAreBetweenVertices, EdgesGrow
    <2> HIDE DEF edges
    <2>5. edges \in Graphs /\ id \in Ids(edges)
      BY <2>2, <2>4 DEF Grown
    <2>6. last \in Grown(edges) /\ Ids(last) = Ids(edges)
      BY <2>5, EdgesAreBetweenVertices, EdgesGrow
    <2> HIDE DEF last
    <2>7. last \in Grown(g)
      BY <1>1, <2>2, <2>4, <2>6, GrowthIsTransitive
    <2>8. id \in Ids(last) /\ id \in Int
      <3>1. last \in Graphs
        BY <2>7 DEF Grown
      <3> QED
        BY <2>5, <2>6, <3>1, SoundGraph
    <2>9. TrackState(s, p) = [graph |-> last, prev |-> [id |-> id, place |-> p]]
      BY <1>4, <1>6
    <2> QED
      BY <2>7, <2>8, <2>9 DEF Tracks
  <1> QED
    BY <1>5, <1>6

\* The queue is laid out.
LEMMA QueueIsTracked ==
    ASSUME NEW g \in Graphs, NEW s \in Tracks(g), NEW states \in Seq(Places)
    PROVE  FoldLeft(TrackState, s, states) \in Tracks(g)
  <1> DEFINE n == Len(states)
             next(t, p) == TrackState(t, p)
             T == Tracks(g)
             step == [q \in T \X (1..n) |-> next(q[1], states[q[2]])]
             Folds(f) == f = [x \in SUBSET DOMAIN states |->
                                IF x = {} THEN s ELSE next(f[x \ {Max(x)}], states[Max(x)])]
  <1>1. n \in Nat /\ DOMAIN states = 1..n /\ \A j \in 1..n : states[j] \in Places
    OBVIOUS
  <1>2. FoldLeft(TrackState, s, states) = (CHOOSE f : Folds(f))[DOMAIN states]
    BY DEF FoldLeft, MapThenFoldSet
  <1>3. s \in T
    OBVIOUS
  <1>4. ASSUME NEW t \in T, NEW j \in 1..n
        PROVE  next(t, states[j]) \in T
    <2> HIDE DEF n
    <2> QED
      BY <1>1, TrackStays
  <1> HIDE DEF next, n, T
  <1>5. step \in [T \X (1..n) -> T]
    BY <1>4
  <1>6. PICK it \in [SUBSET (1..n) -> T] : IsFold(it, n, s, step)
    <2> HIDE DEF step
    <2> QED
      BY <1>1, <1>3, <1>5, FoldExists
  <1>7. Folds(it)
    <2> SUFFICES ASSUME NEW x \in SUBSET (1..n), x # {}
                 PROVE  step[<<it[x \ {Max(x)}], Max(x)>>]
                            = next(it[x \ {Max(x)}], states[Max(x)])
      BY <1>1, <1>6 DEF IsFold
    <2>1. Max(x) \in 1..n /\ it[x \ {Max(x)}] \in T
      BY <1>1, MaxUpTo
    <2> QED
      BY <2>1
  <1>8. PICK f : Folds(f) /\ FoldLeft(TrackState, s, states) = f[1..n]
    <2> HIDE DEF Folds
    <2> QED
      BY <1>1, <1>2, <1>7
  <1>9. \A x \in SUBSET (1..n) :
           f[x] = IF x = {} THEN s ELSE next(f[x \ {Max(x)}], states[Max(x)])
    BY <1>1, <1>8
  <1> HIDE DEF Folds, step
  <1>10. \A m \in 1..n : f[1..(m - 1)] \in T => f[1..m] \in T
    <2> SUFFICES ASSUME NEW m \in 1..n, f[1..(m - 1)] \in T
                 PROVE  f[1..m] \in T
      OBVIOUS
    <2>1. m \in Nat /\ m > 0 /\ 1..m \in SUBSET (1..n)
      BY <1>1
    <2>2. 1..m # {} /\ Max(1..m) = m /\ (1..m) \ {Max(1..m)} = 1..(m - 1)
      BY <2>1, MaxOfFirst
    <2>3. f[1..m] = next(f[1..(m - 1)], states[m])
      BY <1>9, <2>1, <2>2
    <2> QED
      BY <1>4, <2>3
  <1>11. f[{}] \in T
    BY <1>3, <1>9
  <1>12. f[1..n] \in T
    BY <1>1, <1>10, <1>11, FoldKeeps
  <1> QED
    BY <1>8, <1>12 DEF T

-----------------------------------------------------------------------------
(* What handlers do to the map.                                            *)

\* reset.
LEMMA ResetGrows ==
    ASSUME graph \in Graphs, local \in Graphs, IsReport(rep, Ids(local)), robot \in Places
    PROVE  ResetGraph \in Grown(graph)
  <1> DEFINE added == IF pending THEN AddFrontiers(graph, local, rep).graph ELSE graph
  <1>1. added \in Grown(graph)
    BY FrontiersGrow, GrowthIsReflexive
  <1>2. added \in Graphs
    BY <1>1 DEF Grown
  <1>3. Ids(added) = {} => AddVertex(added, Vertex(robot)) \in Grown(graph)
    <2> HIDE DEF added
    <2> QED
      BY <1>1, <1>2, NewVertex, RootGrows, GrowthIsTransitive
  <1>4. ResetGraph = IF triggers = 0 /\ Ids(added) = {}
                     THEN AddVertex(added, Vertex(robot)) ELSE added
    BY DEF ResetGraph
  <1> HIDE DEF added
  <1> QED
    BY <1>1, <1>3, <1>4

\* removeEdge at the vertices of a zone, found by the pairs they are in.
LEMMA CutIsGraph ==
    ASSUME NEW g \in Graphs, NEW pairs \in SUBSET g.neighbors,
           NEW h, h = RemoveEdges(g, pairs)
    PROVE  /\ h \in Graphs /\ Ids(h) = Ids(g) /\ h.vertex = g.vertex /\ h.idCount = g.idCount
           /\ h.edges = g.edges \ { {p[1], p[2]} : p \in pairs }
  <1>0. Sound(g)
    BY GraphsAreSound
  <1>1. /\ IsGraph(h) /\ InStep(h)
        /\ h.vertex = g.vertex /\ h.idCount = g.idCount
        /\ h.edges = g.edges \ { {p[1], p[2]} : p \in pairs }
    BY <1>0, RemovalKeepsRecords DEF Sound
  <1>2. Ids(h) = Ids(g) /\ DenseIds(h)
    BY <1>0, <1>1 DEF Sound, Ids, DenseIds
  <1>3. Sound(h)
    BY <1>0, <1>1, <1>2 DEF Sound
  <1> QED
    BY <1>1, <1>2, <1>3, GraphsAreSound

\* Every edge joins vertices.
LEMMA EdgesJoin ==
    ASSUME NEW g \in Graphs, NEW e \in g.edges
    PROVE  \E v, u \in Ids(g) : e = {v, u}
  <1>1. g.edges = { {p[1], p[2]} : p \in g.neighbors }
        /\ \A p \in g.neighbors : p[1] \in Ids(g) /\ p[2] \in Ids(g)
    BY SoundGraph DEF InStep, EdgeRecordsAgree
  <1>2. PICK p \in g.neighbors : e = {p[1], p[2]}
    BY <1>1
  <1> QED
    BY <1>1, <1>2

\* A vertex gets its flag and its type from a message.
LEMMA VertexWith ==
    ASSUME NEW v \in Vertices, NEW frontier \in BOOLEAN, NEW type \in Types,
           NEW w, w = [v EXCEPT !.frontier = frontier, !.type = type]
    PROVE  w \in Vertices
  <1>1. v = [place |-> v.place, type |-> v.type, frontier |-> v.frontier, gain |-> v.gain]
        /\ v.place \in Places /\ v.gain \in Nat
    BY DEF Vertices
  <1>2. w = [place |-> v.place, type |-> type, frontier |-> frontier, gain |-> v.gain]
    BY <1>1
  <1> QED
    BY <1>1, <1>2 DEF Vertices

\* loadGraph of what a mission has saved.
LEMMA LoadedIsGraph ==
    ASSUME NEW msg \in SavedMaps
    PROVE  MsgToGraph(msg) \in Graphs /\ MsgToGraph(msg).idCount < MaxVertices
  <1> DEFINE h == MsgToGraph(msg)
             pairs == { e \in (UNION msg.edges) \X (UNION msg.edges) : {e[1], e[2]} \in msg.edges }
             of(id) == CHOOSE w \in msg.vertices : w.id = id
             vertex == [id \in { v.id : v \in msg.vertices } |->
                           [Vertex(of(id).place) EXCEPT
                               !.frontier = of(id).frontier,
                               !.type = IF of(id).frontier THEN "kFrontier" ELSE "kUnvisited"]]
             bare == [EmptyGraph EXCEPT !.vertex = vertex, !.idCount = Cardinality(msg.vertices) - 1]
  <1>1. PICK n \in 0..MaxVertices :
            /\ msg.vertices \subseteq [id : 0..(n - 1), place : Places, frontier : BOOLEAN]
            /\ \A id \in 0..(n - 1) : \E v \in msg.vertices : v.id = id
            /\ \A v, w \in msg.vertices : v.id = w.id => v = w
            /\ \A e \in msg.edges : \E v, u \in 0..(n - 1) : e = {v, u}
    BY SavedMapAssumption
  <1>2. n \in Nat /\ n <= MaxVertices /\ MaxVertices \in Nat
    BY BoundAssumption
  <1>3. h = AddEdges(bare, pairs)
    BY DEF MsgToGraph
  <1>4. { v.id : v \in msg.vertices } = 0..(n - 1)
    BY <1>1
  <1>5. ASSUME NEW id \in 0..(n - 1)
        PROVE  /\ of(id) \in msg.vertices /\ of(id).id = id
               /\ of(id).place \in Places /\ of(id).frontier \in BOOLEAN
    <2>1. of(id) \in msg.vertices /\ of(id).id = id
      BY <1>1
    <2> HIDE DEF of
    <2> QED
      BY <1>1, <2>1
  <1>6. Cardinality(msg.vertices) = n
    <2> DEFINE f == [id \in 0..(n - 1) |-> of(id)]
    <2>1. f \in [0..(n - 1) -> msg.vertices]
      <3> HIDE DEF of
      <3> QED
        BY <1>5
    <2>2. \A id \in 0..(n - 1) : f[id] = of(id) /\ of(id).id = id
      <3> HIDE DEF of
      <3> QED
        BY <1>5
    <2>3. \A w \in msg.vertices : \E id \in 0..(n - 1) : f[id] = w
      <3> SUFFICES ASSUME NEW w \in msg.vertices
                   PROVE  \E id \in 0..(n - 1) : f[id] = w
        OBVIOUS
      <3>1. w.id \in 0..(n - 1)
        BY <1>1
      <3>2. f[w.id] \in msg.vertices /\ f[w.id].id = w.id
        BY <2>1, <2>2, <3>1
      <3>3. f[w.id] = w
        BY <1>1, <3>2
      <3> QED
        BY <3>1, <3>3
    <2> HIDE DEF f, of
    <2>4. \A id, k \in 0..(n - 1) : f[id] = f[k] => id = k
      BY <2>2
    <2>5. f \in Bijection(0..(n - 1), msg.vertices)
      BY <2>1, <2>3, <2>4 DEF Bijection, Injection, Surjection, IsInjective
    <2>6. IsFiniteSet(0..(n - 1)) /\ Cardinality(0..(n - 1)) = n
      BY <1>2, FS_Interval
    <2> QED
      BY <2>5, <2>6, FS_Bijection DEF ExistsBijection
  <1>7. vertex \in [0..(n - 1) -> Vertices]
    <2>1. ASSUME NEW id \in 0..(n - 1)
          PROVE  [Vertex(of(id).place) EXCEPT
                    !.frontier = of(id).frontier,
                    !.type = IF of(id).frontier THEN "kFrontier" ELSE "kUnvisited"] \in Vertices
      <3> DEFINE p == of(id).place
                 frontier == of(id).frontier
                 type == IF frontier THEN "kFrontier" ELSE "kUnvisited"
      <3>1. p \in Places /\ frontier \in BOOLEAN /\ type \in Types
        <4>1. p \in Places /\ frontier \in BOOLEAN
          BY <1>5
        <4> HIDE DEF p, frontier
        <4> QED
          BY <4>1 DEF Types
      <3> HIDE DEF p, frontier, type
      <3>2. Vertex(p) \in Vertices
        BY <3>1, NewVertex
      <3>3. [Vertex(p) EXCEPT !.frontier = frontier, !.type = type] \in Vertices
        BY <3>1, <3>2, VertexWith, Zenon
      <3> QED
        BY <3>3 DEF p, frontier, type
    <2> HIDE DEF of, Vertices
    <2> QED
      BY <1>4, <2>1
  <1>8. pairs \subseteq (0..(n - 1)) \X (0..(n - 1))
    <2>1. UNION msg.edges \subseteq 0..(n - 1)
      BY <1>1
    <2> QED
      BY <2>1
  <1>9. bare = [vertex |-> vertex, idCount |-> n - 1, edges |-> {}, edgeMap |-> {}, neighbors |-> {}]
    <2> HIDE DEF vertex
    <2>1. bare = [EmptyGraph EXCEPT !.vertex = vertex, !.idCount = n - 1]
      BY <1>6
    <2>2. /\ IsGraph(EmptyGraph)
          /\ EmptyGraph.edges = {} /\ EmptyGraph.edgeMap = {} /\ EmptyGraph.neighbors = {}
      BY DEF EmptyGraph, IsGraph
    <2> HIDE DEF bare
    <2> QED
      BY <2>1, <2>2, GraphWith
  <1> HIDE DEF vertex, bare, pairs, h
  <1>10. /\ IsGraph(bare) /\ bare.vertex = vertex /\ bare.idCount = n - 1
         /\ bare.edges = {} /\ bare.edgeMap = {} /\ bare.neighbors = {}
         /\ Ids(bare) = 0..(n - 1)
    <2>1. DOMAIN vertex = 0..(n - 1)
      <3> HIDE DEF Vertices
      <3> QED
        BY <1>7
    <2> QED
      BY <1>9, <2>1 DEF IsGraph, Ids
  <1>11. InStep(bare) /\ DenseIds(bare)
    BY <1>10 DEF InStep, EdgeRecordsAgree, DenseIds
  <1>12. Sound(bare)
    <2>1. n - 1 \in Int /\ n - 1 >= -1
      BY <1>2
    <2> HIDE DEF Vertices
    <2> QED
      BY <1>7, <1>10, <1>11, <2>1 DEF Sound
  <1>13. h \in Grown(bare) /\ h.idCount = n - 1
    BY <1>3, <1>8, <1>10, <1>12, GraphsAreSound, EdgesGrow
  <1> QED
    BY <1>2, <1>13 DEF Grown, h

=============================================================================
