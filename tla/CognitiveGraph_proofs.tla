------------------------ MODULE CognitiveGraph_proofs ------------------------
(***************************************************************************)
(* The operations of the graph, for every graph: adding a vertex or edges, *)
(* removing edges, and saving and loading keep the ids dense and the three *)
(* records of the edges in step.                                           *)
(***************************************************************************)
EXTENDS CognitiveGraph, TLAPS, FiniteSetTheorems

-----------------------------------------------------------------------------
(* Graphs as values.                                                       *)

\* A graph has the five fields, and a vertex its four.
IsGraph(g) ==
    g = [vertex |-> g.vertex, idCount |-> g.idCount, edges |-> g.edges,
         edgeMap |-> g.edgeMap, neighbors |-> g.neighbors]
IsVertex(v) ==
    /\ v = [place |-> v.place, type |-> v.type, frontier |-> v.frontier, gain |-> v.gain]
    /\ v.place \in Places

\* The three records agree and hold pairs of vertices.
InStep(g) == EdgeRecordsAgree(g) /\ g.neighbors \subseteq Ids(g) \X Ids(g)

\* So many ids are in use.
LEMMA DenseCount ==
    ASSUME NEW n \in Int, n >= -1
    PROVE  IsFiniteSet(0..n) /\ Cardinality(0..n) = n + 1
  BY FS_Interval

\* The edges that pairs of vertices stand for.
LEMMA EdgesOf ==
    ASSUME NEW edges, NEW pairs,
           \A e \in edges : \E p \in pairs : e = {p[1], p[2]},
           \A p \in pairs : {p[1], p[2]} \in edges
    PROVE  edges = { {p[1], p[2]} : p \in pairs }
  OBVIOUS

\* Two fields of a graph are replaced.
LEMMA GraphWith ==
    ASSUME NEW g, IsGraph(g), NEW vertex, NEW n,
           NEW h, h = [g EXCEPT !.vertex = vertex, !.idCount = n]
    PROVE  h = [vertex |-> vertex, idCount |-> n, edges |-> g.edges,
                edgeMap |-> g.edgeMap, neighbors |-> g.neighbors]
  BY DEF IsGraph

\* A vertex made with Vertex has its fields.
LEMMA VertexFields ==
    ASSUME NEW p \in Places
    PROVE  IsVertex(Vertex(p)) /\ Vertex(p).place = p
  BY DEF Vertex, IsVertex

\* Its type is changed in place.
LEMMA TypedVertex ==
    ASSUME NEW v, IsVertex(v), NEW type, NEW w, w = [v EXCEPT !.type = type]
    PROVE  IsVertex(w) /\ w.place = v.place
  <1>1. w = [place |-> v.place, type |-> type, frontier |-> v.frontier, gain |-> v.gain]
    BY DEF IsVertex
  <1> QED
    BY <1>1 DEF IsVertex

-----------------------------------------------------------------------------
(* Growing.                                                                *)

\* addVertex: the next id, which no vertex had, and everything else as it was.
LEMMA AddVertexAdds ==
    ASSUME NEW g, IsGraph(g), g.idCount \in Int, DenseIds(g), NEW v,
           NEW h, h = AddVertex(g, v), g.idCount >= -1
    PROVE  /\ IsGraph(h) /\ DenseIds(h)
           /\ h.idCount = g.idCount + 1
           /\ Ids(h) = Ids(g) \cup {h.idCount}
           /\ h.vertex[h.idCount] = v
           /\ \A u \in Ids(g) : h.vertex[u] = g.vertex[u]
           /\ h.edges = g.edges /\ h.edgeMap = g.edgeMap /\ h.neighbors = g.neighbors
  <1> DEFINE id == g.idCount + 1
  <1>1. h = [vertex |-> [u \in DOMAIN g.vertex \cup {id} |-> IF u = id THEN v ELSE g.vertex[u]], idCount |-> id, edges |-> g.edges,
             edgeMap |-> g.edgeMap, neighbors |-> g.neighbors]
    BY DEF AddVertex, GenerateVertexID, IsGraph
  <1>2. /\ DOMAIN h.vertex = {id} \cup DOMAIN g.vertex
        /\ h.vertex[id] = v
        /\ \A u \in DOMAIN g.vertex \ {id} : h.vertex[u] = g.vertex[u]
    BY <1>1
  <1>3. id \notin Ids(g) /\ Ids(g) \cup {id} = 0..id
    BY DEF DenseIds
  <1> QED
    BY <1>1, <1>2, <1>3 DEF IsGraph, DenseIds, Ids

\* A vertex more leaves the records in step.
LEMMA AddVertexInStep ==
    ASSUME NEW g, IsGraph(g), g.idCount \in Int, DenseIds(g), NEW v,
           NEW h, h = AddVertex(g, v), g.idCount >= -1, InStep(g)
    PROVE  InStep(h)
  <1>1. /\ Ids(g) \subseteq Ids(h)
        /\ h.edges = g.edges /\ h.edgeMap = g.edgeMap /\ h.neighbors = g.neighbors
    BY AddVertexAdds
  <1> QED
    BY <1>1 DEF InStep, EdgeRecordsAgree

\* addEdge: the edges asked for, and no vertex.
LEMMA AddEdgesAdds ==
    ASSUME NEW g, IsGraph(g), NEW pairs, NEW h, h = AddEdges(g, pairs)
    PROVE  /\ IsGraph(h)
           /\ h.vertex = g.vertex /\ h.idCount = g.idCount
           /\ h.edges = g.edges \cup { {p[1], p[2]} : p \in pairs }
           /\ h.edgeMap = g.edgeMap \cup pairs \cup { <<p[2], p[1]>> : p \in pairs }
           /\ h.neighbors = g.neighbors \cup pairs \cup { <<p[2], p[1]>> : p \in pairs }
  <1> DEFINE back == { <<p[2], p[1]>> : p \in pairs }
  <1>1. h = [vertex |-> g.vertex, idCount |-> g.idCount,
             edges |-> g.edges \cup { {p[1], p[2]} : p \in pairs },
             edgeMap |-> g.edgeMap \cup pairs \cup back,
             neighbors |-> g.neighbors \cup pairs \cup back]
    BY DEF AddEdges, IsGraph
  <1> QED
    BY <1>1 DEF IsGraph

\* Edges between vertices leave the records in step.
LEMMA AddEdgesInStep ==
    ASSUME NEW g, IsGraph(g), InStep(g),
           NEW pairs, pairs \subseteq Ids(g) \X Ids(g),
           NEW h, h = AddEdges(g, pairs)
    PROVE  InStep(h)
  <1> DEFINE back == { <<p[2], p[1]>> : p \in pairs }
  <1>1. /\ Ids(h) = Ids(g)
        /\ h.edges = g.edges \cup { {p[1], p[2]} : p \in pairs }
        /\ h.edgeMap = g.edgeMap \cup pairs \cup back
        /\ h.neighbors = g.neighbors \cup pairs \cup back
    BY AddEdgesAdds DEF Ids
  <1>2. back \subseteq Ids(g) \X Ids(g)
    OBVIOUS
  <1>3. h.neighbors \subseteq Ids(h) \X Ids(h)
    BY <1>1, <1>2 DEF InStep
  <1>4. h.edgeMap = h.neighbors
    BY <1>1 DEF InStep, EdgeRecordsAgree
  <1>5. ASSUME NEW p \in h.neighbors
        PROVE  <<p[2], p[1]>> \in h.neighbors
    <2>1. CASE p \in g.neighbors
      BY <1>1, <2>1 DEF InStep, EdgeRecordsAgree
    <2>2. CASE p \in pairs
      BY <1>1, <2>2
    <2>3. CASE p \in back
      <3>1. PICK q \in pairs : p = <<q[2], q[1]>>
        BY <2>3
      <3>2. q = <<q[1], q[2]>>
        OBVIOUS
      <3>3. <<p[2], p[1]>> = q
        BY <3>1, <3>2
      <3> QED
        BY <1>1, <3>3
    <2> QED
      BY <1>1, <2>1, <2>2, <2>3
  <1>6. h.edges = { {p[1], p[2]} : p \in h.neighbors }
    <2>1. ASSUME NEW e \in h.edges
          PROVE  \E p \in h.neighbors : e = {p[1], p[2]}
      BY <1>1 DEF InStep, EdgeRecordsAgree
    <2>2. ASSUME NEW p \in h.neighbors
          PROVE  {p[1], p[2]} \in h.edges
      <3>1. CASE p \in g.neighbors
        BY <1>1, <3>1 DEF InStep, EdgeRecordsAgree
      <3>2. CASE p \in pairs
        BY <1>1, <3>2
      <3>3. CASE p \in back
        <4>1. PICK q \in pairs : p = <<q[2], q[1]>>
          BY <3>3
        <4>2. {p[1], p[2]} = {q[1], q[2]}
          BY <4>1
        <4> QED
          BY <1>1, <4>2
      <3> QED
        BY <1>1, <3>1, <3>2, <3>3
    <2> HIDE DEF back
    <2> QED
      BY <2>1, <2>2, EdgesOf
  <1> QED
    BY <1>3, <1>4, <1>5, <1>6 DEF InStep, EdgeRecordsAgree

-----------------------------------------------------------------------------
(* Cutting.                                                                *)

\* removeEdge, as the exclusion zones use it: of any neighbours, whatever was
\* found of them, the three records lose the same edges, in both directions.
THEOREM RemovalKeepsRecords ==
    ASSUME NEW g, IsGraph(g), InStep(g), NEW pairs, pairs \subseteq g.neighbors,
           NEW h, h = RemoveEdges(g, pairs)
    PROVE  /\ IsGraph(h) /\ InStep(h)
           /\ h.vertex = g.vertex /\ h.idCount = g.idCount
           /\ h.edges = g.edges \ { {p[1], p[2]} : p \in pairs }
  <1> DEFINE back == { <<p[2], p[1]>> : p \in pairs }
             gone == { {p[1], p[2]} : p \in pairs }
  <1>1. h = [vertex |-> g.vertex, idCount |-> g.idCount,
             edges |-> g.edges \ gone,
             edgeMap |-> g.edgeMap \ (pairs \cup back),
             neighbors |-> g.neighbors \ (pairs \cup back)]
    BY DEF RemoveEdges, IsGraph
  <1>2. /\ IsGraph(h) /\ Ids(h) = Ids(g)
        /\ h.vertex = g.vertex /\ h.idCount = g.idCount
        /\ h.edges = g.edges \ gone
        /\ h.edgeMap = g.edgeMap \ (pairs \cup back)
        /\ h.neighbors = g.neighbors \ (pairs \cup back)
    BY <1>1 DEF IsGraph, Ids
  <1>3. /\ g.edgeMap = g.neighbors
        /\ \A p \in g.neighbors : p = <<p[1], p[2]>> /\ <<p[2], p[1]>> \in g.neighbors
        /\ g.neighbors \subseteq Ids(g) \X Ids(g)
        /\ g.edges = { {p[1], p[2]} : p \in g.neighbors }
    BY DEF InStep, EdgeRecordsAgree
  <1>4. ASSUME NEW p \in g.neighbors, p \notin pairs \cup back
        PROVE  <<p[2], p[1]>> \notin pairs \cup back
    <2>1. ASSUME <<p[2], p[1]>> \in pairs
          PROVE  FALSE
      <3>1. p \in back
        BY <1>3, <2>1
      <3> QED
        BY <1>4, <3>1
    <2>2. ASSUME <<p[2], p[1]>> \in back
          PROVE  FALSE
      <3>1. PICK q \in pairs : <<p[2], p[1]>> = <<q[2], q[1]>>
        BY <2>2
      <3>2. p = q
        BY <1>3, <3>1
      <3> QED
        BY <1>4, <3>2
    <2> QED
      BY <2>1, <2>2
  <1>5. \A p \in h.neighbors : <<p[2], p[1]>> \in h.neighbors
    BY <1>2, <1>3, <1>4
  <1>6. ASSUME NEW p \in g.neighbors
        PROVE  {p[1], p[2]} \in gone <=> p \in pairs \cup back
    <2>1. ASSUME {p[1], p[2]} \in gone
          PROVE  p \in pairs \cup back
      <3>1. PICK q \in pairs : {p[1], p[2]} = {q[1], q[2]}
        BY <2>1
      <3>2. \/ p[1] = q[1] /\ p[2] = q[2]
            \/ p[1] = q[2] /\ p[2] = q[1]
        BY <3>1
      <3>3. p = q \/ p = <<q[2], q[1]>>
        BY <1>3, <3>2
      <3> QED
        BY <3>3
    <2>2. ASSUME p \in back
          PROVE  {p[1], p[2]} \in gone
      <3>1. PICK q \in pairs : p = <<q[2], q[1]>>
        BY <2>2
      <3>2. {p[1], p[2]} = {q[1], q[2]}
        BY <3>1
      <3> QED
        BY <3>2
    <2> QED
      BY <2>1, <2>2
  <1> HIDE DEF gone, back
  <1>7. h.edges = { {p[1], p[2]} : p \in h.neighbors }
    BY <1>2, <1>3, <1>6
  <1>8. InStep(h)
    BY <1>2, <1>3, <1>5, <1>7 DEF InStep, EdgeRecordsAgree
  <1> QED
    BY <1>2, <1>8 DEF gone

-----------------------------------------------------------------------------
(* Saving and loading.                                                     *)

\* saveGraph and loadGraph: any graph with dense ids and records in step comes
\* back with its ids, its counter, its edges in all records, and every vertex
\* where it was.
THEOREM SavedGraphLoads ==
    ASSUME NEW g, IsGraph(g), InStep(g), DenseIds(g), g.idCount \in Int, g.idCount >= -1,
           NEW h, h = MsgToGraph(GraphToMsg(g))
    PROVE  /\ IsGraph(h) /\ InStep(h) /\ DenseIds(h)
           /\ Ids(h) = Ids(g) /\ h.idCount = g.idCount
           /\ h.edges = g.edges /\ h.neighbors = g.neighbors
           /\ \A v \in Ids(g) : h.vertex[v].place = g.vertex[v].place
  <1> DEFINE saved(v) == [id |-> v, place |-> g.vertex[v].place, frontier |-> g.vertex[v].frontier]
             vertices == { saved(v) : v \in Ids(g) }
             msg == GraphToMsg(g)
             pairs == { e \in (UNION msg.edges) \X (UNION msg.edges) : {e[1], e[2]} \in msg.edges }
             of(id) == CHOOSE w \in msg.vertices : w.id = id
             vertex == [id \in { v.id : v \in msg.vertices } |->
                           [Vertex(of(id).place) EXCEPT
                               !.frontier = of(id).frontier,
                               !.type = IF of(id).frontier THEN "kFrontier" ELSE "kUnvisited"]]
             bare == [EmptyGraph EXCEPT !.vertex = vertex, !.idCount = Cardinality(msg.vertices) - 1]
  <1>1. msg.vertices = vertices /\ msg.edges = g.edges
    BY DEF GraphToMsg
  <1>2. h = AddEdges(bare, pairs)
    BY DEF MsgToGraph
  <1>3. { v.id : v \in vertices } = Ids(g)
    <2>1. \A v \in Ids(g) : saved(v) \in vertices /\ saved(v).id = v
      OBVIOUS
    <2>2. \A w \in vertices : w.id \in Ids(g)
      OBVIOUS
    <2> HIDE DEF saved, vertices
    <2> QED
      BY <2>1, <2>2, Zenon
  <1>4. ASSUME NEW id \in Ids(g)
        PROVE  of(id) = saved(id)
    <2>1. saved(id) \in msg.vertices /\ saved(id).id = id
      BY <1>1
    <2>2. \A w \in msg.vertices : w.id = id => w = saved(id)
      BY <1>1
    <2> QED
      BY <2>1, <2>2
  <1>5. Cardinality(msg.vertices) = g.idCount + 1
    <2> DEFINE f == [v \in Ids(g) |-> saved(v)]
    <2>1. f \in Bijection(Ids(g), vertices)
      <3>1. \A v \in Ids(g) : f[v] = saved(v) /\ saved(v).id = v
        OBVIOUS
      <3>2. f \in [Ids(g) -> vertices]
        OBVIOUS
      <3>3. \A w \in vertices : \E v \in Ids(g) : f[v] = w
        OBVIOUS
      <3> HIDE DEF f, saved, vertices
      <3>4. \A v, u \in Ids(g) : f[v] = f[u] => v = u
        BY <3>1
      <3> QED
        BY <3>2, <3>3, <3>4 DEF Bijection, Injection, Surjection, IsInjective
    <2>2. /\ IsFiniteSet(Ids(g))
          /\ Cardinality(Ids(g)) = g.idCount + 1
      <3>1. Ids(g) = 0..g.idCount
        BY DEF DenseIds
      <3>2. /\ IsFiniteSet(0..g.idCount)
            /\ Cardinality(0..g.idCount) = g.idCount + 1
        BY DenseCount
      <3> QED
        BY <3>1, <3>2
    <2> HIDE DEF f, vertices
    <2>3. Cardinality(vertices) = Cardinality(Ids(g))
      BY <2>1, <2>2, FS_Bijection DEF ExistsBijection
    <2> QED
      BY <1>1, <2>2, <2>3
  <1>6. pairs = g.neighbors
    <2>1. /\ g.edges = { {p[1], p[2]} : p \in g.neighbors }
          /\ \A p \in g.neighbors : p = <<p[1], p[2]>> /\ <<p[2], p[1]>> \in g.neighbors
      BY DEF InStep, EdgeRecordsAgree
    <2>2. ASSUME NEW e \in pairs
          PROVE  e \in g.neighbors
      <3>1. e = <<e[1], e[2]>> /\ {e[1], e[2]} \in g.edges
        BY <1>1
      <3>2. PICK p \in g.neighbors : {e[1], e[2]} = {p[1], p[2]}
        BY <2>1, <3>1
      <3>3. \/ e[1] = p[1] /\ e[2] = p[2]
            \/ e[1] = p[2] /\ e[2] = p[1]
        BY <3>2
      <3> QED
        BY <2>1, <3>1, <3>3
    <2>3. ASSUME NEW p \in g.neighbors
          PROVE  p \in pairs
      <3>1. {p[1], p[2]} \in g.edges /\ p = <<p[1], p[2]>>
        BY <2>1
      <3>2. p[1] \in UNION g.edges /\ p[2] \in UNION g.edges
        BY <3>1
      <3>3. p \in (UNION g.edges) \X (UNION g.edges)
        BY <3>1, <3>2
      <3> QED
        BY <1>1, <3>1, <3>3
    <2> QED
      BY <2>2, <2>3
  <1>7. bare = [vertex |-> vertex, idCount |-> g.idCount,
                edges |-> {}, edgeMap |-> {}, neighbors |-> {}]
    <2> HIDE DEF vertex, msg
    <2>1. Cardinality(msg.vertices) - 1 = g.idCount
      BY <1>5
    <2>2. bare = [EmptyGraph EXCEPT !.vertex = vertex, !.idCount = g.idCount]
      BY <2>1
    <2>3. /\ IsGraph(EmptyGraph)
          /\ EmptyGraph.edges = {} /\ EmptyGraph.edgeMap = {} /\ EmptyGraph.neighbors = {}
      BY DEF EmptyGraph, IsGraph
    <2> HIDE DEF bare
    <2> QED
      BY <2>2, <2>3, GraphWith
  <1>8. DOMAIN vertex = Ids(g)
    BY <1>1, <1>3
  <1>9. \A v \in Ids(g) : vertex[v].place = g.vertex[v].place
    <2> SUFFICES ASSUME NEW v \in Ids(g)
                 PROVE  vertex[v].place = g.vertex[v].place
      <3> HIDE DEF vertex
      <3> QED
        OBVIOUS
    <2>1. of(v).place = g.vertex[v].place
      <3>1. saved(v).place = g.vertex[v].place
        OBVIOUS
      <3> HIDE DEF of, saved
      <3> QED
        BY <1>4, <3>1
    <2>2. vertex[v] = [Vertex(of(v).place) EXCEPT
                          !.frontier = of(v).frontier,
                          !.type = IF of(v).frontier THEN "kFrontier" ELSE "kUnvisited"]
      BY <1>8
    <2> HIDE DEF of, vertex
    <2>3. vertex[v].place = of(v).place
      BY <2>2 DEF Vertex
    <2> QED
      BY <2>1, <2>3
  <1> HIDE DEF pairs, vertex, bare, msg
  <1>10. /\ IsGraph(bare) /\ Ids(bare) = Ids(g)
         /\ bare.edges = {} /\ bare.edgeMap = {} /\ bare.neighbors = {}
         /\ bare.idCount = g.idCount /\ bare.vertex = vertex
    BY <1>7, <1>8 DEF IsGraph, Ids
  <1>11. InStep(bare)
    BY <1>10 DEF InStep, EdgeRecordsAgree
  <1>12. g.neighbors \subseteq Ids(g) \X Ids(g)
    BY DEF InStep
  <1>13. InStep(h)
    BY <1>2, <1>6, <1>10, <1>11, <1>12, AddEdgesInStep
  <1>14. /\ IsGraph(h) /\ h.vertex = vertex /\ h.idCount = g.idCount
         /\ h.edges = { {p[1], p[2]} : p \in g.neighbors }
         /\ h.neighbors = g.neighbors \cup { <<p[2], p[1]>> : p \in g.neighbors }
    BY <1>2, <1>6, <1>10, AddEdgesAdds
  <1>15. h.edges = g.edges /\ h.neighbors = g.neighbors
    BY <1>14 DEF InStep, EdgeRecordsAgree
  <1>16. Ids(h) = Ids(g) /\ DenseIds(h)
    BY <1>8, <1>14 DEF Ids, DenseIds
  <1> QED
    BY <1>9, <1>13, <1>14, <1>15, <1>16
=============================================================================
