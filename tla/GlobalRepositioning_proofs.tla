---------------------- MODULE GlobalRepositioning_proofs ----------------------
(***************************************************************************)
(* The planners on the cognitive map, for every space, map and budget of   *)
(* time.  The map stays a sound graph and keeps what PlaceMap promises,    *)
(* whatever handler runs; what the other handlers remember of it stays on  *)
(* it; a place that was visited is never a frontier again; and a planner   *)
(* that takes all for explored is right.                                   *)
(***************************************************************************)
EXTENDS GlobalRepositioning, CognitiveMap_proofs

-----------------------------------------------------------------------------
(* Paths along the map: where they start, how they lead and how long they  *)
(* are.                                                                    *)

\* An edge that is added is there.
LEMMA LinkIsEdge ==
    ASSUME NEW g \in Graphs, NEW v \in Vertices, NEW to \in Ids(g)
    PROVE  {to, GenerateVertexID(g)} \in NewLinked(g, v, to).edges
  <1>1. {GenerateVertexID(g), to} \in NewLinked(g, v, to).edges
    BY LinkedGrows
  <1>2. {GenerateVertexID(g), to} = {to, GenerateVertexID(g)}
    OBVIOUS
  <1> QED
    BY <1>1, <1>2

\* What stands for a place still does when the graph has grown.
LEMMA StillStands ==
    ASSUME NEW g \in Graphs, NEW v \in Ids(g), NEW p, StandsFor(g, v, p), NEW h \in Grown(g)
    PROVE  StandsFor(h, v, p)
  <1>1. /\ Ids(g) \subseteq Ids(h) /\ g.edges \subseteq h.edges
        /\ \A u \in Ids(g) : h.vertex[u].place = g.vertex[u].place
    BY DEF Grown, Grows
  <1>2. CASE g.vertex[v].place = p
    BY <1>1, <1>2 DEF StandsFor
  <1>3. CASE g.vertex[v].place # p
    <2>1. PICK u \in Ids(g) : /\ {u, v} \in g.edges /\ Dist(g.vertex[u].place, p) > EdgeMax
                              /\ g.vertex[v].place = Truncated(g.vertex[u].place, p)
      BY <1>3 DEF StandsFor
    <2>2. /\ u \in Ids(h) /\ {u, v} \in h.edges /\ Dist(h.vertex[u].place, p) > EdgeMax
          /\ h.vertex[v].place = Truncated(h.vertex[u].place, p)
      BY <1>1, <2>1
    <2> QED
      BY <2>2 DEF StandsFor
  <1> QED
    BY <1>2, <1>3

\* expandGraph lays a vertex that stands for the point it was asked for.
LEMMA ExpandedStands ==
    ASSUME NEW g \in Graphs, NEW p \in Places, NEW type \in Types, CanExpand(g, p)
    PROVE  StandsFor(ExpandGraph(g, p, type), GenerateVertexID(g), p)
  <1> DEFINE id == GenerateVertexID(g)
             near == NearestVertex(g, p)
             from == g.vertex[near].place
             place == Truncated(from, p)
             new == [Vertex(place) EXCEPT !.type = type]
             k == NewLinked(g, new, near)
             h == LinkInRange(k, id)
  <1>1. Ids(g) # {}
    BY DEF CanExpand
  <1>2. near \in Ids(g) /\ from \in Places
    BY <1>1, NearestIsVertex
  <1>3. ExpandGraph(g, p, type) = h
    BY DEF ExpandGraph
  <1> HIDE DEF near
  <1>4. place \in Places /\ Dist(from, p) \in Nat /\ EdgeMax \in Nat
    BY <1>2, TruncatedIsPlace, SpaceAssumption
  <1>5. Dist(from, p) <= EdgeMax => place = p
    BY DEF Truncated
  <1> HIDE DEF place
  <1>6. new \in Vertices /\ new.place = place
    BY <1>4, NewVertex DEF Vertex
  <1> HIDE DEF new, id
  <1>7. /\ k \in Grown(g) /\ k \in Graphs /\ Ids(k) = Ids(g) \cup {id} /\ id \in Ids(k)
        /\ k.vertex[id] = new
    BY <1>2, <1>6, LinkedGrows DEF Grown, id
  <1>8. {near, id} \in k.edges
    BY <1>2, <1>6, LinkIsEdge DEF id
  <1>9. k.vertex[near].place = from /\ near \in Ids(k)
    BY <1>2, <1>7 DEF Grown, Grows
  <1> HIDE DEF k, from
  <1>10. StandsFor(k, id, p)
    <2>1. CASE Dist(from, p) <= EdgeMax
      BY <1>5, <1>6, <1>7, <2>1 DEF StandsFor
    <2>2. CASE ~(Dist(from, p) <= EdgeMax)
      <3>1. Dist(from, p) > EdgeMax
        BY <1>4, <2>2
      <3> QED
        BY <1>6, <1>7, <1>8, <1>9, <3>1 DEF StandsFor, place
    <2> QED
      BY <2>1, <2>2
  <1>11. h \in Grown(k)
    BY <1>7, ExpandedEdgesGrow
  <1> HIDE DEF h
  <1> QED
    BY <1>3, <1>7, <1>10, <1>11, StillStands DEF id

\* A vertex that a place was tied to stands for it.
LEMMA TieStands ==
    ASSUME NEW g \in Graphs, NEW p \in Places, NEW limit, NEW reuse
    PROVE  LET tie == Tie(g, p, limit, reuse) IN tie.id # -1 => StandsFor(tie.graph, tie.id, p)
  <1> DEFINE tie == Tie(g, p, limit, reuse)
             near == NearestVertex(g, p)
             id == GenerateVertexID(g)
             linked == NewLinked(g, Vertex(p), near)
             expanded == ExpandGraph(g, p, "kUnvisited")
  <1>1. CASE tie = [graph |-> g, id |-> -1]
    <2> HIDE DEF tie
    <2> QED
      BY <1>1 DEF tie
  <1>2. CASE Ids(g) # {} /\ Dist(g.vertex[near].place, p) = 0 /\ tie = [graph |-> g, id |-> near]
    <2>1. near \in Ids(g) /\ g.vertex[near].place \in Places
      BY <1>2, NearestIsVertex
    <2> HIDE DEF tie, near
    <2>2. g.vertex[near].place = p
      BY <1>2, <2>1, SpaceAssumption
    <2>3. StandsFor(tie.graph, tie.id, p)
      BY <1>2, <2>2 DEF StandsFor
    <2> QED
      BY <2>3 DEF tie
  <1>3. CASE Ids(g) # {} /\ tie = [graph |-> linked, id |-> id]
    <2>1. near \in Ids(g)
      BY <1>3, NearestIsVertex
    <2>2. Vertex(p) \in Vertices /\ Vertex(p).place = p
      BY NewVertex
    <2>3. linked.vertex[id] = Vertex(p)
      <3> HIDE DEF near
      <3> QED
        BY <2>1, <2>2, LinkedGrows
    <2> HIDE DEF tie, linked, id
    <2>4. StandsFor(tie.graph, tie.id, p)
      BY <1>3, <2>2, <2>3 DEF StandsFor
    <2> QED
      BY <2>4 DEF tie
  <1>4. CASE CanExpand(g, p) /\ tie = [graph |-> expanded, id |-> id]
    <2>1. "kUnvisited" \in Types
      BY DEF Types
    <2>2. StandsFor(expanded, id, p)
      BY <1>4, <2>1, ExpandedStands
    <2> HIDE DEF tie, expanded, id
    <2>3. StandsFor(tie.graph, tie.id, p)
      BY <1>4, <2>2
    <2> QED
      BY <2>3 DEF tie
  <1> QED
    BY <1>1, <1>2, <1>3, <1>4 DEF Tie

\* So does one that the robot was anchored to.
LEMMA AnchorStands ==
    ASSUME NEW g \in Graphs, NEW p \in Places
    PROVE  Anchor(g, p).id # -1 => StandsFor(Anchor(g, p).graph, Anchor(g, p).id, p)
  <1> DEFINE tie == Tie(g, p, AnchorLimit, TRUE)
             edges == IF IsNear(g, p, AnchorLimit) THEN ExpandGraphEdges(tie.graph, tie.id)
                      ELSE tie.graph
             h == MaybeAddShortcutEdges(edges, tie.id)
  <1>1. IsTie(g, tie) /\ (tie.id # -1 => StandsFor(tie.graph, tie.id, p))
    BY TieIsTie, TieStands
  <1>2. Anchor(g, p) = IF tie.id = -1 THEN tie ELSE [tie EXCEPT !.graph = h]
    BY DEF Anchor
  <1> HIDE DEF tie
  <1>3. CASE tie.id = -1
    BY <1>2, <1>3
  <1>4. CASE tie.id # -1
    <2>1. tie.graph \in Graphs /\ tie.id \in Ids(tie.graph) /\ StandsFor(tie.graph, tie.id, p)
      BY <1>1, <1>4 DEF IsTie, Grown
    <2>2. edges \in Grown(tie.graph) /\ Ids(edges) = Ids(tie.graph)
      BY <2>1, ExpandedEdgesGrow, GrowthIsReflexive
    <2> HIDE DEF edges
    <2>3. edges \in Graphs
      BY <2>2 DEF Grown
    <2>4. h \in Grown(edges)
      BY <2>1, <2>2, <2>3, ExpandedEdgesGrow
    <2> HIDE DEF h
    <2>5. StandsFor(edges, tie.id, p)
      BY <2>1, <2>2, StillStands
    <2>6. StandsFor(h, tie.id, p)
      BY <2>1, <2>2, <2>3, <2>4, <2>5, StillStands
    <2>7. Anchor(g, p) = [graph |-> h, id |-> tie.id]
      BY <1>1, <1>2, <1>4 DEF IsTie
    <2> QED
      BY <2>6, <2>7
  <1> QED
    BY <1>3, <1>4

\* And one the robot is tied to for a way home.
LEMMA RobotStands ==
    ASSUME NEW g \in Graphs, Ids(g) # {}, robot \in Places
    PROVE  TieRobot(g).id # -1 => StandsFor(TieRobot(g).graph, TieRobot(g).id, robot)
  <1> DEFINE tie == Tie(g, robot, AnchorLimit, FALSE)
             h == ExpandGraphEdges(tie.graph, tie.id)
             linked == [tie EXCEPT !.graph = h]
  <1>1. IsTie(g, tie) /\ (tie.id # -1 => StandsFor(tie.graph, tie.id, robot))
    BY TieIsTie, TieStands
  <1>2. TieRobot(g) = IF IsNear(g, robot, AnchorLimit) THEN linked ELSE tie
    BY DEF TieRobot
  <1> HIDE DEF tie
  <1>3. linked = [graph |-> h, id |-> tie.id]
    BY <1>1 DEF IsTie
  <1> HIDE DEF linked
  <1>4. ASSUME tie.id # -1
        PROVE  StandsFor(h, tie.id, robot)
    <2>1. tie.graph \in Graphs /\ tie.id \in Ids(tie.graph) /\ StandsFor(tie.graph, tie.id, robot)
      BY <1>1, <1>4 DEF IsTie, Grown
    <2>2. h \in Grown(tie.graph)
      BY <2>1, ExpandedEdgesGrow
    <2> HIDE DEF h
    <2> QED
      BY <2>1, <2>2, StillStands
  <1> HIDE DEF h
  <1> QED
    BY <1>1, <1>2, <1>3, <1>4

\* A path leads along the edges of a graph.
Along(g, path, from, to) ==
    /\ path \in Seq(Ids(g)) /\ path # <<>> /\ path[1] = from /\ path[Len(path)] = to
    /\ \A i \in 1..(Len(path) - 1) : {path[i], path[i + 1]} \in g.edges

\* It still does when the graph has grown, and it leads back as well.
LEMMA AlongGrown ==
    ASSUME NEW g, NEW path, NEW from, NEW to, Along(g, path, from, to), NEW h \in Grown(g)
    PROVE  Along(h, path, from, to)
  <1>1. Ids(g) \subseteq Ids(h) /\ g.edges \subseteq h.edges
    BY DEF Grown, Grows
  <1>2. path \in Seq(Ids(h))
    BY <1>1 DEF Along
  <1> QED
    BY <1>1, <1>2 DEF Along
LEMMA AlongReversed ==
    ASSUME NEW g, NEW path, NEW from, NEW to, Along(g, path, from, to)
    PROVE  Along(g, Reverse(path), to, from)
  <1> DEFINE n == Len(path)
             back == Reverse(path)
  <1>1. path \in Seq(Ids(g)) /\ n \in Nat /\ n >= 1 /\ path[1] = from /\ path[n] = to
    BY DEF Along
  <1>2. /\ back \in Seq(Ids(g)) /\ Len(back) = n /\ back # <<>>
        /\ \A i \in 1..n : back[i] = path[(n - i) + 1]
    <2>1. back = [i \in 1..n |-> path[(n - i) + 1]]
      BY DEF Reverse
    <2>2. \A i \in 1..n : (n - i) + 1 \in 1..n /\ path[(n - i) + 1] \in Ids(g)
      BY <1>1
    <2> HIDE DEF back, n
    <2>3. back \in [1..n -> Ids(g)]
      BY <2>1, <2>2
    <2>4. back \in Seq(Ids(g)) /\ Len(back) = n
      BY <1>1, <2>3
    <2> QED
      BY <1>1, <2>1, <2>4
  <1> HIDE DEF back, n
  <1>3. back[1] = to /\ back[n] = from
    BY <1>1, <1>2
  <1>4. ASSUME NEW i \in 1..(n - 1)
        PROVE  {back[i], back[i + 1]} \in g.edges
    <2> DEFINE k == n - i
    <2>1. /\ k \in 1..(n - 1) /\ (n - i) + 1 = k + 1 /\ (n - (i + 1)) + 1 = k
          /\ i \in 1..n /\ i + 1 \in 1..n
      BY <1>1
    <2>2. back[i] = path[k + 1] /\ back[i + 1] = path[k]
      BY <1>2, <2>1
    <2>3. {path[k], path[k + 1]} \in g.edges
      BY <2>1 DEF Along, n
    <2>4. {path[k], path[k + 1]} = {path[k + 1], path[k]}
      OBVIOUS
    <2> QED
      BY <2>2, <2>3, <2>4
  <1> QED
    BY <1>2, <1>3, <1>4 DEF Along, back

\* A length is a sum over the steps.
LEMMA LengthIsSum ==
    ASSUME NEW g \in Graphs, NEW path \in Seq(Ids(g)), NEW n \in Nat, Steps(path) = 1..n,
           NEW w, w = [i \in 1..n |-> VertexDist(g, path[i], path[i + 1])]
    PROVE  /\ \A i \in 1..n : w[i] = VertexDist(g, path[i], path[i + 1]) /\ w[i] \in Int
           /\ w \in [1..n -> Int]
           /\ SumsTo(Length(g, path), 1..n, w)
  <1> DEFINE S == 1..n
             some(s) == CHOOSE x \in s : TRUE
             pick == [s \in SUBSET S |-> some(s)]
             long(i) == VertexDist(g, path[i], path[i + 1])
             Sums(f) == f = [s \in SUBSET S |->
                               IF s = {} THEN 0 ELSE long(some(s)) + f[s \ {some(s)}]]
  <1>1. w \in [S -> Int] /\ \A i \in S : w[i] = long(i)
    <2>1. ASSUME NEW i \in S
          PROVE  long(i) \in Int
      <3>1. Len(path) \in Nat /\ Steps(path) = 1..(Len(path) - 1)
        BY DEF Steps
      <3>2. i \in 1..(Len(path) - 1)
        BY <3>1
      <3>3. path[i] \in Ids(g) /\ path[i + 1] \in Ids(g)
        BY <3>1, <3>2
      <3>4. VertexDist(g, path[i], path[i + 1]) \in Nat
        BY <3>3, EdgeLength
      <3> HIDE DEF S
      <3> QED
        BY <3>4
    <2>2. w = [i \in S |-> long(i)]
      OBVIOUS
    <2> HIDE DEF long, S
    <2> QED
      BY <2>1, <2>2
  <1>2. IsFiniteSet(S)
    BY FS_Interval
  <1>3. \A s \in SUBSET S : pick[s] = some(s)
    OBVIOUS
  <1>4. \A s : s # {} => some(s) \in s
    OBVIOUS
  <1>5. Length(g, path) = (CHOOSE f : Sums(f))[S]
    BY DEF Length, MapThenSumSet, MapThenFoldSet
  <1> HIDE DEF some, pick, long, S
  <1>6. Picks(pick, S)
    BY <1>3, <1>4 DEF Picks
  <1>7. PICK it \in [SUBSET S -> Int] : IsSum(it, S, pick, w)
    BY <1>1, <1>2, <1>6, SumExists
  <1>8. Sums(it)
    <2> SUFFICES ASSUME NEW s \in SUBSET S
                 PROVE  it[s] = IF s = {} THEN 0 ELSE long(some(s)) + it[s \ {some(s)}]
      BY <1>7
    <2>1. it[s] = IF s = {} THEN 0 ELSE w[pick[s]] + it[s \ {pick[s]}]
      BY <1>7 DEF IsSum
    <2>2. s # {} => some(s) \in S
      BY <1>4
    <2> QED
      BY <1>1, <1>3, <2>1, <2>2
  <1>9. PICK f : Sums(f) /\ Length(g, path) = f[S]
    <2> HIDE DEF Sums
    <2> QED
      BY <1>5, <1>8
  <1>10. IsSum(f, S, pick, w)
    <2> SUFFICES ASSUME NEW s \in SUBSET S
                 PROVE  f[s] = IF s = {} THEN 0 ELSE w[pick[s]] + f[s \ {pick[s]}]
      BY DEF IsSum
    <2>1. f[s] = IF s = {} THEN 0 ELSE long(some(s)) + f[s \ {some(s)}]
      BY <1>9
    <2>2. s # {} => some(s) \in S
      BY <1>4
    <2> QED
      BY <1>1, <1>3, <2>1, <2>2
  <1> QED
    BY <1>1, <1>6, <1>9, <1>10 DEF S, SumsTo, long

\* No path is no way.
LEMMA NoLength ==
    ASSUME NEW g \in Graphs
    PROVE  Length(g, <<>>) = 0
  <1> DEFINE w == [i \in 1..0 |-> VertexDist(g, (<<>>)[i], (<<>>)[i + 1])]
  <1>1. <<>> \in Seq(Ids(g)) /\ Steps(<<>>) = 1..0 /\ 1..0 = {} /\ 0 \in Nat
    BY DEF Steps
  <1>2. w = [i \in 1..0 |-> VertexDist(g, (<<>>)[i], (<<>>)[i + 1])]
    OBVIOUS
  <1> HIDE DEF w
  <1>3. SumsTo(Length(g, <<>>), 1..0, w)
    BY <1>1, <1>2, LengthIsSum
  <1>4. PICK pick, f : IsSum(f, 1..0, pick, w) /\ Length(g, <<>>) = f[1..0]
    BY <1>3 DEF SumsTo
  <1>5. f[{}] = 0
    <2>1. {} \in SUBSET (1..0)
      OBVIOUS
    <2> QED
      BY <1>4, <2>1 DEF IsSum
  <1> QED
    BY <1>1, <1>4, <1>5

\* A path of the tree of a search is as long as the distance of its end, on
\* the graph and on what grows from it.
LEMMA PathLength ==
    ASSUME NEW g \in Graphs, NEW source \in Ids(g), NEW r, NEW rank, IsTree(g, source, r, rank),
           NEW path, NEW v, Leads(g, source, r, path, v), NEW h \in Grown(g)
    PROVE  Length(h, path) = r.distance[v]
  <1> DEFINE n == Len(path) - 1
             d == [i \in 1..(n + 1) |-> r.distance[path[i]]]
             w == [i \in 1..n |-> VertexDist(h, path[i], path[i + 1])]
  <1>1. /\ path \in Seq(Ids(g)) /\ n \in Nat /\ Len(path) = n + 1
        /\ path[1] = source /\ path[n + 1] = v
    BY DEF Leads
  <1>2. /\ h \in Graphs /\ Ids(g) \subseteq Ids(h)
        /\ \A u \in Ids(g) : h.vertex[u].place = g.vertex[u].place
    BY DEF Grown, Grows
  <1>3. \A i \in 1..(n + 1) : path[i] \in Ids(g)
    BY <1>1
  <1>4. Steps(path) = 1..n
    BY DEF Steps
  <1>5. \A u \in Ids(g) : r.distance[u] \in Int
    <2>1. r.distance \in [Ids(g) -> 0..Inf] /\ Inf \in Nat
      BY DEF IsTree, Inf
    <2> QED
      BY <2>1
  <1>6. \A i \in 1..n : r.distance[path[i]] + VertexDist(g, path[i], path[i + 1])
                          = r.distance[path[i + 1]]
    BY DEF Leads
  <1> HIDE DEF n
  <1>17. \A i \in 1..n : i \in 1..(n + 1) /\ i + 1 \in 1..(n + 1)
    BY <1>1
  <1>7. \A i \in 1..(n + 1) : d[i] = r.distance[path[i]] /\ d[i] \in Int
    BY <1>3, <1>5
  <1>8. path \in Seq(Ids(h))
    BY <1>1, <1>2
  <1>9. w = [i \in 1..n |-> VertexDist(h, path[i], path[i + 1])]
    OBVIOUS
  <1>10. \A i \in 1..n : w[i] = VertexDist(g, path[i], path[i + 1])
    BY <1>2, <1>3, <1>17 DEF VertexDist
  <1> HIDE DEF d, w
  <1>11. \A i \in 1..n : d[i] + w[i] = d[i + 1]
    BY <1>6, <1>7, <1>10, <1>17
  <1>12. w \in [1..n -> Int] /\ SumsTo(Length(h, path), 1..n, w)
    BY <1>1, <1>2, <1>4, <1>8, <1>9, LengthIsSum
  <1>13. PICK pick, f : /\ Picks(pick, 1..n) /\ IsSum(f, 1..n, pick, w)
                        /\ Length(h, path) = f[1..n]
    BY <1>12 DEF SumsTo
  <1>14. f[1..n] = d[n + 1] - d[1]
    <2>1. n \in Nat
      BY <1>1
    <2>2. w \in [1..n -> Int]
      BY <1>12
    <2>3. \A i \in 1..(n + 1) : d[i] \in Int
      BY <1>7
    <2>4. Picks(pick, 1..n) /\ IsSum(f, 1..n, pick, w)
      BY <1>13
    <2> QED
      BY <2>1, <2>2, <2>3, <2>4, <1>11, Telescope
  <1>15. d[1] = 0 /\ d[n + 1] = r.distance[v]
    <2>1. 1 \in 1..(n + 1) /\ n + 1 \in 1..(n + 1)
      BY <1>1
    <2>2. r.distance[source] = 0
      BY DEF IsTree
    <2> QED
      BY <1>1, <1>7, <2>1, <2>2
  <1>16. d[n + 1] \in Int
    BY <1>1, <1>7
  <1> QED
    BY <1>13, <1>14, <1>15, <1>16

\* What a search reports of a vertex: the distance, and a path of that length
\* where there is one.
LEMMA FoundPath ==
    ASSUME NEW g \in Graphs, NEW source \in Ids(g), Cardinality(Ids(g)) >= 2, NEW v,
           NEW path, path = ShortestPath(ShortestPaths(g, source), v), path # <<>>,
           NEW h \in Grown(g)
    PROVE  /\ v \in Ids(g) /\ Along(g, path, source, v)
           /\ Length(h, path) = ShortestDistance(ShortestPaths(g, source), v)
  <1> DEFINE r == ShortestPaths(g, source)
  <1>1. PICK rank : IsTree(g, source, r, rank)
    BY SearchIsTree
  <1> HIDE DEF r
  <1>2. v \in Ids(g)
    <2>1. IsReport(r, Ids(g))
      BY <1>1, TreeReports
    <2> QED
      BY <2>1, PathUnfolds DEF r
  <1>3. Leads(g, source, r, path, v)
    BY <1>1, <1>2, PathLeads DEF r
  <1>4. Along(g, path, source, v)
    BY <1>3 DEF Leads, Along
  <1>5. Length(h, path) = r.distance[v]
    BY <1>1, <1>3, PathLength
  <1>6. ShortestDistance(r, v) = r.distance[v]
    BY <1>1, <1>2 DEF ShortestDistance, IsTree
  <1> QED
    BY <1>2, <1>4, <1>5, <1>6 DEF r

\* When a graph has grown, nothing is farther than it was.
LEMMA GrowthShortens ==
    ASSUME NEW g \in Graphs, NEW h \in Grown(g), NEW source \in Ids(g), NEW r, NEW rank,
           IsTree(g, source, r, rank), NEW r2, NEW rank2, IsTree(h, source, r2, rank2)
    PROVE  \A v \in Ids(g) : r2.distance[v] <= r.distance[v]
  <1> DEFINE n == g.idCount
             T == { k \in 0..n : \A v \in Ids(g) : rank[v] <= k => r2.distance[v] <= r.distance[v] }
  <1>1. /\ h \in Graphs /\ Ids(g) \subseteq Ids(h) /\ g.edges \subseteq h.edges
        /\ \A u \in Ids(g) : h.vertex[u].place = g.vertex[u].place
    BY DEF Grown, Grows
  <1>2. n \in Nat
    BY SoundGraph
  <1>3. /\ \A v \in Ids(g) : r.distance[v] \in 0..Inf /\ rank[v] \in 0..n /\ r.parent[v] \in Ids(g)
        /\ \A v \in Ids(h) : r2.distance[v] \in 0..Inf
        /\ r.distance[source] = 0 /\ r2.distance[source] = 0 /\ Inf \in Nat
    BY DEF IsTree, Inf
  <1>4. ASSUME NEW v \in Ids(g),
               r.parent[v] # v => r2.distance[r.parent[v]] <= r.distance[r.parent[v]]
        PROVE  r2.distance[v] <= r.distance[v]
    <2> DEFINE p == r.parent[v]
    <2>1. CASE p = v
      <3>1. v = source \/ ~(r.distance[v] < Inf)
        BY <2>1 DEF IsTree
      <3>2. v \in Ids(h)
        BY <1>1
      <3> QED
        BY <1>3, <3>1, <3>2
    <2>2. CASE p # v
      <3>1. /\ {p, v} \in g.edges /\ r.distance[v] < Inf
            /\ r.distance[p] + VertexDist(g, p, v) = r.distance[v]
        BY <2>2 DEF IsTree
      <3>2. p \in Ids(g) /\ p \in Ids(h) /\ v \in Ids(h) /\ {v, p} \in h.edges
        <4>1. {v, p} = {p, v}
          OBVIOUS
        <4> QED
          BY <1>1, <1>3, <3>1, <4>1
      <3> DEFINE d == VertexDist(h, p, v)
      <3>3. d = VertexDist(g, p, v) /\ d \in Nat
        BY <1>1, <3>2, EdgeLength DEF VertexDist
      <3>4. r2.distance[p] + d < Inf => r2.distance[v] <= r2.distance[p] + d
        BY <3>2 DEF IsTree
      <3> HIDE DEF d, p
      <3>5. r2.distance[p] <= r.distance[p]
        BY <1>4, <2>2 DEF p
      <3> QED
        BY <1>3, <3>1, <3>2, <3>3, <3>4, <3>5
    <2> QED
      BY <2>1, <2>2
  <1>5. 0 \in T
    <2>1. ASSUME NEW v \in Ids(g), rank[v] <= 0
          PROVE  r2.distance[v] <= r.distance[v]
      <3>1. r.parent[v] = v
        <4>1. r.parent[v] # v => rank[r.parent[v]] < rank[v]
          BY DEF IsTree
        <4> QED
          BY <1>3, <2>1, <4>1
      <3> QED
        BY <1>4, <3>1
    <2>2. 0 \in 0..n
      BY <1>2
    <2> HIDE DEF n
    <2> QED
      BY <2>1, <2>2
  <1>6. ASSUME NEW k \in 1..n, k - 1 \in T
        PROVE  k \in T
    <2>1. ASSUME NEW v \in Ids(g), rank[v] <= k
          PROVE  r2.distance[v] <= r.distance[v]
      <3>1. r.parent[v] # v => rank[r.parent[v]] <= k - 1
        <4>1. r.parent[v] # v => rank[r.parent[v]] < rank[v]
          BY DEF IsTree
        <4>2. rank[v] \in Int /\ rank[r.parent[v]] \in Int
          BY <1>3
        <4> QED
          BY <2>1, <4>1, <4>2
      <3>2. r.parent[v] \in Ids(g)
        BY <1>3
      <3>3. r.parent[v] # v => r2.distance[r.parent[v]] <= r.distance[r.parent[v]]
        BY <1>6, <3>1, <3>2
      <3> QED
        BY <1>4, <3>3
    <2> HIDE DEF n
    <2> QED
      BY <2>1
  <1> HIDE DEF T
  <1>7. n \in T
    <2>1. 0..n \subseteq T
      <3> HIDE DEF n
      <3> QED
        BY <1>2, <1>5, <1>6, UpTo
    <2> QED
      BY <1>2, <2>1
  <1> TAKE v \in Ids(g)
  <1>8. rank[v] <= n
    BY <1>2, <1>3
  <1> QED
    BY <1>7, <1>8 DEF T

\* A graph that has grown has as many vertices at least.
LEMMA GrownCount ==
    ASSUME NEW g \in Graphs, NEW h \in Grown(g)
    PROVE  Cardinality(Ids(g)) <= Cardinality(Ids(h))
  <1>1. h \in Graphs /\ Ids(g) \subseteq Ids(h)
    BY DEF Grown, Grows
  <1>2. IsFiniteSet(Ids(h))
    BY <1>1, SoundGraph
  <1> QED
    BY <1>1, <1>2, FS_Subset

\* A path found when the graph has grown is no longer than a path was.
LEMMA GrownPathLength ==
    ASSUME NEW g \in Graphs, NEW h \in Grown(g), NEW source \in Ids(g),
           Cardinality(Ids(g)) >= 2, NEW v \in Ids(g)
    PROVE  LET n == Length(h, ShortestPath(ShortestPaths(h, source), v)) IN
           n \in Int /\ n <= ShortestDistance(ShortestPaths(g, source), v)
  <1> DEFINE r == ShortestPaths(g, source)
             r2 == ShortestPaths(h, source)
             path == ShortestPath(r2, v)
  <1>1. h \in Graphs /\ Ids(g) \subseteq Ids(h) /\ h \in Grown(h)
    BY GrowthIsReflexive DEF Grown, Grows
  <1>2. Cardinality(Ids(h)) >= 2
    <2>1. Cardinality(Ids(h)) \in Int /\ Cardinality(Ids(g)) \in Int
      BY <1>1, SoundGraph
    <2> QED
      BY <2>1, GrownCount
  <1>3. PICK rank : IsTree(g, source, r, rank)
    BY SearchIsTree
  <1>4. PICK rank2 : IsTree(h, source, r2, rank2)
    BY <1>1, <1>2, SearchIsTree
  <1>5. path # <<>> => Length(h, path) = ShortestDistance(r2, v)
    BY <1>1, <1>2, FoundPath
  <1>6. path = <<>> => Length(h, path) = 0
    BY <1>1, NoLength
  <1> HIDE DEF r, r2, path
  <1>7. r2.distance[v] <= r.distance[v]
    BY <1>3, <1>4, GrowthShortens
  <1>8. ShortestDistance(r, v) = r.distance[v] /\ ShortestDistance(r2, v) = r2.distance[v]
    BY <1>1, <1>3, <1>4 DEF ShortestDistance, IsTree
  <1>9. r.distance[v] \in Nat /\ r2.distance[v] \in Nat
    <2>1. r.distance[v] \in 0..Inf /\ r2.distance[v] \in 0..Inf /\ Inf \in Nat
      BY <1>1, <1>3, <1>4 DEF IsTree, Inf
    <2> QED
      BY <2>1
  <1>10. Length(h, path) \in Int /\ Length(h, path) <= ShortestDistance(r, v)
    BY <1>5, <1>6, <1>7, <1>8, <1>9
  <1> QED
    BY <1>10 DEF r, r2, path

-----------------------------------------------------------------------------
(* Choosing a target.                                                      *)

\* Frontiers are refreshed where they are.
LEMMA GlobalRefreshGrows ==
    ASSUME NEW g \in Graphs, NEW ids
    PROVE  /\ RefreshGlobalFrontiers(g, ids) \in Grown(g)
           /\ Ids(RefreshGlobalFrontiers(g, ids)) = Ids(g)
  <1> DEFINE vertex == g.vertex
             fresh(v) == IF v \notin ids \/ vertex[v].type # "kFrontier" THEN vertex[v]
                         ELSE IF Gain(vertex[v].place) > 0 THEN Evaluated(vertex[v])
                         ELSE [Evaluated(vertex[v]) EXCEPT !.type = "kUnvisited"]
             w == [v \in Ids(g) |-> fresh(v)]
             h == RefreshGlobalFrontiers(g, ids)
  <1>1. \A v \in Ids(g) : vertex[v] \in Vertices
    BY SoundGraph
  <1>2. ASSUME NEW v \in Ids(g)
        PROVE  /\ fresh(v) \in Vertices /\ fresh(v).place = vertex[v].place
               /\ vertex[v].type = "kVisited" => fresh(v) = vertex[v]
    <2>1. fresh(v) \in {vertex[v], Evaluated(vertex[v]),
                        [Evaluated(vertex[v]) EXCEPT !.type = "kUnvisited"]}
      OBVIOUS
    <2>2. vertex[v].type = "kVisited" => fresh(v) = vertex[v]
      OBVIOUS
    <2> HIDE DEF fresh, vertex
    <2> QED
      BY <1>1, <2>1, <2>2, RefreshedVertex
  <1>3. h = [g EXCEPT !.vertex = w]
    BY DEF RefreshGlobalFrontiers
  <1> HIDE DEF fresh, h
  <1>4. w \in [Ids(g) -> Vertices]
    <2> HIDE DEF Vertices
    <2> QED
      BY <1>2
  <1>5. \A v \in Ids(g) : w[v] = fresh(v) /\ w[v].place = g.vertex[v].place
    BY <1>2
  <1>6. \A v \in Ids(g) : g.vertex[v].type = "kVisited" => w[v].type = "kVisited"
    BY <1>2, <1>5
  <1> HIDE DEF w
  <1> QED
    BY <1>3, <1>4, <1>5, <1>6, RevisionGrows DEF h

\* One that is a frontier still shows something.
LEMMA RefreshedShow ==
    ASSUME NEW g \in Graphs, NEW ids, NEW v \in ids,
           v \in FrontierIds(RefreshGlobalFrontiers(g, ids))
    PROVE  Gain(RefreshGlobalFrontiers(g, ids).vertex[v].place) > 0
  <1> DEFINE vertex == g.vertex
             gain == Gain(vertex[v].place)
             w == [u \in Ids(g) |->
                       IF u \notin ids \/ vertex[u].type # "kFrontier" THEN vertex[u]
                       ELSE IF Gain(vertex[u].place) > 0 THEN Evaluated(vertex[u])
                       ELSE [Evaluated(vertex[u]) EXCEPT !.type = "kUnvisited"]]
             h == RefreshGlobalFrontiers(g, ids)
  <1>1. h = [g EXCEPT !.vertex = w]
    BY DEF RefreshGlobalFrontiers
  <1>2. v \in Ids(g) /\ h.vertex[v].type = "kFrontier"
    BY GlobalRefreshGrows DEF FrontierIds
  <1>3. h.vertex = w
    <2>1. IsGraph(g)
      BY SoundGraph
    <2> HIDE DEF w, h
    <2> QED
      BY <1>1, <2>1 DEF IsGraph
  <1>4. h.vertex[v] = IF vertex[v].type # "kFrontier" THEN vertex[v]
                      ELSE IF gain > 0 THEN Evaluated(vertex[v])
                      ELSE [Evaluated(vertex[v]) EXCEPT !.type = "kUnvisited"]
    <2> HIDE DEF h
    <2> QED
      BY <1>2, <1>3
  <1>5. vertex[v] \in Vertices /\ "kUnvisited" \in Types
    BY <1>2, SoundGraph DEF Types
  <1> HIDE DEF vertex, h
  <1>6. /\ Evaluated(vertex[v]).place = vertex[v].place
        /\ [Evaluated(vertex[v]) EXCEPT !.type = "kUnvisited"].type = "kUnvisited"
    BY <1>5, EvaluatedVertex
  <1>7. vertex[v].type = "kFrontier" /\ gain > 0
    BY <1>2, <1>4, <1>6
  <1>8. h.vertex[v].place = vertex[v].place
    BY <1>4, <1>6, <1>7
  <1> QED
    BY <1>7, <1>8 DEF h

\* Scores of vertices are integers.
LEMMA ScoresAreIntegers ==
    ASSUME NEW g \in Graphs, NEW here, NEW home, NEW S, IsReport(here, S), NEW T, IsReport(home, T),
           NEW ids \in SUBSET Ids(g), NEW q, q.remaining \in Int, NEW v \in ids
    PROVE  Scores(g, here, home, ids, q)[v] \in Int
  <1> DEFINE gain == g.vertex[v].gain
             decay == Decay(ShortestDistance(here, v))
             cost == TimeCost(here, home, v)
             slack == IF q.ignoreTime THEN 1 ELSE q.remaining - cost
  <1>1. gain \in Int
    <2>1. g.vertex[v] \in Vertices
      BY SoundGraph
    <2> QED
      BY <2>1 DEF Vertices
  <1>2. ShortestDistance(here, v) \in Nat /\ ShortestDistance(home, v) \in Nat
    BY DistanceIsNatural
  <1>3. decay \in Int
    <2> DEFINE d == ShortestDistance(here, v)
    <2>1. d \in Nat
      BY <1>2
    <2> HIDE DEF d
    <2>2. (IF d >= Inf THEN 0 ELSE 60 \div (1 + d)) \in Int
      BY <2>1
    <2> QED
      BY <2>2 DEF Decay, d
  <1>4. slack \in Int
    BY <1>2 DEF TimeCost
  <1>5. Scores(g, here, home, ids, q)[v] = gain * decay * slack
    BY DEF Scores, Score
  <1> HIDE DEF gain, decay, slack
  <1> QED
    BY <1>1, <1>3, <1>4, <1>5

\* The best of some frontiers is one of them.
LEMMA BestIsOne ==
    ASSUME NEW ids \in SUBSET Nat, IsFiniteSet(ids), ids # {},
           NEW score, \A v \in ids : score[v] \in Int
    PROVE  BestOf(score, ids) \in ids
  <1> DEFINE d == [v \in ids |-> 0 - score[v]]
  <1>1. \A v \in ids : d[v] \in Int /\ d[v] = 0 - score[v]
    OBVIOUS
  <1> HIDE DEF d
  <1>2. PICK v \in ids : \A u \in ids : d[v] < d[u] \/ (d[v] = d[u] /\ v <= u)
    BY <1>1, FirstByMeasure
  <1>3. \A u \in ids : score[u] < score[v] \/ (score[u] = score[v] /\ v <= u)
    BY <1>1, <1>2
  <1> QED
    BY <1>3 DEF BestOf

\* So is the one that is kept instead.
LEMMA StickyIsOne ==
    ASSUME NEW ids, NEW best \in ids, NEW score, NEW underway
    PROVE  Sticky(score, ids, best, underway) \in ids
  BY DEF Sticky

\* A frontier that shows something, and that there is time for.
Worthy(g, here, home, q, v) ==
    /\ v \in FrontierIds(g) /\ Gain(g.vertex[v].place) > 0
    /\ q.ignoreTime \/ TimeSufficient(TimeCost(here, home, v), q.remaining)

\* Candidates among the frontiers that were refreshed are such.
LEMMA CandidatesAreWorthy ==
    ASSUME NEW g \in Graphs, NEW ids, NEW here, NEW home, NEW q, NEW v,
           v \in Affordable(here, home, ids \cap FrontierIds(RefreshGlobalFrontiers(g, ids)), q)
    PROVE  Worthy(RefreshGlobalFrontiers(g, ids), here, home, q, v)
  <1>1. v \in ids \cap FrontierIds(RefreshGlobalFrontiers(g, ids))
    BY DEF Affordable, Candidates
  <1>2. q.ignoreTime \/ TimeSufficient(TimeCost(here, home, v), q.remaining)
    BY DEF Affordable, Candidates
  <1> QED
    BY <1>1, <1>2, RefreshedShow DEF Worthy

\* A choice of such a frontier, or of none, on what has grown from a map.
IsChoice(g, here, home, q, choice) ==
    /\ choice.graph \in Grown(g)
    /\ choice.goal = -1 \/ Worthy(choice.graph, here, home, q, choice.goal)

\* evaluatePointGlobalFrontiers.
LEMMA PointChoice ==
    ASSUME NEW g \in Graphs, NEW here, NEW home, NEW S, IsReport(here, S), NEW T, IsReport(home, T),
           NEW ids \in SUBSET Ids(g), NEW q, q.remaining \in Int, NEW underway
    PROVE  IsChoice(g, here, home, q, PointTarget(g, here, home, ids, q, underway))
  <1> DEFINE fresh == RefreshGlobalFrontiers(g, ids)
             some == Affordable(here, home, ids \cap FrontierIds(fresh), q)
             score == Scores(fresh, here, home, some, q)
             goal == IF some = {} THEN -1 ELSE Sticky(score, some, BestOf(score, some), underway)
  <1>1. fresh \in Grown(g) /\ fresh \in Graphs /\ Ids(fresh) = Ids(g)
    BY GlobalRefreshGrows DEF Grown
  <1>2. some \in SUBSET Ids(fresh) /\ \A v \in some : Worthy(fresh, here, home, q, v)
    BY <1>1, CandidatesAreWorthy DEF Affordable, Candidates
  <1>3. PointTarget(g, here, home, ids, q, underway) = [graph |-> fresh, goal |-> goal]
    BY DEF PointTarget
  <1> HIDE DEF fresh, some
  <1>4. some \in SUBSET Nat /\ IsFiniteSet(some)
    BY <1>1, <1>2, SoundGraph, FS_Subset
  <1>5. \A v \in some : score[v] \in Int
    BY <1>1, <1>2, ScoresAreIntegers
  <1> HIDE DEF score
  <1>6. some # {} => BestOf(score, some) \in some
    BY <1>4, <1>5, BestIsOne
  <1>7. goal = -1 \/ goal \in some
    BY <1>6, StickyIsOne
  <1> HIDE DEF goal
  <1> QED
    BY <1>1, <1>2, <1>3, <1>7 DEF IsChoice

\* selectGlobalFrontierTarget where it filters by regions.
LEMMA RegionChoice ==
    ASSUME NEW g \in Graphs, NEW here, NEW home, NEW S, IsReport(here, S), NEW T, IsReport(home, T),
           NEW ids \in SUBSET Ids(g), NEW q, q.remaining \in Int, NEW underway
    PROVE  /\ IsChoice(g, here, home, q, RegionTarget(g, here, home, ids, q, underway))
           /\ Ids(RegionTarget(g, here, home, ids, q, underway).graph) = Ids(g)
  <1> DEFINE first == Affordable(here, home, ids, q)
             chosen == InBestRegions(g, here, home, Scores(g, here, home, first, q), first)
             fresh == RefreshGlobalFrontiers(g, chosen)
             some == Affordable(here, home, chosen \cap FrontierIds(fresh), q)
             score == Scores(fresh, here, home, some, q)
             final == InBestRegions(fresh, here, home, score, some)
             goal == IF final = {} THEN -1 ELSE Sticky(score, some, BestOf(score, final), underway)
  <1>1. RegionTarget(g, here, home, ids, q, underway) = [graph |-> fresh, goal |-> goal]
    BY DEF RegionTarget
  <1>2. chosen \subseteq first /\ first \subseteq ids
    BY DEF InBestRegions, Affordable, Candidates
  <1>3. final \subseteq some
    BY DEF InBestRegions
  <1> HIDE DEF first, chosen, final
  <1>4. fresh \in Grown(g) /\ fresh \in Graphs /\ Ids(fresh) = Ids(g)
    BY GlobalRefreshGrows DEF Grown
  <1>5. some \in SUBSET Ids(fresh) /\ \A v \in some : Worthy(fresh, here, home, q, v)
    BY <1>2, <1>4, CandidatesAreWorthy DEF Affordable, Candidates
  <1> HIDE DEF fresh, some
  <1>6. \A v \in some : score[v] \in Int
    BY <1>4, <1>5, ScoresAreIntegers
  <1> HIDE DEF score
  <1>7. final \in SUBSET Nat /\ IsFiniteSet(final)
    BY <1>3, <1>4, <1>5, SoundGraph, FS_Subset
  <1>8. final # {} => BestOf(score, final) \in final
    BY <1>3, <1>6, <1>7, BestIsOne
  <1>9. goal = -1 \/ goal \in some
    BY <1>3, <1>8, StickyIsOne
  <1> HIDE DEF goal
  <1> QED
    BY <1>1, <1>4, <1>5, <1>9 DEF IsChoice

\* selectGlobalFrontierTarget.
LEMMA SelectedChoice ==
    ASSUME NEW g \in Graphs, NEW here, NEW home, NEW S, IsReport(here, S), NEW T, IsReport(home, T),
           NEW ids \in SUBSET Ids(g), NEW q, q.remaining \in Int, NEW underway, NEW byRegion
    PROVE  IsChoice(g, here, home, q,
                    SelectTarget(g, here, home, ids, q, underway, byRegion))
  <1> DEFINE region == IF byRegion THEN RegionTarget(g, here, home, ids, q, underway)
                       ELSE [graph |-> g, goal |-> -1]
             point == PointTarget(region.graph, here, home, ids, q, underway)
  <1>1. IsChoice(g, here, home, q, region) /\ Ids(region.graph) = Ids(g)
    BY RegionChoice, GrowthIsReflexive DEF IsChoice
  <1>2. SelectTarget(g, here, home, ids, q, underway, byRegion)
            = IF region.goal # -1 THEN region ELSE point
    BY DEF SelectTarget
  <1> HIDE DEF region
  <1>3. IsChoice(region.graph, here, home, q, point)
    <2>1. region.graph \in Graphs /\ ids \in SUBSET Ids(region.graph)
      BY <1>1 DEF IsChoice, Grown
    <2> QED
      BY <2>1, PointChoice
  <1> HIDE DEF point
  <1>4. IsChoice(g, here, home, q, point)
    BY <1>1, <1>3, GrowthIsTransitive DEF IsChoice
  <1> QED
    BY <1>1, <1>2, <1>4

-----------------------------------------------------------------------------
(* The planner as a state that its operators take and give.                *)

\* The fields of the state.
IsState(s) ==
    s = [graph |-> s.graph, target |-> s.target, ongoing |-> s.ongoing, trig |-> s.trig,
         lowGain |-> s.lowGain, cacheReady |-> s.cacheReady, homing |-> s.homing,
         answer |-> s.answer]

\* The recorded target is a vertex of the map while rounds are refused for
\* it, and not the only one.
IsPlanner(s) ==
    /\ IsState(s) /\ s.graph \in Graphs /\ s.target \in Nat /\ s.lowGain \in Nat
    /\ s.ongoing \in BOOLEAN /\ s.trig \in BOOLEAN
    /\ s.cacheReady \in BOOLEAN /\ s.homing \in BOOLEAN
    /\ s.answer.status \in Statuses
    /\ s.ongoing => s.target \in Ids(s.graph) /\ 1 \in Ids(s.graph)

\* The second state comes of the first: the map has grown, and a new target
\* is one of its vertices.
Follows(s, t) ==
    /\ IsPlanner(t)
    /\ t.graph \in Grown(s.graph)
    /\ t.target = s.target \/ t.target \in Ids(t.graph)
    /\ t.lowGain \in {0, s.lowGain}

\* An answer is given.
LEMMA Answered ==
    ASSUME NEW s, IsPlanner(s), NEW a, a.status \in Statuses
    PROVE  Follows(s, [s EXCEPT !.answer = a])
  <1> SUFFICES ASSUME NEW h, h = [s EXCEPT !.answer = a]
               PROVE  Follows(s, h)
    OBVIOUS
  <1>1. s.graph \in Grown(s.graph)
    BY GrowthIsReflexive DEF IsPlanner
  <1>2. h = [graph |-> s.graph, target |-> s.target, ongoing |-> s.ongoing, trig |-> s.trig,
             lowGain |-> s.lowGain, cacheReady |-> s.cacheReady, homing |-> s.homing, answer |-> a]
    BY DEF IsPlanner, IsState
  <1> QED
    BY <1>1, <1>2 DEF Follows, IsPlanner, IsState

\* The map has grown.
LEMMA Regrown ==
    ASSUME NEW s, IsPlanner(s), NEW g \in Grown(s.graph)
    PROVE  Follows(s, [s EXCEPT !.graph = g])
  <1> SUFFICES ASSUME NEW h, h = [s EXCEPT !.graph = g]
               PROVE  Follows(s, h)
    OBVIOUS
  <1>1. g \in Graphs /\ Ids(s.graph) \subseteq Ids(g)
    BY DEF Grown, Grows
  <1>2. h = [graph |-> g, target |-> s.target, ongoing |-> s.ongoing, trig |-> s.trig,
             lowGain |-> s.lowGain, cacheReady |-> s.cacheReady, homing |-> s.homing, answer |-> s.answer]
    BY DEF IsPlanner, IsState
  <1> QED
    BY <1>1, <1>2 DEF Follows, IsPlanner, IsState

\* Both.
LEMMA RegrownAnswered ==
    ASSUME NEW s, IsPlanner(s), NEW g \in Grown(s.graph), NEW a, a.status \in Statuses
    PROVE  Follows(s, [s EXCEPT !.graph = g, !.answer = a])
  <1> SUFFICES ASSUME NEW h, h = [s EXCEPT !.graph = g, !.answer = a]
               PROVE  Follows(s, h)
    OBVIOUS
  <1>1. g \in Graphs /\ Ids(s.graph) \subseteq Ids(g)
    BY DEF Grown, Grows
  <1>2. h = [graph |-> g, target |-> s.target, ongoing |-> s.ongoing, trig |-> s.trig,
             lowGain |-> s.lowGain, cacheReady |-> s.cacheReady, homing |-> s.homing, answer |-> a]
    BY DEF IsPlanner, IsState
  <1> QED
    BY <1>1, <1>2 DEF Follows, IsPlanner, IsState

\* The robot is sent home along it.
LEMMA SentHome ==
    ASSUME NEW s, IsPlanner(s), NEW g \in Grown(s.graph), NEW a, a.status \in Statuses
    PROVE  Follows(s, [s EXCEPT !.graph = g, !.homing = TRUE, !.answer = a])
  <1> SUFFICES ASSUME NEW h, h = [s EXCEPT !.graph = g, !.homing = TRUE, !.answer = a]
               PROVE  Follows(s, h)
    OBVIOUS
  <1>1. g \in Graphs /\ Ids(s.graph) \subseteq Ids(g)
    BY DEF Grown, Grows
  <1>2. h = [graph |-> g, target |-> s.target, ongoing |-> s.ongoing, trig |-> s.trig,
             lowGain |-> s.lowGain, cacheReady |-> s.cacheReady, homing |-> TRUE, answer |-> a]
    BY DEF IsPlanner, IsState
  <1> QED
    BY <1>1, <1>2 DEF Follows, IsPlanner, IsState

\* The gains on it are cached.
LEMMA Cached ==
    ASSUME NEW s, IsPlanner(s), NEW g \in Grown(s.graph)
    PROVE  Follows(s, [s EXCEPT !.graph = g, !.cacheReady = TRUE])
  <1> SUFFICES ASSUME NEW h, h = [s EXCEPT !.graph = g, !.cacheReady = TRUE]
               PROVE  Follows(s, h)
    OBVIOUS
  <1>1. g \in Graphs /\ Ids(s.graph) \subseteq Ids(g)
    BY DEF Grown, Grows
  <1>2. h = [graph |-> g, target |-> s.target, ongoing |-> s.ongoing, trig |-> s.trig,
             lowGain |-> s.lowGain, cacheReady |-> TRUE, homing |-> s.homing, answer |-> s.answer]
    BY DEF IsPlanner, IsState
  <1> QED
    BY <1>1, <1>2 DEF Follows, IsPlanner, IsState

\* A round begins without a trigger.
LEMMA Untriggered ==
    ASSUME NEW s, IsPlanner(s), NEW g \in Grown(s.graph)
    PROVE  Follows(s, [s EXCEPT !.graph = g, !.trig = FALSE])
  <1> SUFFICES ASSUME NEW h, h = [s EXCEPT !.graph = g, !.trig = FALSE]
               PROVE  Follows(s, h)
    OBVIOUS
  <1>1. g \in Graphs /\ Ids(s.graph) \subseteq Ids(g)
    BY DEF Grown, Grows
  <1>2. h = [graph |-> g, target |-> s.target, ongoing |-> s.ongoing, trig |-> FALSE,
             lowGain |-> s.lowGain, cacheReady |-> s.cacheReady, homing |-> s.homing, answer |-> s.answer]
    BY DEF IsPlanner, IsState
  <1> QED
    BY <1>1, <1>2 DEF Follows, IsPlanner, IsState

\* Local exploration is given another try.
LEMMA Retried ==
    ASSUME NEW s, IsPlanner(s), NEW a, a.status \in Statuses
    PROVE  Follows(s, [s EXCEPT !.lowGain = 0, !.answer = a])
  <1> SUFFICES ASSUME NEW h, h = [s EXCEPT !.lowGain = 0, !.answer = a]
               PROVE  Follows(s, h)
    OBVIOUS
  <1>1. s.graph \in Grown(s.graph)
    BY GrowthIsReflexive DEF IsPlanner
  <1>2. h = [graph |-> s.graph, target |-> s.target, ongoing |-> s.ongoing, trig |-> s.trig,
             lowGain |-> 0, cacheReady |-> s.cacheReady, homing |-> s.homing, answer |-> a]
    BY DEF IsPlanner, IsState
  <1>3. 0 \in Nat
    OBVIOUS
  <1> QED
    BY <1>1, <1>2, <1>3 DEF Follows, IsPlanner, IsState

\* A vertex is recorded as the target.
LEMMA Targeted ==
    ASSUME NEW s, IsPlanner(s), NEW n \in Ids(s.graph), 1 \in Ids(s.graph)
    PROVE  Follows(s, [s EXCEPT !.target = n, !.ongoing = TRUE])
  <1> SUFFICES ASSUME NEW h, h = [s EXCEPT !.target = n, !.ongoing = TRUE]
               PROVE  Follows(s, h)
    OBVIOUS
  <1>1. n \in Nat /\ s.graph \in Grown(s.graph)
    BY SoundGraph, GrowthIsReflexive DEF IsPlanner
  <1>2. h = [graph |-> s.graph, target |-> n, ongoing |-> TRUE, trig |-> s.trig,
             lowGain |-> s.lowGain, cacheReady |-> s.cacheReady, homing |-> s.homing, answer |-> s.answer]
    BY DEF IsPlanner, IsState
  <1> QED
    BY <1>1, <1>2 DEF Follows, IsPlanner, IsState

\* The target is given up.
LEMMA Released ==
    ASSUME NEW s, IsPlanner(s)
    PROVE  Follows(s, [s EXCEPT !.ongoing = FALSE])
  <1> SUFFICES ASSUME NEW h, h = [s EXCEPT !.ongoing = FALSE]
               PROVE  Follows(s, h)
    OBVIOUS
  <1>1. s.graph \in Grown(s.graph)
    BY GrowthIsReflexive DEF IsPlanner
  <1>2. h = [graph |-> s.graph, target |-> s.target, ongoing |-> FALSE, trig |-> s.trig,
             lowGain |-> s.lowGain, cacheReady |-> s.cacheReady, homing |-> s.homing, answer |-> s.answer]
    BY DEF IsPlanner, IsState
  <1> QED
    BY <1>1, <1>2 DEF Follows, IsPlanner, IsState

\* The planner is triggered.
LEMMA Triggered ==
    ASSUME NEW s, IsPlanner(s)
    PROVE  Follows(s, [s EXCEPT !.lowGain = 0, !.trig = TRUE])
  <1> SUFFICES ASSUME NEW h, h = [s EXCEPT !.lowGain = 0, !.trig = TRUE]
               PROVE  Follows(s, h)
    OBVIOUS
  <1>1. s.graph \in Grown(s.graph)
    BY GrowthIsReflexive DEF IsPlanner
  <1>2. h = [graph |-> s.graph, target |-> s.target, ongoing |-> s.ongoing, trig |-> TRUE,
             lowGain |-> 0, cacheReady |-> s.cacheReady, homing |-> s.homing, answer |-> s.answer]
    BY DEF IsPlanner, IsState
  <1>3. 0 \in Nat
    OBVIOUS
  <1> QED
    BY <1>1, <1>2, <1>3 DEF Follows, IsPlanner, IsState

\* The statuses of the answers.
LEMMA AnswerStatus ==
    ASSUME NEW st, NEW path, NEW n, NEW b
    PROVE  /\ [NoAnswer EXCEPT !.status = st].status = st
           /\ [NoAnswer EXCEPT !.status = st, !.goal = n, !.path = path].status = st
           /\ [NoAnswer EXCEPT !.status = st, !.hurried = b].status = st
           /\ [NoAnswer EXCEPT !.status = st, !.goal = n, !.path = path, !.hurried = b].status = st
           /\ NoAnswer.status = "none"
  <1>1. NoAnswer = [status |-> NoAnswer.status, path |-> NoAnswer.path, goal |-> NoAnswer.goal,
                    auto |-> NoAnswer.auto, hurried |-> NoAnswer.hurried,
                    remaining |-> NoAnswer.remaining]
        /\ NoAnswer.status = "none"
    BY DEF NoAnswer
  <1> QED
    BY <1>1

\* What follows from what follows.
LEMMA FollowsOn ==
    ASSUME NEW s, IsPlanner(s), NEW t, Follows(s, t), NEW u, Follows(t, u)
    PROVE  Follows(s, u)
  <1>1. u.graph \in Grown(s.graph)
    BY GrowthIsTransitive DEF Follows
  <1>2. Ids(t.graph) \subseteq Ids(u.graph)
    BY DEF Follows, Grown, Grows
  <1> QED
    BY <1>1, <1>2 DEF Follows

\* A target that is a vertex is pursued.
LEMMA PursuedFollows ==
    ASSUME NEW s, IsPlanner(s), NEW q, NEW goal \in Ids(s.graph), NEW here,
           1 \in Ids(s.graph)
    PROVE  Follows(s, Pursue(s, q, goal, here))
  <1> DEFINE path == ShortestPath(here, goal)
             recorded == IF s.trig THEN [s EXCEPT !.target = goal, !.ongoing = TRUE] ELSE s
             a == IF path = <<>> THEN Unanswered
                  ELSE [status |-> "kRepositioning", path |-> path, goal |-> goal,
                        auto |-> q.id = 0, hurried |-> ~q.ignoreTime,
                        remaining |-> q.remaining]
  <1>0. s.graph \in Grown(s.graph) /\ NoAnswer.status \in Statuses
    BY GrowthIsReflexive DEF IsPlanner, NoAnswer, Statuses
  <1>1. Pursue(s, q, goal, here) = [recorded EXCEPT !.answer = a]
    BY DEF Pursue
  <1>2. a.status \in Statuses
    <2>1. Unanswered.status = "kRepositioning"
      BY AnswerStatus DEF Unanswered
    <2> QED
      BY <2>1 DEF Statuses
  <1>3. Follows(s, recorded)
    <2>1. CASE s.trig
      <3>1. recorded = [s EXCEPT !.target = goal, !.ongoing = TRUE]
        BY <2>1
      <3>2. Follows(s, [s EXCEPT !.target = goal, !.ongoing = TRUE])
        BY Targeted
      <3> HIDE DEF recorded
      <3> QED
        BY <3>1, <3>2
    <2>2. CASE ~s.trig
      BY <1>0, <2>2 DEF Follows
    <2> QED
      BY <2>1, <2>2
  <1> HIDE DEF a, recorded
  <1>4. IsPlanner(recorded) /\ recorded.graph \in Grown(recorded.graph)
    BY <1>3, GrowthIsReflexive DEF Follows, IsPlanner
  <1>5. Follows(recorded, [recorded EXCEPT !.answer = a])
    BY <1>2, <1>4, Answered
  <1> QED
    BY <1>1, <1>3, <1>5, FollowsOn

\* Nothing is found: the planner says so, and the map may have grown.
LEMMA UnansweredFollows ==
    ASSUME NEW s, IsPlanner(s), NEW g \in Grown(s.graph)
    PROVE  /\ Follows(s, [s EXCEPT !.answer = Unanswered])
           /\ Follows(s, [s EXCEPT !.graph = g, !.answer = Unanswered])
  <1>1. Unanswered.status \in Statuses
    BY AnswerStatus DEF Unanswered, Statuses
  <1> QED
    BY <1>1, Answered, RegrownAnswered

\* Nothing is left to explore.
LEMMA HomewardFollows ==
    ASSUME NEW s, IsPlanner(s), Ids(s.graph) # {}, robot \in Places
    PROVE  Follows(s, NoFrontier(s))
  <1> DEFINE tie == TieRobot(s.graph)
             home == [NoAnswer EXCEPT !.status = "kHoming", !.goal = 0,
                                      !.path = Reverse(HomingPath(tie))]
             retry == [NoAnswer EXCEPT !.status = "kHoming"]
  <1>1. tie.graph \in Grown(s.graph)
    BY TiedRobotIsTie DEF IsTie, IsPlanner
  <1>2. home.status = "kHoming" /\ retry.status = "kHoming"
    BY AnswerStatus
  <1>3. NoFrontier(s) = IF GoHome
                        THEN [s EXCEPT !.graph = tie.graph, !.homing = TRUE, !.answer = home]
                        ELSE [s EXCEPT !.lowGain = 0, !.answer = retry]
    BY DEF NoFrontier
  <1> HIDE DEF tie, home, retry
  <1>4. home.status \in Statuses /\ retry.status \in Statuses
    BY <1>2 DEF Statuses
  <1>5. Follows(s, [s EXCEPT !.graph = tie.graph, !.homing = TRUE, !.answer = home])
    BY <1>1, <1>4, SentHome
  <1>6. Follows(s, [s EXCEPT !.lowGain = 0, !.answer = retry])
    BY <1>4, Retried
  <1> QED
    BY <1>3, <1>5, <1>6

\* A choice is pursued, or there is none.
LEMMA ChoiceFollows ==
    ASSUME NEW s, IsPlanner(s), NEW q, NEW here, NEW home, NEW choice,
           IsChoice(s.graph, here, home, q, choice), 1 \in Ids(s.graph)
    PROVE  Follows(s, PursueChoice(s, q, here, choice))
  <1> DEFINE g == choice.graph
             cached == [s EXCEPT !.graph = g, !.cacheReady = TRUE]
             none == [s EXCEPT !.graph = g, !.answer = Unanswered]
  <1>1. g \in Grown(s.graph)
    BY DEF IsChoice
  <1>2. Follows(s, cached) /\ cached.graph = g
    <2>1. Follows(s, cached)
      BY <1>1, Cached
    <2>2. cached.graph = g
      BY DEF IsPlanner, IsState
    <2> QED
      BY <2>1, <2>2
  <1>3. Follows(s, none)
    BY <1>1, UnansweredFollows
  <1>4. PursueChoice(s, q, here, choice)
            = IF choice.goal = -1 THEN none ELSE Pursue(cached, q, choice.goal, here)
    BY DEF PursueChoice
  <1> HIDE DEF cached, none
  <1>5. CASE choice.goal = -1
    BY <1>3, <1>4, <1>5
  <1>6. CASE choice.goal # -1
    <2>1. choice.goal \in Ids(cached.graph) /\ IsPlanner(cached)
      BY <1>2, <1>6 DEF IsChoice, Worthy, FrontierIds, Follows
    <2>2. 1 \in Ids(cached.graph)
      BY <1>1, <1>2 DEF Grown, Grows
    <2>3. Follows(cached, Pursue(cached, q, choice.goal, here))
      BY <2>1, <2>2, PursuedFollows
    <2> QED
      BY <1>2, <1>4, <1>6, <2>3, FollowsOn
  <1> QED
    BY <1>5, <1>6

\* The planner, from a vertex the robot is tied to.
LEMMA PlanFromFollows ==
    ASSUME NEW s, IsPlanner(s), NEW q, q.remaining \in Int, q.id \in Ids(s.graph), NEW id,
           1 \in Ids(s.graph)
    PROVE  Follows(s, PlanFrom(s, q, id))
  <1> DEFINE here == ShortestPaths(s.graph, id)
             home == ShortestPaths(s.graph, 0)
             frontiers == FrontierIds(s.graph)
             byRegion == q.byRegion /\ s.cacheReady
             choice == SelectTarget(s.graph, here, home, frontiers, q, s.ongoing, byRegion)
             chosen == PursueChoice(s, q, here, choice)
             pursued == Pursue(s, q, q.id, here)
             none == [s EXCEPT !.answer = Unanswered]
  <1>1. s.graph \in Graphs /\ s.graph \in Grown(s.graph)
    BY GrowthIsReflexive DEF IsPlanner
  <1>2. IsReport(here, Ids(s.graph)) /\ IsReport(home, Ids(s.graph))
    BY <1>1, SearchReports
  <1>3. frontiers \in SUBSET Ids(s.graph)
    BY DEF FrontierIds
  <1>4. PlanFrom(s, q, id) = IF q.id = 0 THEN chosen
                             ELSE IF ValidateManual(here, home, q) THEN pursued ELSE none
    BY DEF PlanFrom
  <1> HIDE DEF here, home, frontiers, byRegion
  <1>5. IsChoice(s.graph, here, home, q, choice)
    BY <1>1, <1>2, <1>3, SelectedChoice
  <1> HIDE DEF choice
  <1>6. Follows(s, chosen)
    BY <1>5, ChoiceFollows
  <1>7. Follows(s, pursued)
    BY PursuedFollows
  <1>8. Follows(s, none)
    BY <1>1, UnansweredFollows
  <1> HIDE DEF chosen, pursued, none
  <1> QED
    BY <1>4, <1>6, <1>7, <1>8

\* GlobalRepositioningPlanner::plan, whatever it is asked and decides.
LEMMA PlanFollows ==
    ASSUME NEW s, IsPlanner(s), NEW q, q.remaining \in Int, robot \in Places
    PROVE  Follows(s, Plan(s, q))
  <1> DEFINE tie == Anchor(s.graph, robot)
             tied == [s EXCEPT !.graph = tie.graph]
             none == [s EXCEPT !.answer = Unanswered]
  <1>1. s.graph \in Graphs /\ s.graph \in Grown(s.graph)
    BY GrowthIsReflexive DEF IsPlanner
  <1>2. Follows(s, none)
    BY <1>1, UnansweredFollows
  <1>3. IsTie(s.graph, tie)
    BY <1>1, AnchorIsTie
  <1>4. Plan(s, q) = IF PlanRefused(s, q) THEN none
                     ELSE IF ~q.notCheck /\ FrontierIds(s.graph) = {} THEN NoFrontier(s)
                     ELSE IF tie.id = -1 THEN none ELSE PlanFrom(tied, q, tie.id)
    BY DEF Plan
  <1>5. ~PlanRefused(s, q) => q.id \in Ids(s.graph) /\ 1 \in Ids(s.graph)
    <2>1. /\ Ids(s.graph) = 0..s.graph.idCount /\ s.graph.idCount \in Int
          /\ Cardinality(Ids(s.graph)) = s.graph.idCount + 1
      BY <1>1, SoundGraph
    <2>2. Cardinality(Ids(s.graph)) > 1 => 1 \in Ids(s.graph)
      BY <2>1
    <2> QED
      BY <2>1, <2>2 DEF PlanRefused
  <1>6. ~PlanRefused(s, q) => Follows(s, NoFrontier(s))
    BY <1>5, HomewardFollows
  <1>7. Follows(s, tied) /\ tied.graph = tie.graph
    <2>1. tie.graph \in Grown(s.graph)
      BY <1>3 DEF IsTie
    <2>2. Follows(s, tied)
      BY <2>1, Regrown
    <2>3. tied.graph = tie.graph
      BY DEF IsPlanner, IsState
    <2> QED
      BY <2>2, <2>3
  <1> HIDE DEF tied, none, tie
  <1>8. ASSUME ~PlanRefused(s, q)
        PROVE  Follows(s, PlanFrom(tied, q, tie.id))
    <2>1. IsPlanner(tied) /\ q.id \in Ids(tied.graph) /\ 1 \in Ids(tied.graph)
      BY <1>3, <1>5, <1>7, <1>8 DEF Follows, IsTie, Grown, Grows
    <2>2. Follows(tied, PlanFrom(tied, q, tie.id))
      BY <2>1, PlanFromFollows
    <2> QED
      BY <1>7, <2>2, FollowsOn
  <1> QED
    BY <1>2, <1>4, <1>6, <1>8

\* getBestPath, on a path of vertices.
LEMMA BestPathFollows ==
    ASSUME NEW s, IsPlanner(s), NEW path \in Seq(Vertices), NEW remaining, robot \in Places
    PROVE  Follows(s, BestPath(s, path, remaining))
  <1> DEFINE forward == [NoAnswer EXCEPT !.status = "kForward"]
             back(home) == [NoAnswer EXCEPT !.status = "kHoming", !.goal = 0,
                                            !.path = Reverse(home), !.hurried = TRUE]
             late == [NoAnswer EXCEPT !.status = "kHoming", !.hurried = TRUE]
             decide(g, home) ==
                 IF HomingDue(g, home, remaining)
                 THEN [s EXCEPT !.graph = g, !.homing = TRUE, !.answer = back(home)]
                 ELSE [s EXCEPT !.graph = CommitVerifiedPath(g, path), !.answer = forward]
             tie == TieRobot(s.graph)
             return == decide(tie.graph, HomingPath(tie))
             on == decide(s.graph, <<>>)
             over == [s EXCEPT !.answer = late]
             small == Cardinality(Ids(s.graph)) <= 1
  <1>1. s.graph \in Graphs /\ s.graph \in Grown(s.graph)
    BY GrowthIsReflexive DEF IsPlanner
  <1>2. BestPath(s, path, remaining) = IF ~AutoHoming THEN on
                                       ELSE IF remaining <= 0 THEN over
                                       ELSE IF small THEN on ELSE return
    BY DEF BestPath
  <1>3. ASSUME NEW g \in Grown(s.graph), NEW home
        PROVE  Follows(s, decide(g, home))
    <2> DEFINE h == CommitVerifiedPath(g, path)
               homeward == [s EXCEPT !.graph = g, !.homing = TRUE, !.answer = back(home)]
               onward == [s EXCEPT !.graph = h, !.answer = forward]
    <2>1. back(home).status = "kHoming" /\ forward.status = "kForward"
      BY AnswerStatus
    <2> HIDE DEF forward, back
    <2>2. back(home).status \in Statuses /\ forward.status \in Statuses
      BY <2>1 DEF Statuses
    <2>3. h \in Grown(s.graph)
      <3>1. g \in Graphs
        BY DEF Grown
      <3>2. h \in Grown(g)
        BY <3>1, CommittedGrows
      <3> QED
        BY <3>2, GrowthIsTransitive
    <2> HIDE DEF h
    <2>4. Follows(s, homeward)
      BY <2>2, SentHome
    <2>5. Follows(s, onward)
      BY <2>2, <2>3, RegrownAnswered
    <2>6. decide(g, home) = IF HomingDue(g, home, remaining) THEN homeward ELSE onward
      BY DEF h
    <2> HIDE DEF homeward, onward, decide
    <2> QED
      BY <2>4, <2>5, <2>6
  <1>4. Follows(s, over)
    <2>1. late.status = "kHoming"
      BY AnswerStatus
    <2> HIDE DEF late
    <2>2. late.status \in Statuses
      BY <2>1 DEF Statuses
    <2> QED
      BY <2>2, Answered
  <1> HIDE DEF decide, over
  <1>5. Follows(s, on)
    BY <1>1, <1>3
  <1>6. ~small => Follows(s, return)
    <2> SUFFICES ASSUME ~small
                 PROVE  Follows(s, return)
      OBVIOUS
    <2>1. Ids(s.graph) # {}
      <3> SUFFICES ASSUME Ids(s.graph) = {}
                   PROVE  FALSE
        OBVIOUS
      <3>1. Cardinality(Ids(s.graph)) = 0
        BY FS_EmptySet
      <3> QED
        BY <3>1
    <2>2. tie.graph \in Grown(s.graph)
      BY <1>1, <2>1, TiedRobotIsTie DEF IsTie
    <2> QED
      BY <1>3, <2>2
  <1> HIDE DEF on, return, small
  <1> QED
    BY <1>2, <1>4, <1>5, <1>6

-----------------------------------------------------------------------------
(* What the planners answer.                                               *)

\* A path of an answer leads along the map to the goal, from a vertex that
\* stands for the robot; a frontier chosen automatically shows something.
SoundAnswer(g, a) ==
    a.path # <<>> =>
        /\ Along(g, a.path, a.path[1], a.goal)
        /\ StandsFor(g, a.path[1], robot)
        /\ a.auto => a.goal \in FrontierIds(g) /\ Gain(g.vertex[a.goal].place) > 0

\* The time that is left when a goal has been reached, and home from there.
Left(g, a) ==
    a.remaining - Length(g, a.path)
        - (IF AutoHoming THEN Length(g, ShortestPath(ShortestPaths(g, 0), a.goal)) ELSE 0)

\* Where time counts, there is enough of it.
TimelyAnswer(g, a) ==
    a.path # <<>> /\ a.hurried /\ a.status = "kRepositioning" => Left(g, a) >= SpareTime

Justified(s) == SoundAnswer(s.graph, s.answer) /\ TimelyAnswer(s.graph, s.answer)

\* An answer without a path is.
LEMMA PathlessIsJustified ==
    ASSUME NEW s, s.answer.path = <<>>
    PROVE  Justified(s)
  BY DEF Justified, SoundAnswer, TimelyAnswer

\* The fields of the empty answer.
LEMMA NoAnswerFields ==
    /\ NoAnswer = [status |-> NoAnswer.status, path |-> <<>>, goal |-> NoAnswer.goal,
                   auto |-> FALSE, hurried |-> NoAnswer.hurried,
                   remaining |-> NoAnswer.remaining]
    /\ NoAnswer.path = <<>> /\ Unanswered.path = <<>>
  <1>1. /\ NoAnswer = [status |-> NoAnswer.status, path |-> <<>>, goal |-> NoAnswer.goal,
                       auto |-> FALSE, hurried |-> NoAnswer.hurried,
                       remaining |-> NoAnswer.remaining]
        /\ NoAnswer.path = <<>>
    BY DEF NoAnswer
  <1> QED
    BY <1>1 DEF Unanswered

\* Planners give the answers they are said to give, on the maps they are.
LEMMA GivenAnswer ==
    ASSUME NEW s, IsPlanner(s), NEW g, NEW a
    PROVE  /\ [s EXCEPT !.answer = a].graph = s.graph /\ [s EXCEPT !.answer = a].answer = a
           /\ LET t == [s EXCEPT !.graph = g, !.answer = a] IN t.graph = g /\ t.answer = a
           /\ LET t == [s EXCEPT !.graph = g, !.homing = TRUE, !.answer = a] IN
              t.graph = g /\ t.answer = a
           /\ LET t == [s EXCEPT !.lowGain = 0, !.answer = a] IN t.answer = a
           /\ LET t == [s EXCEPT !.target = g, !.ongoing = TRUE] IN
              [t EXCEPT !.answer = a].graph = s.graph /\ [t EXCEPT !.answer = a].answer = a
  BY DEF IsPlanner, IsState

\* A path to a target is, when there is time to follow it and to come home.
LEMMA PursuitIsJustified ==
    ASSUME NEW g \in Graphs, Cardinality(Ids(g)) >= 2, NEW id \in Ids(g), StandsFor(g, id, robot),
           NEW here, here = ShortestPaths(g, id), NEW home, home = ShortestPaths(g, 0),
           NEW s, IsPlanner(s), s.graph \in Grown(g), NEW q, q.remaining \in Int, NEW goal,
           q.ignoreTime \/ TimeSufficient(TimeCost(here, home, goal), q.remaining),
           q.id = 0 => Worthy(s.graph, here, home, q, goal)
    PROVE  Justified(Pursue(s, q, goal, here))
  <1> DEFINE path == ShortestPath(here, goal)
             recorded == IF s.trig THEN [s EXCEPT !.target = goal, !.ongoing = TRUE] ELSE s
             full == [status |-> "kRepositioning", path |-> path, goal |-> goal,
                      auto |-> q.id = 0, hurried |-> ~q.ignoreTime, remaining |-> q.remaining]
             a == IF path = <<>> THEN Unanswered ELSE full
             t == [recorded EXCEPT !.answer = a]
             h == s.graph
  <1>1. Pursue(s, q, goal, here) = t
    BY DEF Pursue
  <1>2. t.graph = h /\ t.answer = a
    <2> HIDE DEF a
    <2>1. CASE s.trig
      <3>1. t = [[s EXCEPT !.target = goal, !.ongoing = TRUE] EXCEPT !.answer = a]
        BY <2>1
      <3> HIDE DEF t
      <3> QED
        BY <3>1, GivenAnswer
    <2>2. CASE ~s.trig
      <3>1. t = [s EXCEPT !.answer = a]
        BY <2>2
      <3> HIDE DEF t
      <3> QED
        BY <3>1, GivenAnswer
    <2> QED
      BY <2>1, <2>2
  <1> HIDE DEF t, path
  <1>3. CASE path = <<>>
    <2>1. a.path = <<>>
      BY <1>3, NoAnswerFields
    <2> QED
      BY <1>1, <1>2, <2>1, PathlessIsJustified
  <1>4. CASE path # <<>>
    <2>1. /\ goal \in Ids(g) /\ Along(g, path, id, goal)
          /\ Length(h, path) = ShortestDistance(here, goal)
      BY <1>4, FoundPath DEF path
    <2>2. a.path = path /\ a.goal = goal /\ a.remaining = q.remaining /\ a.path[1] = id
      BY <1>4, <2>1 DEF Along
    <2>3. (a.auto => q.id = 0) /\ (a.hurried => ~q.ignoreTime)
      BY <1>4
    <2> HIDE DEF a
    <2>4. SoundAnswer(h, a)
      <3>1. Along(h, path, id, goal) /\ StandsFor(h, id, robot)
        BY <2>1, AlongGrown, StillStands
      <3>2. a.auto => goal \in FrontierIds(h) /\ Gain(h.vertex[goal].place) > 0
        BY <2>3 DEF Worthy
      <3> QED
        BY <2>2, <3>1, <3>2 DEF SoundAnswer
    <2>5. TimelyAnswer(h, a)
      <3> SUFFICES ASSUME a.hurried
                   PROVE  Left(h, a) >= SpareTime
        BY DEF TimelyAnswer
      <3> DEFINE back == Length(h, ShortestPath(ShortestPaths(h, 0), goal))
                 out == ShortestDistance(here, goal)
                 return == ShortestDistance(home, goal)
      <3>1. TimeSufficient(TimeCost(here, home, goal), q.remaining)
        BY <2>3
      <3>2. IsReport(here, Ids(g)) /\ IsReport(home, Ids(g))
        BY SearchReports
      <3>3. out \in Nat /\ return \in Nat
        BY <3>2, DistanceIsNatural
      <3>4. back \in Int /\ back <= return
        <4>1. 0 \in Ids(g)
          BY SoundGraph
        <4> QED
          BY <2>1, <4>1, GrownPathLength
      <3>5. Left(h, a) = q.remaining - out - (IF AutoHoming THEN back ELSE 0)
        BY <2>1, <2>2 DEF Left
      <3>6. q.remaining - (out + (IF AutoHoming THEN return ELSE 0)) >= SpareTime
        BY <3>1 DEF TimeSufficient, TimeCost
      <3>7. SpareTime \in Int
        BY PlannerAssumption
      <3> HIDE DEF back, out, return
      <3> QED
        BY <3>3, <3>4, <3>5, <3>6, <3>7
    <2> QED
      BY <1>1, <1>2, <2>4, <2>5 DEF Justified
  <1> QED
    BY <1>3, <1>4

\* A way home is one, from the robot to the first vertex.
LEMMA HomingPathLeads ==
    ASSUME NEW g \in Graphs, Cardinality(Ids(g)) >= 2, robot \in Places,
           NEW tie, tie = TieRobot(g), NEW path, path = HomingPath(tie), path # <<>>
    PROVE  /\ Along(tie.graph, Reverse(path), tie.id, 0)
           /\ StandsFor(tie.graph, tie.id, robot)
  <1>1. Ids(g) # {} /\ 0 \in Ids(g)
    BY SoundGraph
  <1>2. IsTie(g, tie)
    BY <1>1, TiedRobotIsTie
  <1> DEFINE found == ShortestPath(ShortestPaths(tie.graph, 0), tie.id)
  <1>3. tie.id # -1 /\ path = found
    BY DEF HomingPath
  <1>4. StandsFor(tie.graph, tie.id, robot)
    BY <1>1, <1>3, RobotStands
  <1>5. tie.graph \in Graphs /\ 0 \in Ids(tie.graph) /\ tie.graph \in Grown(tie.graph)
    BY <1>1, <1>2, GrowthIsReflexive DEF IsTie, Grown, Grows
  <1>6. Cardinality(Ids(tie.graph)) >= 2
    <2>1. Cardinality(Ids(tie.graph)) \in Int /\ Cardinality(Ids(g)) \in Int
      BY <1>5, SoundGraph
    <2> QED
      BY <1>2, <2>1, GrownCount DEF IsTie
  <1> HIDE DEF found
  <1>7. Along(tie.graph, path, 0, tie.id)
    BY <1>3, <1>5, <1>6, FoundPath DEF found
  <1> QED
    BY <1>4, <1>7, AlongReversed

\* So an answer that sends the robot along it is sound.
LEMMA HomewardIsJustified ==
    ASSUME NEW g \in Graphs, Cardinality(Ids(g)) >= 2, robot \in Places,
           NEW tie, tie = TieRobot(g), NEW s, s.graph = tie.graph,
           s.answer.path = Reverse(HomingPath(tie)), s.answer.goal = 0,
           s.answer.auto = FALSE, s.answer.status = "kHoming"
    PROVE  Justified(s)
  <1> DEFINE path == HomingPath(tie)
             back == Reverse(path)
  <1>1. CASE path = <<>>
    <2>1. back = <<>>
      BY <1>1 DEF Reverse
    <2> QED
      BY <2>1, PathlessIsJustified
  <1>2. CASE path # <<>>
    <2>1. Along(tie.graph, back, tie.id, 0) /\ StandsFor(tie.graph, tie.id, robot)
      BY <1>2, HomingPathLeads
    <2> HIDE DEF back
    <2>2. back[1] = tie.id /\ s.answer.path = back
      BY <2>1 DEF Along, back
    <2>3. SoundAnswer(s.graph, s.answer)
      BY <2>1, <2>2 DEF SoundAnswer
    <2>4. TimelyAnswer(s.graph, s.answer)
      BY DEF TimelyAnswer
    <2> QED
      BY <2>3, <2>4 DEF Justified
  <1> QED
    BY <1>1, <1>2

\* What comes of a choice.
LEMMA ChoiceIsJustified ==
    ASSUME NEW s, IsPlanner(s), Cardinality(Ids(s.graph)) >= 2, NEW id \in Ids(s.graph),
           StandsFor(s.graph, id, robot), NEW q, q.remaining \in Int,
           NEW here, here = ShortestPaths(s.graph, id), NEW home, home = ShortestPaths(s.graph, 0),
           NEW choice, IsChoice(s.graph, here, home, q, choice)
    PROVE  Justified(PursueChoice(s, q, here, choice))
  <1> DEFINE g == choice.graph
             cached == [s EXCEPT !.graph = g, !.cacheReady = TRUE]
             none == [s EXCEPT !.graph = g, !.answer = Unanswered]
  <1>1. PursueChoice(s, q, here, choice)
            = IF choice.goal = -1 THEN none ELSE Pursue(cached, q, choice.goal, here)
    BY DEF PursueChoice
  <1>2. g \in Grown(s.graph)
    BY DEF IsChoice
  <1>3. none.answer = Unanswered
    BY GivenAnswer
  <1>4. IsPlanner(cached) /\ cached.graph = g
    <2>1. Follows(s, cached)
      BY <1>2, Cached
    <2>2. cached.graph = g
      BY DEF IsPlanner, IsState
    <2> QED
      BY <2>1, <2>2 DEF Follows
  <1> HIDE DEF none, cached
  <1>5. CASE choice.goal = -1
    BY <1>1, <1>3, <1>5, NoAnswerFields, PathlessIsJustified
  <1>6. CASE choice.goal # -1
    <2>1. Worthy(g, here, home, q, choice.goal)
      BY <1>6 DEF IsChoice
    <2>2. q.ignoreTime \/ TimeSufficient(TimeCost(here, home, choice.goal), q.remaining)
      BY <2>1 DEF Worthy
    <2>3. s.graph \in Graphs
      BY DEF IsPlanner
    <2> HIDE DEF g
    <2>4. Justified(Pursue(cached, q, choice.goal, here))
      BY <1>2, <1>4, <2>1, <2>2, <2>3, PursuitIsJustified
    <2> QED
      BY <1>1, <1>6, <2>4
  <1> QED
    BY <1>5, <1>6

\* What the planner answers from a vertex that stands for the robot.
LEMMA PlanFromIsJustified ==
    ASSUME NEW s, IsPlanner(s), Cardinality(Ids(s.graph)) >= 2, NEW id \in Ids(s.graph),
           StandsFor(s.graph, id, robot), NEW q, q.remaining \in Int
    PROVE  Justified(PlanFrom(s, q, id))
  <1> DEFINE here == ShortestPaths(s.graph, id)
             home == ShortestPaths(s.graph, 0)
             frontiers == FrontierIds(s.graph)
             byRegion == q.byRegion /\ s.cacheReady
             choice == SelectTarget(s.graph, here, home, frontiers, q, s.ongoing, byRegion)
             chosen == PursueChoice(s, q, here, choice)
             pursued == Pursue(s, q, q.id, here)
             none == [s EXCEPT !.answer = Unanswered]
  <1>1. s.graph \in Graphs /\ s.graph \in Grown(s.graph)
    BY GrowthIsReflexive DEF IsPlanner
  <1>2. IsReport(here, Ids(s.graph)) /\ IsReport(home, Ids(s.graph))
    BY <1>1, SearchReports
  <1>3. frontiers \in SUBSET Ids(s.graph)
    BY DEF FrontierIds
  <1>4. PlanFrom(s, q, id) = IF q.id = 0 THEN chosen
                             ELSE IF ValidateManual(here, home, q) THEN pursued ELSE none
    BY DEF PlanFrom
  <1>5. here = ShortestPaths(s.graph, id) /\ home = ShortestPaths(s.graph, 0)
    OBVIOUS
  <1> HIDE DEF here, home, frontiers, byRegion
  <1>6. IsChoice(s.graph, here, home, q, choice)
    BY <1>1, <1>2, <1>3, SelectedChoice
  <1> HIDE DEF choice
  <1>7. Justified(chosen)
    BY <1>5, <1>6, ChoiceIsJustified
  <1>8. ASSUME q.id # 0, ValidateManual(here, home, q)
        PROVE  Justified(pursued)
    <2>1. q.ignoreTime \/ TimeSufficient(TimeCost(here, home, q.id), q.remaining)
      BY <1>8 DEF ValidateManual
    <2> QED
      BY <1>1, <1>5, <1>8, <2>1, PursuitIsJustified
  <1>9. Justified(none)
    <2>1. none.answer = Unanswered
      BY GivenAnswer
    <2> HIDE DEF none
    <2> QED
      BY <2>1, NoAnswerFields, PathlessIsJustified
  <1> HIDE DEF chosen, pursued, none
  <1> QED
    BY <1>4, <1>7, <1>8, <1>9

\* What it answers when nothing is left to explore.
LEMMA NoFrontierIsJustified ==
    ASSUME NEW s, IsPlanner(s), Cardinality(Ids(s.graph)) >= 2, robot \in Places
    PROVE  Justified(NoFrontier(s))
  <1> DEFINE tie == TieRobot(s.graph)
             path == Reverse(HomingPath(tie))
             home == [NoAnswer EXCEPT !.status = "kHoming", !.goal = 0, !.path = path]
             retry == [NoAnswer EXCEPT !.status = "kHoming"]
             sent == [s EXCEPT !.graph = tie.graph, !.homing = TRUE, !.answer = home]
             kept == [s EXCEPT !.lowGain = 0, !.answer = retry]
  <1>1. NoFrontier(s) = IF GoHome THEN sent ELSE kept
    BY DEF NoFrontier
  <1>2. home.path = path /\ home.goal = 0 /\ home.auto = FALSE /\ home.status = "kHoming"
    <2> HIDE DEF path
    <2> QED
      BY NoAnswerFields
  <1>3. retry.path = <<>>
    BY NoAnswerFields
  <1>4. sent.graph = tie.graph /\ sent.answer = home
    <2> HIDE DEF home, tie
    <2> QED
      BY GivenAnswer
  <1>5. kept.answer = retry
    <2> HIDE DEF retry
    <2> QED
      BY GivenAnswer
  <1> HIDE DEF sent, kept, home, retry
  <1>6. Justified(sent)
    <2>1. s.graph \in Graphs
      BY DEF IsPlanner
    <2> QED
      BY <1>2, <1>4, <2>1, HomewardIsJustified
  <1>7. Justified(kept)
    BY <1>3, <1>5, PathlessIsJustified
  <1> QED
    BY <1>1, <1>6, <1>7

\* GlobalRepositioningPlanner::plan.
LEMMA PlanIsJustified ==
    ASSUME NEW s, IsPlanner(s), NEW q, q.remaining \in Int, robot \in Places
    PROVE  Justified(Plan(s, q))
  <1> DEFINE tie == Anchor(s.graph, robot)
             tied == [s EXCEPT !.graph = tie.graph]
             none == [s EXCEPT !.answer = Unanswered]
  <1>1. s.graph \in Graphs /\ s.graph \in Grown(s.graph)
    BY GrowthIsReflexive DEF IsPlanner
  <1>2. Justified(none)
    <2>1. none.answer = Unanswered
      BY GivenAnswer
    <2> HIDE DEF none
    <2> QED
      BY <2>1, NoAnswerFields, PathlessIsJustified
  <1>3. IsTie(s.graph, tie) /\ (tie.id # -1 => StandsFor(tie.graph, tie.id, robot))
    BY <1>1, AnchorIsTie, AnchorStands
  <1>4. Plan(s, q) = IF PlanRefused(s, q) THEN none
                     ELSE IF ~q.notCheck /\ FrontierIds(s.graph) = {} THEN NoFrontier(s)
                     ELSE IF tie.id = -1 THEN none ELSE PlanFrom(tied, q, tie.id)
    BY DEF Plan
  <1>5. ~PlanRefused(s, q) => Cardinality(Ids(s.graph)) >= 2
    <2>1. Cardinality(Ids(s.graph)) \in Int
      BY <1>1, SoundGraph
    <2>2. ~PlanRefused(s, q) => ~(Cardinality(Ids(s.graph)) <= 1)
      BY DEF PlanRefused
    <2> QED
      BY <2>1, <2>2
  <1>6. ~PlanRefused(s, q) => Justified(NoFrontier(s))
    BY <1>5, NoFrontierIsJustified
  <1>7. IsPlanner(tied) /\ tied.graph = tie.graph
    <2>1. tie.graph \in Grown(s.graph)
      BY <1>3 DEF IsTie
    <2>2. Follows(s, tied)
      BY <2>1, Regrown
    <2>3. tied.graph = tie.graph
      BY DEF IsPlanner, IsState
    <2> QED
      BY <2>2, <2>3 DEF Follows
  <1> HIDE DEF tied, none, tie
  <1>8. ASSUME ~PlanRefused(s, q), tie.id # -1
        PROVE  Justified(PlanFrom(tied, q, tie.id))
    <2>1. tie.graph \in Grown(s.graph) /\ tie.graph \in Graphs /\ tie.id \in Ids(tie.graph)
      BY <1>3, <1>8 DEF IsTie, Grown
    <2>2. Cardinality(Ids(tie.graph)) >= 2
      <3>1. Cardinality(Ids(tie.graph)) \in Int /\ Cardinality(Ids(s.graph)) \in Int
        BY <1>1, <2>1, SoundGraph
      <3>2. Cardinality(Ids(s.graph)) <= Cardinality(Ids(tie.graph))
        BY <1>1, <2>1, GrownCount
      <3> QED
        BY <1>5, <1>8, <3>1, <3>2
    <2> QED
      BY <1>3, <1>7, <1>8, <2>1, <2>2, PlanFromIsJustified
  <1> QED
    BY <1>2, <1>4, <1>6, <1>8

\* getBestPath: no path along the map but the way home.
LEMMA BestPathIsJustified ==
    ASSUME NEW s, IsPlanner(s), NEW path, NEW remaining, robot \in Places
    PROVE  Justified(BestPath(s, path, remaining))
  <1> DEFINE forward == [NoAnswer EXCEPT !.status = "kForward"]
             back(home) == [NoAnswer EXCEPT !.status = "kHoming", !.goal = 0,
                                            !.path = Reverse(home), !.hurried = TRUE]
             late == [NoAnswer EXCEPT !.status = "kHoming", !.hurried = TRUE]
             homeward(g, home) == [s EXCEPT !.graph = g, !.homing = TRUE, !.answer = back(home)]
             onward(g) == [s EXCEPT !.graph = CommitVerifiedPath(g, path), !.answer = forward]
             decide(g, home) ==
                 IF HomingDue(g, home, remaining) THEN homeward(g, home) ELSE onward(g)
             tie == TieRobot(s.graph)
             return == decide(tie.graph, HomingPath(tie))
             on == decide(s.graph, <<>>)
             over == [s EXCEPT !.answer = late]
             small == Cardinality(Ids(s.graph)) <= 1
  <1>1. BestPath(s, path, remaining) = IF ~AutoHoming THEN on
                                       ELSE IF remaining <= 0 THEN over
                                       ELSE IF small THEN on ELSE return
    BY DEF BestPath
  <1>2. ASSUME NEW g
        PROVE  Justified(onward(g))
    <2>1. onward(g).answer = forward
      <3> HIDE DEF forward
      <3> QED
        BY GivenAnswer
    <2>2. forward.path = <<>>
      BY NoAnswerFields
    <2> HIDE DEF onward, forward
    <2> QED
      BY <2>1, <2>2, PathlessIsJustified
  <1>3. Justified(over)
    <2>1. over.answer = late
      <3> HIDE DEF late
      <3> QED
        BY GivenAnswer
    <2>2. late.path = <<>>
      BY NoAnswerFields
    <2> HIDE DEF over, late
    <2> QED
      BY <2>1, <2>2, PathlessIsJustified
  <1>4. ~HomingDue(s.graph, <<>>, remaining)
    BY DEF HomingDue
  <1>5. ~small => Justified(homeward(tie.graph, HomingPath(tie)))
    <2> SUFFICES ASSUME ~small
                 PROVE  Justified(homeward(tie.graph, HomingPath(tie)))
      OBVIOUS
    <2> DEFINE home == HomingPath(tie)
               reversed == Reverse(home)
               a == back(home)
               t == homeward(tie.graph, home)
    <2>1. s.graph \in Graphs
      BY DEF IsPlanner
    <2>2. Cardinality(Ids(s.graph)) >= 2
      <3>1. Cardinality(Ids(s.graph)) \in Int
        BY <2>1, SoundGraph
      <3> QED
        BY <3>1
    <2>3. a.path = reversed /\ a.goal = 0 /\ a.auto = FALSE /\ a.status = "kHoming"
      <3>1. a = [NoAnswer EXCEPT !.status = "kHoming", !.goal = 0, !.path = reversed,
                                 !.hurried = TRUE]
        OBVIOUS
      <3> HIDE DEF reversed, a, back
      <3> QED
        BY <3>1, NoAnswerFields
    <2>4. t.graph = tie.graph /\ t.answer = a
      <3>1. t = [s EXCEPT !.graph = tie.graph, !.homing = TRUE, !.answer = a]
        OBVIOUS
      <3> HIDE DEF a, tie, t, back, homeward
      <3> QED
        BY <3>1 DEF IsPlanner, IsState
    <2> HIDE DEF t, a, back, homeward
    <2>5. Justified(t)
      BY <2>1, <2>2, <2>3, <2>4, HomewardIsJustified
    <2> QED
      BY <2>5 DEF t
  <1> HIDE DEF homeward, onward, over, small
  <1> QED
    BY <1>1, <1>2, <1>3, <1>4, <1>5

-----------------------------------------------------------------------------
(* What every handler leaves as the last answer.                           *)

\* The last answer is justified on the map as it is.
AnswerInv == SoundAnswer(graph, answer) /\ TimelyAnswer(graph, answer)

\* The planner's state becomes one whose answer is, and the robot and what it
\* knows stay.
LEMMA BecomesJustified ==
    ASSUME NEW s, Becomes(s), Justified(s), UNCHANGED <<robot, known>>
    PROVE  AnswerInv'
  <1>1. graph' = s.graph /\ answer' = s.answer /\ robot' = robot /\ known' = known
    BY DEF Becomes
  <1> QED
    BY <1>1 DEF AnswerInv, Justified, SoundAnswer, TimelyAnswer, Left, StandsFor, Gain

\* No path is.
LEMMA PathlessAnswer == answer'.path = <<>> => AnswerInv'
  BY DEF AnswerInv, SoundAnswer, TimelyAnswer

-----------------------------------------------------------------------------
(* The inductive invariant.                                                *)

\* Where the robot is and has been.
RobotInv ==
    /\ known \subseteq Places /\ robot \in Free /\ lastMark \in Free
    /\ queue \in Seq(Free) /\ Len(queue) <= QueueMax
    /\ history \subseteq Free

\* The local graph is sound, and its report is about its vertices.
RoundInv ==
    /\ triggers \in 0..MaxTriggers /\ pending \in BOOLEAN
    /\ local \in Graphs /\ IsReport(rep, Ids(local))

\* The zones, and what has become of the map.
ZoneInv == closed \subseteq Places /\ loaded \in BOOLEAN /\ cut \in BOOLEAN

\* The map is sound and fits its bound.
MapInv == graph \in Graphs /\ graph.idCount < MaxVertices

\* The track ends at a vertex of the map, until another map replaces it.
TrackInv ==
    /\ prev \in [id : -1..(MaxVertices - 1), place : Places]
    /\ loaded \/ prev = NoVertex \/ prev.id \in Ids(graph)

\* So does the way to the recorded target.
PlannerInv ==
    /\ target \in 0..(MaxVertices - 1) /\ lowGain \in 0..MaxLowGainIters
    /\ ongoing \in BOOLEAN /\ trig \in BOOLEAN
    /\ cacheReady \in BOOLEAN /\ homing \in BOOLEAN
    /\ answer.status \in Statuses
    /\ ongoing /\ ~loaded => target \in Ids(graph) /\ 1 \in Ids(graph)

\* The inductive invariant.
IInv == RobotInv /\ RoundInv /\ ZoneInv /\ MapInv /\ TrackInv /\ PlannerInv

\* What a step does to the map: it grows, or a zone cuts it.  (Or the zones
\* are opened, which leaves it, or a saved map replaces it.)
MapGrows == graph' \in Grown(graph) /\ UNCHANGED <<closed, loaded>>
MapIsCut ==
    /\ closed \subseteq closed' /\ UNCHANGED loaded /\ cut' = (cut \/ graph' # graph)
    /\ graph' \in Graphs /\ graph'.vertex = graph.vertex /\ graph'.edges \subseteq graph.edges
    /\ \A e \in graph.edges \ graph'.edges :
           \E n \in e : n \in Ids(graph) /\ graph.vertex[n].place \in closed'
MapIsOpened == closed' = {} /\ UNCHANGED <<graph, loaded>>
MapIsReplaced == loaded' = TRUE /\ UNCHANGED closed /\ graph' \in Graphs
MapStep == MapGrows \/ MapIsCut \/ MapIsOpened \/ MapIsReplaced

\* A map that fits its bound has its ids below it.
LEMMA FittingMap ==
    ASSUME NEW g \in Graphs
    PROVE  /\ Fits(g) => g.idCount < MaxVertices
           /\ g.idCount < MaxVertices => Ids(g) \subseteq 0..(MaxVertices - 1)
  <1>1. /\ Cardinality(Ids(g)) = g.idCount + 1 /\ g.idCount \in Int /\ MaxVertices \in Nat
        /\ Ids(g) = 0..g.idCount
    BY SoundGraph, BoundAssumption
  <1> QED
    BY <1>1 DEF Fits

\* The map has grown: the target is still on it.
LEMMA GrowthKeeps ==
    ASSUME MapInv, PlannerInv, graph' \in Grown(graph), graph'.idCount < MaxVertices,
           UNCHANGED <<closed, loaded, globalVars>>, answer'.status \in Statuses
    PROVE  MapInv' /\ PlannerInv' /\ MapStep /\ Ids(graph) \subseteq Ids(graph')
  <1>1. graph' \in Graphs /\ Ids(graph) \subseteq Ids(graph')
    BY DEF Grown, Grows
  <1>2. MapInv'
    BY <1>1 DEF MapInv
  <1>3. PlannerInv'
    BY <1>1 DEF PlannerInv, globalVars
  <1>4. MapStep
    BY DEF MapStep, MapGrows
  <1> QED
    BY <1>1, <1>2, <1>3, <1>4

\* The planner begins in the state of its variables.
LEMMA StateIsPlanner ==
    ASSUME IInv, ~loaded
    PROVE  /\ IsPlanner(State) /\ State.graph = graph /\ State.target = target
           /\ State.lowGain = lowGain /\ State.answer = NoAnswer /\ robot \in Places
  <1> DEFINE s == State
  <1>1. s = [graph |-> graph, target |-> target, ongoing |-> ongoing, trig |-> trig,
             lowGain |-> lowGain, cacheReady |-> cacheReady, homing |-> homing,
             answer |-> NoAnswer]
    BY DEF State
  <1>2. NoAnswer.status \in Statuses
    BY DEF NoAnswer, Statuses
  <1>3. target \in Nat /\ lowGain \in Nat
    BY DEF IInv, PlannerInv
  <1> HIDE DEF s
  <1>4. IsPlanner(s) /\ s.graph = graph /\ s.target = target /\ s.lowGain = lowGain
        /\ s.answer = NoAnswer
    BY <1>1, <1>2, <1>3 DEF IsPlanner, IsState, IInv, PlannerInv, MapInv
  <1> QED
    BY <1>4, SpaceAssumption DEF s, IInv, RobotInv

\* It ends in a state that follows.
LEMMA BecomesKeeps ==
    ASSUME IInv, ~loaded, NEW s, IsPlanner(s), s.graph \in Grown(graph),
           s.target = target \/ s.target \in Ids(s.graph),
           s.lowGain \in 0..MaxLowGainIters, Becomes(s), UNCHANGED <<prev, closed, loaded>>
    PROVE  MapInv' /\ TrackInv' /\ PlannerInv' /\ MapStep
  <1>1. /\ graph' = s.graph /\ target' = s.target /\ ongoing' = s.ongoing /\ trig' = s.trig
        /\ lowGain' = s.lowGain /\ cacheReady' = s.cacheReady /\ homing' = s.homing
        /\ answer' = s.answer /\ Fits(graph')
    BY DEF Becomes
  <1>2. graph' \in Graphs /\ graph' \in Grown(graph) /\ Ids(graph) \subseteq Ids(graph')
    BY <1>1 DEF Grown, Grows
  <1>3. graph'.idCount < MaxVertices /\ Ids(graph') \subseteq 0..(MaxVertices - 1)
    BY <1>1, <1>2, FittingMap
  <1>4. MapInv'
    BY <1>2, <1>3 DEF MapInv
  <1>5. TrackInv'
    BY <1>2 DEF IInv, TrackInv
  <1>6. PlannerInv'
    <2>1. target' \in 0..(MaxVertices - 1)
      BY <1>1, <1>3 DEF IInv, PlannerInv
    <2> QED
      BY <1>1, <2>1 DEF PlannerInv, IsPlanner
  <1>7. MapStep
    BY <1>2 DEF MapStep, MapGrows
  <1> QED
    BY <1>4, <1>5, <1>6, <1>7

-----------------------------------------------------------------------------
(* The handlers of the map.                                                *)

\* A handler that is no planner answers nothing and leaves the planner.
Quiet == answer' = NoAnswer /\ UNCHANGED <<globalVars, stranded>>

\* What there is to know of such a handler.
LEMMA QuietAnswer == Quiet => answer'.status \in Statuses /\ UNCHANGED globalVars
  BY AnswerStatus DEF Quiet, Statuses

\* What a handler owes: the invariant and a step that PlaceMap allows.
LEMMA SetStateKeeps ==
    ASSUME IInv, NEW p \in Free, SetState(p), Quiet
    PROVE  IInv' /\ MapStep
  <1>1. /\ robot' = p /\ UNCHANGED <<prev, lastMark, history, roundVars, mapVars, graph>>
        /\ known' = known \cup View(p) \cup (IF triggers < AugmentTimes THEN StartupArea(p) ELSE {})
        /\ queue' = Append(IF Len(queue) >= QueueMax THEN Tail(queue) ELSE queue, p)
    BY DEF SetState
  <1>2. known' \subseteq Places
    BY <1>1, SpaceAssumption DEF IInv, RobotInv, View, StartupArea
  <1>3. queue' \in Seq(Free) /\ Len(queue') <= QueueMax
    <2>1. queue \in Seq(Free) /\ Len(queue) <= QueueMax /\ QueueMax \in Nat \ {0}
      BY BoundAssumption DEF IInv, RobotInv
    <2>2. CASE Len(queue) >= QueueMax
      <3>1. queue # <<>>
        BY <2>1, <2>2
      <3>2. Tail(queue) \in Seq(Free) /\ Len(Tail(queue)) = Len(queue) - 1
        BY <2>1, <3>1
      <3>3. queue' = Append(Tail(queue), p)
        BY <1>1, <2>2
      <3> QED
        BY <2>1, <3>2, <3>3
    <2>3. CASE ~(Len(queue) >= QueueMax)
      BY <1>1, <2>1, <2>3
    <2> QED
      BY <2>2, <2>3
  <1>4. RobotInv' /\ RoundInv' /\ ZoneInv' /\ TrackInv'
    BY <1>1, <1>2, <1>3 DEF IInv, RobotInv, RoundInv, ZoneInv, TrackInv, roundVars, mapVars
  <1>5. MapInv' /\ PlannerInv' /\ MapStep
    BY <1>1, QuietAnswer, GrowthIsReflexive, GrowthKeeps DEF IInv, MapInv, mapVars
  <1> QED
    BY <1>4, <1>5 DEF IInv

\* The track grows the map and ends at a vertex of it.
LEMMA OdometryTimerKeeps ==
    ASSUME IInv, ~loaded, OdometryTimer, Quiet
    PROVE  IInv' /\ MapStep
  <1> DEFINE from == [graph |-> graph, prev |-> prev]
             track == FoldLeft(TrackState, from, queue)
             moved == Dist(robot, lastMark) >= 1
  <1>1. /\ queue' = <<>> /\ Fits(track.graph) /\ prev' = track.prev
        /\ graph' = IF moved THEN UpdateVertexTypeInRange(track.graph, robot, VisitRadius)
                    ELSE track.graph
        /\ history' = IF moved THEN history \cup {robot} ELSE history
        /\ lastMark' = IF moved THEN robot ELSE lastMark
        /\ UNCHANGED <<known, robot, roundVars, mapVars>>
    BY DEF OdometryTimer
  <1>2. track \in Tracks(graph)
    <2>1. from \in Tracks(graph)
      <3>1. graph \in Grown(graph)
        BY GrowthIsReflexive DEF IInv, MapInv
      <3>2. prev \in [id : Int, place : Places] /\ (prev = NoVertex \/ prev.id \in Ids(graph))
        BY BoundAssumption DEF IInv, TrackInv
      <3> QED
        BY <3>1, <3>2 DEF Tracks
    <2>2. queue \in Seq(Places)
      BY SpaceAssumption DEF IInv, RobotInv
    <2> HIDE DEF from
    <2> QED
      BY <2>1, <2>2, QueueIsTracked DEF IInv, MapInv
  <1> HIDE DEF track, moved
  <1>3. /\ track.graph \in Grown(graph) /\ track.graph \in Graphs
        /\ track.prev \in [id : Int, place : Places]
        /\ track.prev = NoVertex \/ track.prev.id \in Ids(track.graph)
    BY <1>2 DEF Tracks, Grown
  <1>4. /\ graph' \in Grown(graph) /\ Ids(graph') = Ids(track.graph)
        /\ graph'.idCount = track.graph.idCount
    BY <1>1, <1>3, VisitGrows, GrowthIsTransitive
  <1>5. track.graph.idCount < MaxVertices /\ Ids(graph') \subseteq 0..(MaxVertices - 1)
    BY <1>1, <1>3, <1>4, FittingMap
  <1>6. TrackInv'
    <2>1. prev' \in [id : -1..(MaxVertices - 1), place : Places]
      <3>1. CASE prev' = NoVertex
        <4>1. -1 \in -1..(MaxVertices - 1)
          BY BoundAssumption
        <4> QED
          BY <3>1, <4>1, SpaceAssumption DEF NoVertex
      <3>2. CASE prev'.id \in Ids(graph')
        <4>1. prev'.id \in -1..(MaxVertices - 1)
          BY <1>5, <3>2
        <4> QED
          BY <1>1, <1>3, <4>1
      <3> QED
        BY <1>1, <1>3, <1>4, <3>1, <3>2
    <2> QED
      BY <1>1, <1>3, <1>4, <2>1 DEF TrackInv
  <1>7. MapInv' /\ PlannerInv' /\ MapStep
    BY <1>1, <1>4, <1>5, QuietAnswer, GrowthKeeps DEF IInv, mapVars
  <1>8. queue' \in Seq(Free) /\ Len(queue') <= QueueMax
    BY <1>1, BoundAssumption
  <1>9. RobotInv' /\ RoundInv' /\ ZoneInv'
    BY <1>1, <1>8 DEF IInv, RobotInv, RoundInv, ZoneInv, roundVars, mapVars
  <1> QED
    BY <1>6, <1>7, <1>9 DEF IInv

\* The first vertex is laid.
LEMMA SetHomingPosKeeps ==
    ASSUME IInv, SetHomingPos, Quiet
    PROVE  IInv' /\ MapStep
  <1>1. /\ Ids(graph) = {} /\ graph' = AddVertex(graph, Vertex(robot))
        /\ UNCHANGED <<robotVars, roundVars, mapVars>>
    BY DEF SetHomingPos
  <1>2. graph \in Graphs /\ robot \in Places
    BY SpaceAssumption DEF IInv, MapInv, RobotInv
  <1>3. graph' \in Grown(graph) /\ graph'.idCount = 0
    BY <1>1, <1>2, NewVertex, RootGrows
  <1>5. graph'.idCount < MaxVertices
    BY <1>3, BoundAssumption
  <1>6. MapInv' /\ PlannerInv' /\ MapStep /\ Ids(graph) \subseteq Ids(graph')
    BY <1>1, <1>3, <1>5, QuietAnswer, GrowthKeeps DEF IInv, mapVars
  <1>7. RobotInv' /\ RoundInv' /\ ZoneInv' /\ TrackInv'
    BY <1>1, <1>6 DEF IInv, RobotInv, RoundInv, ZoneInv, TrackInv, robotVars, roundVars, mapVars
  <1> QED
    BY <1>6, <1>7 DEF IInv

\* A handler that grows the map and touches nothing else.
LEMMA GrowingKeeps ==
    ASSUME IInv, graph' \in Grown(graph), Fits(graph'),
           UNCHANGED <<robotVars, roundVars, mapVars>>, Quiet
    PROVE  IInv' /\ MapStep
  <1>1. graph'.idCount < MaxVertices
    BY FittingMap DEF Grown
  <1>2. MapInv' /\ PlannerInv' /\ MapStep /\ Ids(graph) \subseteq Ids(graph')
    BY <1>1, QuietAnswer, GrowthKeeps DEF IInv, mapVars
  <1>3. RobotInv' /\ RoundInv' /\ ZoneInv' /\ TrackInv'
    BY <1>2 DEF IInv, RobotInv, RoundInv, ZoneInv, TrackInv, robotVars, roundVars, mapVars
  <1> QED
    BY <1>2, <1>3 DEF IInv

\* Frontiers of the local graph are added.
LEMMA FrontierTimerKeeps ==
    ASSUME IInv, FrontierTimer, Quiet
    PROVE  IInv' /\ MapStep
  <1> DEFINE added == AddFrontiers(graph, local, rep)
  <1>1. /\ pending' = FALSE /\ graph' = added.graph /\ local' = added.local /\ Fits(graph')
        /\ UNCHANGED <<robotVars, triggers, rep, mapVars>>
    BY DEF FrontierTimer
  <1>2. added.graph \in Grown(graph) /\ added.local \in Graphs /\ Ids(added.local) = Ids(local)
    BY FrontiersGrow DEF IInv, MapInv, RoundInv
  <1> HIDE DEF added
  <1>3. graph'.idCount < MaxVertices
    BY <1>1, <1>2, FittingMap DEF Grown
  <1>4. MapInv' /\ PlannerInv' /\ MapStep /\ Ids(graph) \subseteq Ids(graph')
    BY <1>1, <1>2, <1>3, QuietAnswer, GrowthKeeps DEF IInv, mapVars
  <1>5. RobotInv' /\ ZoneInv' /\ TrackInv'
    BY <1>1, <1>4 DEF IInv, RobotInv, ZoneInv, TrackInv, robotVars, mapVars
  <1>6. RoundInv'
    BY <1>1, <1>2 DEF IInv, RoundInv
  <1> QED
    BY <1>4, <1>5, <1>6 DEF IInv

\* The new vertex is evaluated, and the others are what they were.
LEMMA TopologicalTimerKeeps ==
    ASSUME IInv, NEW p \in Places, TopologicalTimer(p), Quiet
    PROVE  IInv' /\ MapStep
  <1> DEFINE g == ExpandGraph(graph, p, "kUnvisited")
             id == g.idCount
             new == Evaluated(g.vertex[id])
             shown == IF new.frontier THEN [new EXCEPT !.type = "kFrontier"] ELSE new
             w == [g.vertex EXCEPT ![id] = shown]
  <1>1. /\ CanExpand(graph, p) /\ graph' = [g EXCEPT !.vertex[id] = shown] /\ Fits(graph')
        /\ UNCHANGED <<robotVars, roundVars, mapVars>>
    BY DEF TopologicalTimer
  <1>2. graph' = [g EXCEPT !.vertex = w]
    BY <1>1
  <1>3. "kUnvisited" \in Types /\ "kFrontier" \in Types
    BY DEF Types
  <1>4. graph \in Graphs
    BY DEF IInv, MapInv
  <1>5. g \in Grown(graph) /\ Ids(g) = Ids(graph) \cup {id} /\ id \notin Ids(graph)
    <2> HIDE DEF g
    <2> QED
      BY <1>1, <1>3, <1>4, ExpandedGrows DEF g
  <1> HIDE DEF g
  <1>6. g \in Graphs
    BY <1>5 DEF Grown
  <1>7. \A v \in Ids(g) : g.vertex[v] \in Vertices
    BY <1>6, SoundGraph
  <1>8. DOMAIN g.vertex = Ids(g) /\ id \in Ids(g)
    BY <1>5 DEF Ids
  <1>9. shown \in Vertices /\ shown.place = g.vertex[id].place
    <2> DEFINE v == g.vertex[id]
               e == Evaluated(v)
               typed == [e EXCEPT !.type = "kFrontier"]
    <2>1. v \in Vertices
      BY <1>7, <1>8
    <2> HIDE DEF v
    <2>2. e \in Vertices /\ e.place = v.place /\ typed \in Vertices /\ typed.place = v.place
      BY <1>3, <2>1, EvaluatedVertex
    <2>3. shown = IF e.frontier THEN typed ELSE e
      BY DEF v
    <2> HIDE DEF e, typed, shown
    <2> QED
      BY <2>2, <2>3 DEF v
  <1> HIDE DEF shown, id
  <1>10. w \in [Ids(g) -> Vertices]
    <2>1. g.vertex \in [Ids(g) -> Vertices]
      BY <1>6, GraphsAreSound DEF Sound
    <2> HIDE DEF Vertices
    <2> QED
      BY <1>9, <2>1
  <1>11. \A v \in Ids(g) : w[v] = IF v = id THEN shown ELSE g.vertex[v]
    BY <1>8
  <1> HIDE DEF w
  <1>12. graph' \in Graphs /\ Ids(graph') = Ids(g) /\ graph'.vertex = w /\ graph'.edges = g.edges
    <2>1. \A v \in Ids(g) : w[v].place = g.vertex[v].place
      BY <1>9, <1>11
    <2> QED
      BY <1>2, <1>6, <1>10, <2>1, RevisionGrows
  <1>13. graph' \in Grown(graph)
    <2>1. \A v \in Ids(graph) : v \in Ids(g) /\ graph'.vertex[v] = g.vertex[v]
      BY <1>5, <1>11, <1>12
    <2>2. Linked(graph) => Linked(graph')
      BY <1>5, <1>12, MoreEdgesLink DEF Grown
    <2> QED
      BY <1>5, <1>12, <2>1, <2>2 DEF Grown, Grows
  <1> QED
    BY <1>1, <1>13, GrowingKeeps

\* A marker is tied to a vertex.
LEMMA SemanticsKeeps ==
    ASSUME IInv, NEW p \in SemanticPlaces, Semantics(p), Quiet
    PROVE  IInv' /\ MapStep
  <1> DEFINE marked == [Vertex(p) EXCEPT !.type = "kFrontier"]
  <1>1. graph \in Graphs /\ p \in Places
    BY BoundAssumption DEF IInv, MapInv
  <1>2. PICK v \in Ids(graph) : graph' = NewLinked(graph, marked, v)
    BY DEF Semantics, NearestVertices
  <1>3. Fits(graph') /\ UNCHANGED <<robotVars, roundVars, mapVars>>
    BY DEF Semantics
  <1>4. marked \in Vertices
    <2>1. "kFrontier" \in Types
      BY DEF Types
    <2> QED
      BY <1>1, <2>1, NewVertex
  <1> HIDE DEF marked
  <1>5. graph' \in Grown(graph)
    BY <1>1, <1>2, <1>4, LinkedGrows
  <1> QED
    BY <1>3, <1>5, GrowingKeeps

\* A homing query or a path to a waypoint leaves the tie.
LEMMA TyingKeeps ==
    ASSUME IInv, SearchHomingPath \/ \E p \in SemanticPlaces : GlobalPath(p), Quiet
    PROVE  IInv' /\ MapStep
  <1>1. /\ Cardinality(Ids(graph)) > 1 /\ graph' = TieRobot(graph).graph /\ Fits(graph')
        /\ UNCHANGED <<robotVars, roundVars, mapVars>>
    BY DEF SearchHomingPath, GlobalPath
  <1>2. Ids(graph) # {}
    <2> SUFFICES ASSUME Ids(graph) = {}
                 PROVE  FALSE
      OBVIOUS
    <2>1. Cardinality(Ids(graph)) = 0
      BY FS_EmptySet
    <2> QED
      BY <1>1, <2>1
  <1>3. graph \in Graphs /\ robot \in Places
    BY SpaceAssumption DEF IInv, MapInv, RobotInv
  <1>4. graph' \in Grown(graph)
    BY <1>1, <1>2, <1>3, TiedRobotIsTie DEF IsTie
  <1> QED
    BY <1>1, <1>4, GrowingKeeps

\* A zone cuts edges at places of zones, and no vertex.
LEMMA AddZoneKeeps ==
    ASSUME IInv, NEW zone \in Zones, NEW searched, AddZone(zone, searched), Quiet
    PROVE  IInv' /\ MapStep
  <1> DEFINE pairs == { p \in graph.neighbors : graph.vertex[p[1]].place \in searched \cap closed' }
  <1>1. /\ closed' = closed \cup zone
        /\ graph' = RemoveEdges(graph, pairs)
        /\ cut' = (cut \/ graph' # graph)
        /\ UNCHANGED <<robotVars, roundVars, loaded>>
    BY DEF AddZone
  <1>2. graph \in Graphs
    BY DEF IInv, MapInv
  <1>3. /\ graph' \in Graphs /\ Ids(graph') = Ids(graph) /\ graph'.vertex = graph.vertex
        /\ graph'.idCount = graph.idCount
        /\ graph'.edges = graph.edges \ { {p[1], p[2]} : p \in pairs }
    <2>1. pairs \in SUBSET graph.neighbors
      OBVIOUS
    <2> HIDE DEF pairs
    <2> QED
      BY <1>1, <1>2, <2>1, CutIsGraph
  <1>4. MapStep
    <2>1. ASSUME NEW e \in graph.edges \ graph'.edges
          PROVE  \E n \in e : n \in Ids(graph) /\ graph.vertex[n].place \in closed'
      <3>1. PICK p \in pairs : e = {p[1], p[2]}
        BY <1>3, <2>1
      <3>2. graph.vertex[p[1]].place \in closed'
        OBVIOUS
      <3>3. p[1] \in Ids(graph)
        BY <1>2, SoundGraph DEF InStep, EdgeRecordsAgree
      <3>4. p[1] \in e
        BY <3>1
      <3> QED
        BY <3>2, <3>3, <3>4
    <2>2. closed \subseteq closed' /\ graph'.edges \subseteq graph.edges
      BY <1>1, <1>3
    <2> QED
      BY <1>1, <1>3, <2>1, <2>2 DEF MapStep, MapIsCut
  <1>5. ZoneInv'
    <2>1. zone \subseteq Places
      BY BoundAssumption
    <2>2. cut' \in BOOLEAN
      BY <1>1 DEF IInv, ZoneInv
    <2>3. closed' \subseteq Places
      BY <1>1, <2>1 DEF IInv, ZoneInv
    <2>4. loaded' \in BOOLEAN
      BY <1>1 DEF IInv, ZoneInv
    <2> QED
      BY <2>2, <2>3, <2>4 DEF ZoneInv
  <1>6. MapInv' /\ PlannerInv'
    <2>1. UNCHANGED <<globalVars, loaded>> /\ answer'.status \in Statuses
      BY <1>1, QuietAnswer
    <2>2. Ids(graph') = Ids(graph) /\ graph' \in Graphs /\ graph'.idCount = graph.idCount
      BY <1>3
    <2> QED
      BY <2>1, <2>2 DEF IInv, MapInv, PlannerInv, globalVars
  <1>7. RobotInv' /\ RoundInv' /\ TrackInv'
    BY <1>1, <1>3 DEF IInv, RobotInv, RoundInv, TrackInv, robotVars, roundVars
  <1> QED
    BY <1>4, <1>5, <1>6, <1>7 DEF IInv

\* Zones are opened, and what was cut stays cut.
LEMMA ClearZonesKeeps ==
    ASSUME IInv, ClearExclusionZones, Quiet
    PROVE  IInv' /\ MapStep
  <1>1. closed' = {} /\ UNCHANGED <<robotVars, roundVars, graph, loaded, cut>>
    BY DEF ClearExclusionZones
  <1>2. MapStep
    BY <1>1 DEF MapStep, MapIsOpened
  <1>3. MapInv' /\ PlannerInv'
    BY <1>1, QuietAnswer DEF IInv, MapInv, PlannerInv, globalVars
  <1>4. RobotInv' /\ RoundInv' /\ ZoneInv' /\ TrackInv'
    BY <1>1 DEF IInv, RobotInv, RoundInv, ZoneInv, TrackInv, robotVars, roundVars
  <1> QED
    BY <1>2, <1>3, <1>4 DEF IInv

\* A saved map takes the place of the map: nothing is known of what other
\* handlers remember.
LEMMA LoadGraphKeeps ==
    ASSUME IInv, LoadGraph, Quiet
    PROVE  IInv' /\ MapStep
  <1>1. PICK msg \in SavedMaps : graph' = MsgToGraph(msg)
    BY DEF LoadGraph
  <1>2. loaded' = TRUE /\ UNCHANGED <<robotVars, roundVars, closed, cut>>
    BY DEF LoadGraph
  <1>3. MapInv'
    BY <1>1, LoadedIsGraph DEF MapInv
  <1>4. MapStep
    BY <1>2, <1>3 DEF MapStep, MapIsReplaced, MapInv
  <1>5. PlannerInv'
    BY <1>2, QuietAnswer DEF IInv, PlannerInv, globalVars
  <1>6. RobotInv' /\ RoundInv' /\ ZoneInv' /\ TrackInv'
    BY <1>2 DEF IInv, RobotInv, RoundInv, ZoneInv, TrackInv, robotVars, roundVars
  <1> QED
    BY <1>3, <1>4, <1>5, <1>6 DEF IInv

\* Every handler of the map.
LEMMA UpkeepKeeps ==
    ASSUME IInv, ~loaded, Upkeep, Quiet
    PROVE  IInv' /\ MapStep
  <1>1. CASE \E p \in Free : SetState(p)
    BY <1>1, SetStateKeeps
  <1>2. CASE OdometryTimer
    BY <1>2, OdometryTimerKeeps
  <1>3. CASE SetHomingPos
    BY <1>3, SetHomingPosKeeps
  <1>4. CASE FrontierTimer
    BY <1>4, FrontierTimerKeeps
  <1>5. CASE \E p \in Places : TopologicalTimer(p)
    BY <1>5, TopologicalTimerKeeps
  <1>6. CASE \E p \in SemanticPlaces : Semantics(p)
    BY <1>6, SemanticsKeeps
  <1>7. CASE SearchHomingPath \/ \E p \in SemanticPlaces : GlobalPath(p)
    BY <1>7, TyingKeeps
  <1>8. CASE \E zone \in Zones : \E searched \in { {}, zone, Places } : AddZone(zone, searched)
    <2>1. PICK zone \in Zones : \E searched \in { {}, zone, Places } : AddZone(zone, searched)
      BY <1>8
    <2>2. PICK searched \in { {}, zone, Places } : AddZone(zone, searched)
      BY <2>1
    <2> QED
      BY <2>2, AddZoneKeeps
  <1>9. CASE ClearExclusionZones
    BY <1>9, ClearZonesKeeps
  <1>10. CASE LoadGraph
    BY <1>10, LoadGraphKeeps
  <1> QED
    BY <1>1, <1>2, <1>3, <1>4, <1>5, <1>6, <1>7, <1>8, <1>9, <1>10 DEF Upkeep

-----------------------------------------------------------------------------
(* The rounds of local exploration and the calls of the planner.           *)

\* A round begins.
LEMMA FreshIsPlanner ==
    ASSUME IInv, ~loaded
    PROVE  /\ IsPlanner(Fresh) /\ Fresh.graph \in Grown(graph)
           /\ Fresh.target = target /\ Fresh.lowGain = lowGain /\ Fresh.answer = NoAnswer
  <1> DEFINE s == State
             f == Fresh
  <1>1. IsPlanner(s) /\ s.graph = graph /\ s.target = target /\ s.lowGain = lowGain
        /\ s.answer = NoAnswer
    BY StateIsPlanner
  <1>2. ResetGraph \in Grown(s.graph)
    BY <1>1, SpaceAssumption, ResetGrows DEF IInv, MapInv, RoundInv, RobotInv
  <1>3. f = [s EXCEPT !.graph = ResetGraph, !.trig = FALSE]
    BY DEF Fresh
  <1> HIDE DEF s, f
  <1>4. f = [graph |-> ResetGraph, target |-> s.target, ongoing |-> s.ongoing, trig |-> FALSE,
             lowGain |-> s.lowGain, cacheReady |-> s.cacheReady, homing |-> s.homing,
             answer |-> s.answer]
    BY <1>1, <1>3 DEF IsPlanner, IsState
  <1>5. Follows(s, f)
    BY <1>1, <1>2, <1>3, Untriggered
  <1>6. f.graph \in Grown(graph) /\ f.target = target /\ f.lowGain = lowGain /\ f.answer = NoAnswer
    BY <1>1, <1>2, <1>4
  <1> QED
    BY <1>5, <1>6 DEF Follows, f

\* A local graph of nothing but its root.
LEMMA RootOnlyIsGraph ==
    ASSUME IInv
    PROVE  RootOnly \in Graphs
  BY SpaceAssumption, RootIsGraph DEF RootOnly, IInv, RobotInv

\* A vertex that shows something is marked, and only such a one is labelled.
LabelsAreTrue(g) ==
    \A v \in Ids(g) : /\ g.vertex[v].gain > 0 => g.vertex[v].frontier
                      /\ g.vertex[v].type = "kFrontier" => g.vertex[v].gain > 0

\* computeExplorationGain of a graph that is new does that.
LEMMA TrueLabels ==
    ASSUME NEW g \in Graphs, Unlabelled(g), Ids(Labelled(g)) = Ids(g)
    PROVE  LabelsAreTrue(Labelled(g))
  <1> SUFFICES ASSUME NEW v \in Ids(g)
               PROVE  LET w == Labelled(g).vertex[v] IN
                      (w.gain > 0 => w.frontier) /\ (w.type = "kFrontier" => w.gain > 0)
    BY DEF LabelsAreTrue
  <1> DEFINE w == Labelled(g).vertex[v]
  <1>1. PICK gain : gain = Gain(g.vertex[v].place)
    OBVIOUS
  <1>2. /\ w.gain = gain /\ w.frontier = (gain > 0)
        /\ ~(gain > 0) => w.type = g.vertex[v].type
    BY <1>1, LabelledShows
  <1>3. g.vertex[v].type # "kFrontier"
    BY DEF Unlabelled
  <1> HIDE DEF w
  <1>4. w.gain > 0 => w.frontier
    BY <1>2
  <1>5. w.type = "kFrontier" => w.gain > 0
    BY <1>2, <1>3
  <1> QED
    BY <1>4, <1>5 DEF w

\* The local graph of a round, evaluated.
LEMMA BuiltIsGraph ==
    ASSUME IInv, NEW samples \in Samples
    PROVE  LET g == Labelled(BuildGraph(samples)) IN
           g \in Graphs /\ Linked(g) /\ g.idCount <= MaxSamples /\ LabelsAreTrue(g)
  <1> DEFINE free == { p \in Places \ {robot} : BoxFree(p) }
  <1>0. PICK n \in 0..MaxSamples : \E S \in kSubset(n, free) : samples = SetToSeq(S)
    BY DEF Samples
  <1>1. PICK S \in SUBSET free : samples = SetToSeq(S) /\ Cardinality(S) = n
    BY <1>0 DEF kSubset
  <1>2. S \in SUBSET Places
    OBVIOUS
  <1>3. IsFiniteSet(S)
    BY <1>2, SpaceAssumption, FS_Subset
  <1>4. Cardinality(S) \in Nat /\ ExistsBijection(1..Cardinality(S), S)
    BY <1>3, FS_CardinalityType
  <1>5. PICK f \in [1..Cardinality(S) -> S] : IsInjective(f)
    BY <1>4 DEF ExistsBijection, Bijection, Injection
  <1>6. samples \in [1..Cardinality(S) -> S]
    BY <1>1, <1>5 DEF SetToSeq
  <1>7. samples \in Seq(Places) /\ Len(samples) <= MaxSamples
    BY <1>1, <1>2, <1>4, <1>6, ReachAssumption
  <1>8. robot \in Places
    BY SpaceAssumption DEF IInv, RobotInv
  <1> DEFINE g == BuildGraph(samples)
  <1>9. g \in Graphs /\ Linked(g) /\ g.idCount <= Len(samples) /\ Unlabelled(g)
    BY <1>7, <1>8, BatchIsGraph, BasicIsGraph DEF BuildGraph
  <1> HIDE DEF g
  <1>10. /\ Labelled(g) \in Graphs /\ Ids(Labelled(g)) = Ids(g)
         /\ Labelled(g).edges = g.edges /\ Labelled(g).idCount = g.idCount
    BY <1>9, LabelledGraph
  <1>11. g.idCount \in Int /\ Len(samples) \in Nat /\ MaxSamples \in Nat
    BY <1>7, <1>9, SoundGraph, ReachAssumption
  <1>12. Linked(Labelled(g))
    BY <1>9, <1>10, MoreEdgesLink
  <1>13. LabelsAreTrue(Labelled(g))
    <2>1. g \in Graphs /\ Unlabelled(g) /\ Ids(Labelled(g)) = Ids(g)
      BY <1>9, <1>10
    <2> QED
      BY <2>1, TrueLabels
  <1> QED
    BY <1>7, <1>9, <1>10, <1>11, <1>12, <1>13 DEF g

\* A round is refused: frontiers that were still to be added are added first.
LEMMA ExploreRefusedKeeps ==
    ASSUME IInv, ~loaded, ExploreRefused
    PROVE  IInv' /\ MapStep /\ AnswerInv'
  <1> DEFINE s == Fresh
             forward == [NoAnswer EXCEPT !.status = "kForward"]
             t == [s EXCEPT !.answer = forward]
  <1>1. /\ Becomes(t) /\ local' = RootOnly /\ rep' = NoReport /\ pending' = FALSE
        /\ UNCHANGED <<triggers, robotVars, mapVars>>
    BY DEF ExploreRefused
  <1>2. /\ IsPlanner(s) /\ s.graph \in Grown(graph)
        /\ s.target = target /\ s.lowGain = lowGain
    BY FreshIsPlanner
  <1>3. forward.status \in Statuses /\ forward.path = <<>>
    <2>1. forward.status = "kForward"
      BY AnswerStatus
    <2> QED
      BY <2>1, NoAnswerFields DEF Statuses
  <1> HIDE DEF s, forward, t
  <1>4. IsPlanner(t) /\ t.graph \in Grown(graph) /\ t.target = target /\ t.lowGain = lowGain
    <2>1. Follows(s, t)
      BY <1>2, <1>3, Answered DEF t
    <2>2. t.graph = s.graph /\ t.target = s.target /\ t.lowGain = s.lowGain
      BY <1>2 DEF t, IsPlanner, IsState
    <2> QED
      BY <1>2, <2>1, <2>2 DEF Follows
  <1>8. AnswerInv'
    <2>1. t.answer = forward
      BY <1>2, GivenAnswer DEF t
    <2>2. answer' = t.answer
      BY <1>1 DEF Becomes
    <2> QED
      BY <1>3, <2>1, <2>2, PathlessAnswer
  <1>5. MapInv' /\ TrackInv' /\ PlannerInv' /\ MapStep
    BY <1>1, <1>4, BecomesKeeps DEF IInv, PlannerInv, robotVars, mapVars
  <1>6. RoundInv'
    BY <1>1, RootOnlyIsGraph, NoReportIsReport DEF IInv, RoundInv
  <1>7. RobotInv' /\ ZoneInv'
    BY <1>1 DEF IInv, RobotInv, ZoneInv, robotVars, mapVars
  <1> QED
    BY <1>5, <1>6, <1>7, <1>8 DEF IInv

\* A round without a local graph.
LEMMA ExploreStrandedKeeps ==
    ASSUME IInv, ~loaded, NEW samples \in Samples, ExploreStranded(samples)
    PROVE  IInv' /\ MapStep /\ AnswerInv'
  <1> DEFINE s == Fresh
             t == [s EXCEPT !.ongoing = FALSE]
  <1>1. /\ Becomes(t) /\ known' = known \cup StartupArea(robot)
        /\ triggers < MaxTriggers /\ triggers' = triggers + 1
        /\ local' = RootOnly /\ rep' = NoReport /\ pending' = FALSE
        /\ UNCHANGED <<robot, queue, prev, lastMark, history, mapVars>>
    BY DEF ExploreStranded
  <1>2. /\ IsPlanner(s) /\ s.graph \in Grown(graph)
        /\ s.target = target /\ s.lowGain = lowGain /\ s.answer = NoAnswer
    BY FreshIsPlanner
  <1> HIDE DEF s, t
  <1>3. IsPlanner(t) /\ t.graph \in Grown(graph) /\ t.target = target /\ t.lowGain = lowGain
    <2>1. Follows(s, t)
      BY <1>2, Released DEF t
    <2>2. t.graph = s.graph /\ t.target = s.target /\ t.lowGain = s.lowGain
      BY <1>2 DEF t, IsPlanner, IsState
    <2> QED
      BY <1>2, <2>1, <2>2 DEF Follows
  <1>8. AnswerInv'
    <2>1. t.answer = s.answer
      BY <1>2 DEF t, IsPlanner, IsState
    <2>2. answer' = t.answer
      BY <1>1 DEF Becomes
    <2> QED
      BY <1>2, <2>1, <2>2, NoAnswerFields, PathlessAnswer
  <1>4. MapInv' /\ TrackInv' /\ PlannerInv' /\ MapStep
    BY <1>1, <1>3, BecomesKeeps DEF IInv, PlannerInv, mapVars
  <1>5. RoundInv'
    <2>1. triggers' \in 0..MaxTriggers
      BY <1>1, BoundAssumption DEF IInv, RoundInv
    <2> QED
      BY <1>1, <2>1, RootOnlyIsGraph, NoReportIsReport DEF RoundInv
  <1>6. RobotInv'
    BY <1>1, SpaceAssumption DEF IInv, RobotInv, StartupArea
  <1>7. ZoneInv'
    BY <1>1 DEF IInv, ZoneInv, mapVars
  <1> QED
    BY <1>4, <1>5, <1>6, <1>7, <1>8 DEF IInv

\* The counter never falls below nothing.
LEMMA LowGainIsNatural ==
    ASSUME NEW s, s.lowGain \in Nat, NEW g, NEW r
    PROVE  LowGain(s, g, r) \in Nat
  <1>1. s.lowGain + 1 \in Nat /\ LargerOf(s.lowGain - 1, 0) \in Nat
    BY DEF LargerOf
  <1> QED
    BY <1>1 DEF LowGain

\* A round has been evaluated: the target is given up and the counter is set.
LEMMA Weighed ==
    ASSUME NEW s, IsPlanner(s), NEW n \in Nat
    PROVE  /\ IsPlanner([s EXCEPT !.ongoing = FALSE, !.lowGain = n])
           /\ [s EXCEPT !.ongoing = FALSE, !.lowGain = n].graph = s.graph
           /\ [s EXCEPT !.ongoing = FALSE, !.lowGain = n].target = s.target
  <1> SUFFICES ASSUME NEW t, t = [s EXCEPT !.ongoing = FALSE, !.lowGain = n]
               PROVE  IsPlanner(t) /\ t.graph = s.graph /\ t.target = s.target
    OBVIOUS
  <1>1. t = [graph |-> s.graph, target |-> s.target, ongoing |-> FALSE, trig |-> s.trig,
             lowGain |-> n, cacheReady |-> s.cacheReady, homing |-> s.homing, answer |-> s.answer]
    BY DEF IsPlanner, IsState
  <1> QED
    BY <1>1 DEF IsPlanner, IsState

\* A planner asked in the state s leaves what follows from it.
LEMMA FollowingKeeps ==
    ASSUME IInv, ~loaded, NEW s, IsPlanner(s), s.graph \in Grown(graph), s.target = target,
           s.lowGain \in 0..MaxLowGainIters, NEW t, Follows(s, t), Becomes(t),
           UNCHANGED <<prev, closed, loaded>>
    PROVE  MapInv' /\ TrackInv' /\ PlannerInv' /\ MapStep
  <1>1. IsPlanner(t) /\ t.graph \in Grown(graph)
    BY GrowthIsTransitive DEF Follows
  <1>2. t.target = target \/ t.target \in Ids(t.graph)
    BY DEF Follows
  <1>3. t.lowGain \in 0..MaxLowGainIters
    <2>1. 0 \in 0..MaxLowGainIters
      BY PlannerAssumption
    <2> QED
      BY <2>1 DEF Follows
  <1> QED
    BY <1>1, <1>2, <1>3, BecomesKeeps

\* A call of the planner, as the behaviour tree and the service make it.
LEMMA PlanningKeeps ==
    ASSUME IInv, ~loaded, NEW q, q.remaining \in Int, Becomes(Plan(State, q)),
           UNCHANGED <<robot, known, prev, closed, loaded>>
    PROVE  MapInv' /\ TrackInv' /\ PlannerInv' /\ MapStep /\ AnswerInv'
  <1>1. /\ IsPlanner(State) /\ State.graph = graph /\ State.target = target
        /\ State.lowGain = lowGain /\ robot \in Places
    BY StateIsPlanner
  <1>2. Follows(State, Plan(State, q))
    BY <1>1, PlanFollows
  <1>3. State.graph \in Grown(graph) /\ State.lowGain \in 0..MaxLowGainIters
    BY <1>1, GrowthIsReflexive DEF IInv, MapInv, PlannerInv
  <1>4. AnswerInv'
    BY <1>1, PlanIsJustified, BecomesJustified
  <1> QED
    BY <1>1, <1>2, <1>3, <1>4, FollowingKeeps

\* The question of an automatic call.
LEMMA AutomaticQuestion ==
    ASSUME NEW remaining \in Budgets, NEW byRegion
    PROVE  Automatic(remaining, byRegion).remaining \in Int
  BY PlannerAssumption DEF Automatic

\* The round goes on after the space around the robot was taken for free.
LEMMA PlanStrandedKeeps ==
    ASSUME IInv, ~loaded, NEW remaining \in Budgets, NEW byRegion,
           PlanStranded(remaining, byRegion)
    PROVE  IInv' /\ MapStep /\ AnswerInv'
  <1>1. /\ Becomes(Plan(State, Automatic(remaining, byRegion)))
        /\ UNCHANGED <<robotVars, roundVars, mapVars>>
    BY DEF PlanStranded
  <1>2. MapInv' /\ TrackInv' /\ PlannerInv' /\ MapStep /\ AnswerInv'
    BY <1>1, AutomaticQuestion, PlanningKeeps DEF robotVars, mapVars
  <1>3. RobotInv' /\ RoundInv' /\ ZoneInv'
    BY <1>1 DEF IInv, RobotInv, RoundInv, ZoneInv, robotVars, roundVars, mapVars
  <1> QED
    BY <1>2, <1>3 DEF IInv

\* A call from outside of a round.
LEMMA GlobalPlannerKeeps ==
    ASSUME IInv, ~loaded, NEW q, q.remaining \in Int, GlobalPlanner(q)
    PROVE  IInv' /\ MapStep /\ AnswerInv'
  <1>1. Becomes(Plan(State, q)) /\ UNCHANGED <<robotVars, roundVars, mapVars>>
    BY DEF GlobalPlanner
  <1>2. MapInv' /\ TrackInv' /\ PlannerInv' /\ MapStep /\ AnswerInv'
    BY <1>1, PlanningKeeps DEF robotVars, mapVars
  <1>3. RobotInv' /\ RoundInv' /\ ZoneInv'
    BY <1>1 DEF IInv, RobotInv, RoundInv, ZoneInv, robotVars, roundVars, mapVars
  <1> QED
    BY <1>2, <1>3 DEF IInv

\* The target is given up, and the map stays.
LEMMA StopKeeps ==
    ASSUME IInv, Stop
    PROVE  IInv' /\ MapStep /\ AnswerInv'
  <1>1. /\ ongoing' = FALSE /\ trig' = FALSE /\ answer' = NoAnswer
        /\ UNCHANGED <<robotVars, roundVars, mapVars, graph, target, lowGain, cacheReady, homing>>
    BY DEF Stop, vars
  <1>2. RobotInv' /\ RoundInv' /\ ZoneInv' /\ TrackInv'
    BY <1>1 DEF IInv, RobotInv, RoundInv, ZoneInv, TrackInv, robotVars, roundVars, mapVars
  <1>3. MapInv'
    BY <1>1 DEF IInv, MapInv
  <1>4. PlannerInv'
    <2>1. answer'.status \in Statuses
      BY <1>1, AnswerStatus DEF Statuses
    <2> QED
      BY <1>1, <2>1 DEF IInv, PlannerInv
  <1>5. MapStep
    BY <1>1, GrowthIsReflexive DEF IInv, MapInv, MapStep, MapGrows, mapVars
  <1>6. AnswerInv'
    BY <1>1, NoAnswerFields, PathlessAnswer
  <1> QED
    BY <1>2, <1>3, <1>4, <1>5, <1>6 DEF IInv

\* The vertices of a path, as they are on the local graph or bare of their types.
LEMMA LeafPathOfVertices ==
    ASSUME NEW g \in Graphs, NEW r, IsReport(r, Ids(g)), NEW leaf,
           NEW path, path = PathVertices(g, LeafPath(r, leaf))
    PROVE  path \in Seq(Vertices) /\ [i \in DOMAIN path |-> Vertex(path[i].place)] \in Seq(Vertices)
  <1> DEFINE n == Len(path)
             bare == [i \in DOMAIN path |-> Vertex(path[i].place)]
  <1>1. path \in Seq(Vertices)
    <2>1. LeafPath(r, leaf) \in Seq(Ids(g))
      BY SoundGraph, PathIsOfVertices DEF LeafPath
    <2> HIDE DEF Vertices
    <2> QED
      BY <2>1, VerticesOfPath
  <1>2. n \in Nat /\ DOMAIN path = 1..n /\ \A i \in 1..n : path[i] \in Vertices
    <2> HIDE DEF Vertices
    <2> QED
      BY <1>1
  <1>3. ASSUME NEW i \in 1..n
        PROVE  Vertex(path[i].place) \in Vertices
    <2>1. path[i].place \in Places
      BY <1>2 DEF Vertices
    <2> QED
      BY <2>1, NewVertex
  <1> HIDE DEF Vertices, n
  <1>4. bare \in [1..n -> Vertices]
    BY <1>2, <1>3
  <1> HIDE DEF bare
  <1>5. bare \in Seq(Vertices)
    BY <1>2, <1>4
  <1> QED
    BY <1>1, <1>5 DEF bare

\* What a round decides, from the state t and the local graph g with the
\* report r, leaves what follows from t.
LEMMA DecisionKeeps ==
    ASSUME IInv, ~loaded, NEW t, IsPlanner(t), t.graph \in Grown(graph), t.target = target,
           NEW g \in Graphs, NEW r, IsReport(r, Ids(g)),
           NEW remaining \in Budgets, NEW open \in BOOLEAN,
           \/ ConsecLowGain(t, remaining, open)
           \/ NoGain(t, g, r, remaining, open)
           \/ Forward(t, g, r, remaining, open),
           UNCHANGED <<robot, known, prev, closed, loaded>>
    PROVE  MapInv' /\ TrackInv' /\ PlannerInv' /\ MapStep /\ AnswerInv'
  <1> DEFINE q == Automatic(remaining, open)
  <1>1. robot \in Places /\ q.remaining \in Int
    BY AutomaticQuestion, SpaceAssumption DEF IInv, RobotInv
  <1>2. t.lowGain < MaxLowGainIters => t.lowGain \in 0..MaxLowGainIters
    BY PlannerAssumption DEF IsPlanner
  <1> HIDE DEF q
  <1>3. CASE ConsecLowGain(t, remaining, open)
    <2> DEFINE u == [t EXCEPT !.lowGain = 0, !.trig = TRUE]
    <2>1. Becomes(Plan(u, q))
      BY <1>3 DEF ConsecLowGain, q
    <2>2. Follows(t, u) /\ u.graph = t.graph /\ u.target = t.target /\ u.lowGain = 0
      <3>1. Follows(t, u)
        BY Triggered
      <3>2. u.graph = t.graph /\ u.target = t.target /\ u.lowGain = 0
        BY DEF IsPlanner, IsState
      <3> QED
        BY <3>1, <3>2
    <2> HIDE DEF u
    <2>3. IsPlanner(u) /\ u.graph \in Grown(graph) /\ u.lowGain \in 0..MaxLowGainIters
      <3>1. 0 \in 0..MaxLowGainIters
        BY PlannerAssumption
      <3> QED
        BY <2>2, <3>1 DEF Follows
    <2>4. Follows(u, Plan(u, q))
      BY <1>1, <2>3, PlanFollows
    <2>5. AnswerInv'
      BY <1>1, <2>1, <2>3, PlanIsJustified, BecomesJustified
    <2> QED
      BY <2>1, <2>2, <2>3, <2>4, <2>5, FollowingKeeps
  <1>4. CASE NoGain(t, g, r, remaining, open)
    <2>1. Becomes(Plan(t, q)) /\ t.lowGain < MaxLowGainIters
      BY <1>4 DEF NoGain, q
    <2>2. Follows(t, Plan(t, q))
      BY <1>1, PlanFollows
    <2>3. AnswerInv'
      BY <1>1, <2>1, PlanIsJustified, BecomesJustified
    <2> QED
      BY <1>2, <2>1, <2>2, <2>3, FollowingKeeps
  <1>5. CASE Forward(t, g, r, remaining, open)
    <2>1. PICK leaf \in GoodLeaves(g, r) :
              LET path == PathVertices(g, LeafPath(r, leaf))
                  bare == [i \in DOMAIN path |-> Vertex(path[i].place)]
              IN  Becomes(BestPath(t, IF open THEN bare ELSE path, remaining))
      BY <1>5 DEF Forward
    <2> DEFINE path == PathVertices(g, LeafPath(r, leaf))
               bare == [i \in DOMAIN path |-> Vertex(path[i].place)]
               taken == IF open THEN bare ELSE path
    <2>2. t.lowGain < MaxLowGainIters
      BY <1>5 DEF Forward
    <2>3. Becomes(BestPath(t, taken, remaining))
      BY <2>1
    <2>4. path \in Seq(Vertices) /\ bare \in Seq(Vertices)
      BY LeafPathOfVertices
    <2> HIDE DEF path, bare
    <2>5. taken \in Seq(Vertices)
      BY <2>4
    <2> HIDE DEF taken
    <2>6. Follows(t, BestPath(t, taken, remaining))
      BY <1>1, <2>5, BestPathFollows
    <2>7. AnswerInv'
      BY <1>1, <2>3, BestPathIsJustified, BecomesJustified
    <2> QED
      BY <1>2, <2>2, <2>3, <2>6, <2>7, FollowingKeeps
  <1> QED
    BY <1>3, <1>4, <1>5

\* A round with a local graph.
LEMMA ExploreKeeps ==
    ASSUME IInv, ~loaded, NEW samples \in Samples, Explore(samples)
    PROVE  IInv' /\ MapStep /\ AnswerInv'
  <1> DEFINE s == Fresh
             g == Labelled(BuildGraph(samples))
             r == ShortestPaths(g, 0)
             t == [s EXCEPT !.ongoing = FALSE, !.lowGain = LowGain(s, g, r)]
  <1>1. /\ triggers < MaxTriggers /\ triggers' = triggers + 1
        /\ local' = g /\ rep' = r /\ pending' = TRUE
        /\ UNCHANGED <<robotVars, mapVars>>
    BY DEF Explore
  <1>2. PICK remaining \in Budgets, open \in BOOLEAN :
            \/ ConsecLowGain(t, remaining, open)
            \/ NoGain(t, g, r, remaining, open)
            \/ Forward(t, g, r, remaining, open)
    BY DEF Explore
  <1>3. /\ IsPlanner(s) /\ s.graph \in Grown(graph)
        /\ s.target = target /\ s.lowGain = lowGain
    BY FreshIsPlanner
  <1>4. g \in Graphs
    BY BuiltIsGraph
  <1> HIDE DEF s, g
  <1>5. IsReport(r, Ids(g))
    BY <1>4, SearchReports
  <1> HIDE DEF r
  <1>6. LowGain(s, g, r) \in Nat
    <2>1. s.lowGain \in Nat
      BY <1>3 DEF IsPlanner
    <2> QED
      BY <2>1, LowGainIsNatural
  <1> DEFINE n == LowGain(s, g, r)
  <1> HIDE DEF n, t
  <1>7. IsPlanner(t) /\ t.graph = s.graph /\ t.target = s.target
    <2>1. t = [s EXCEPT !.ongoing = FALSE, !.lowGain = n]
      BY DEF t, n
    <2>2. n \in Nat
      BY <1>6 DEF n
    <2> QED
      BY <1>3, <2>1, <2>2, Weighed
  <1>8. UNCHANGED <<robot, known, prev, closed, loaded>>
    BY <1>1 DEF robotVars, mapVars
  <1>9. t.graph \in Grown(graph) /\ t.target = target
    BY <1>3, <1>7
  <1>10. MapInv' /\ TrackInv' /\ PlannerInv' /\ MapStep /\ AnswerInv'
    BY <1>2, <1>4, <1>5, <1>7, <1>8, <1>9, DecisionKeeps
  <1>11. RoundInv'
    <2>1. triggers' \in 0..MaxTriggers
      BY <1>1, BoundAssumption DEF IInv, RoundInv
    <2> QED
      BY <1>1, <1>4, <1>5, <2>1 DEF RoundInv
  <1>12. RobotInv' /\ ZoneInv'
    BY <1>1 DEF IInv, RobotInv, ZoneInv, robotVars, mapVars
  <1> QED
    BY <1>10, <1>11, <1>12 DEF IInv

-----------------------------------------------------------------------------
(* The invariant holds.                                                    *)

\* The node starts with an empty map.
LEMMA InitHolds == Init => IInv
  <1> SUFFICES ASSUME Init
               PROVE  IInv
    OBVIOUS
  <1>1. MapInit /\ target = 0 /\ ongoing = FALSE /\ trig = FALSE /\ lowGain = 0
        /\ cacheReady = FALSE /\ homing = FALSE /\ answer = NoAnswer
    BY DEF Init
  <1>2. /\ known = View(Home) /\ robot = Home /\ queue = <<Home>> /\ prev = NoVertex
        /\ lastMark = Home /\ history = {} /\ triggers = 0 /\ graph = EmptyGraph
        /\ local = EmptyGraph /\ rep = NoReport /\ pending = FALSE /\ closed = {}
        /\ loaded = FALSE /\ cut = FALSE
    BY <1>1 DEF MapInit
  <1>3. RobotInv
    <2>1. View(Home) \subseteq Places /\ Home \in Free
      BY SpaceAssumption DEF View
    <2>2. <<Home>> \in Seq(Free) /\ Len(<<Home>>) = 1
      BY <2>1
    <2>3. 1 <= QueueMax
      BY BoundAssumption
    <2> QED
      BY <1>2, <2>1, <2>2, <2>3 DEF RobotInv
  <1>4. RoundInv
    <2>1. 0 \in 0..MaxTriggers
      BY BoundAssumption
    <2> QED
      BY <1>2, <2>1, EmptyIsSound, NoReportIsReport DEF RoundInv
  <1>5. ZoneInv
    BY <1>2 DEF ZoneInv
  <1>6. MapInv
    BY <1>2, EmptyIsSound, BoundAssumption DEF MapInv
  <1>7. TrackInv
    <2>1. -1 \in -1..(MaxVertices - 1)
      BY BoundAssumption
    <2> QED
      BY <1>2, <2>1, SpaceAssumption DEF TrackInv, NoVertex
  <1>8. PlannerInv
    <2>1. 0 \in 0..(MaxVertices - 1) /\ 0 \in 0..MaxLowGainIters
      BY BoundAssumption, PlannerAssumption
    <2>2. answer.status \in Statuses
      BY <1>1, AnswerStatus DEF Statuses
    <2> QED
      BY <1>1, <2>1, <2>2 DEF PlannerInv
  <1> QED
    BY <1>3, <1>4, <1>5, <1>6, <1>7, <1>8 DEF IInv

\* Every step keeps it, and does to the map what PlaceMap allows.
LEMMA NextKeeps == IInv /\ Next => IInv' /\ MapStep /\ AnswerInv'
  <1> SUFFICES ASSUME IInv, Next
               PROVE  IInv' /\ MapStep /\ AnswerInv'
    OBVIOUS
  <1>1. ~loaded
    BY DEF Next
  <1>2. CASE Rounds
    <2>1. CASE ExploreRefused
      BY <1>1, <2>1, ExploreRefusedKeeps
    <2>2. CASE \E samples \in Samples : ExploreStranded(samples) \/ Explore(samples)
      BY <1>1, <2>2, ExploreStrandedKeeps, ExploreKeeps
    <2> QED
      BY <1>2, <2>1, <2>2 DEF Rounds
  <1>3. CASE Queries
    <2>1. PICK remaining \in Budgets, byRegion \in BOOLEAN :
              \/ GlobalPlanner(Automatic(remaining, byRegion))
              \/ \E id \in Ids(graph) : \E notCheck, ignoreTime \in BOOLEAN :
                     GlobalPlanner([id |-> id, notCheck |-> notCheck, ignoreTime |-> ignoreTime,
                                    remaining |-> remaining, byRegion |-> byRegion])
      BY <1>3 DEF Queries
    <2>2. CASE GlobalPlanner(Automatic(remaining, byRegion))
      BY <1>1, <2>2, AutomaticQuestion, GlobalPlannerKeeps
    <2>3. ASSUME NEW id \in Ids(graph), NEW notCheck \in BOOLEAN, NEW ignoreTime \in BOOLEAN,
                 GlobalPlanner([id |-> id, notCheck |-> notCheck, ignoreTime |-> ignoreTime,
                                remaining |-> remaining, byRegion |-> byRegion])
          PROVE  IInv' /\ MapStep /\ AnswerInv'
      <3> DEFINE q == [id |-> id, notCheck |-> notCheck, ignoreTime |-> ignoreTime,
                       remaining |-> remaining, byRegion |-> byRegion]
      <3>1. q.remaining \in Int
        BY PlannerAssumption
      <3>2. GlobalPlanner(q)
        BY <2>3
      <3> HIDE DEF q
      <3> QED
        BY <1>1, <3>1, <3>2, GlobalPlannerKeeps
    <2> QED
      BY <2>1, <2>2, <2>3
  <1>4. CASE Stop
    BY <1>4, StopKeeps
  <1>5. CASE \E remaining \in Budgets : \E byRegion \in BOOLEAN : PlanStranded(remaining, byRegion)
    BY <1>1, <1>5, PlanStrandedKeeps
  <1>6. CASE Upkeep /\ answer' = NoAnswer /\ UNCHANGED <<globalVars, stranded>>
    <2>1. Quiet
      BY <1>6 DEF Quiet
    <2>2. AnswerInv'
      BY <1>6, NoAnswerFields, PathlessAnswer
    <2> QED
      BY <1>1, <1>6, <2>1, <2>2, UpkeepKeeps
  <1> QED
    BY <1>2, <1>3, <1>4, <1>5, <1>6 DEF Next

\* Nothing changes in a step of others.
LEMMA StutterKeeps == IInv /\ UNCHANGED allVars => IInv'
  <1> SUFFICES ASSUME IInv, UNCHANGED allVars
               PROVE  IInv'
    OBVIOUS
  <1>1. /\ UNCHANGED <<robotVars, roundVars, mapVars, graph>>
        /\ UNCHANGED <<target, ongoing, trig, lowGain, cacheReady, homing, answer>>
    BY DEF allVars, vars, globalVars
  <1>2. RobotInv' /\ RoundInv' /\ ZoneInv' /\ TrackInv'
    BY <1>1 DEF IInv, RobotInv, RoundInv, ZoneInv, TrackInv, robotVars, roundVars, mapVars
  <1>3. MapInv'
    BY <1>1 DEF IInv, MapInv
  <1>4. PlannerInv'
    BY <1>1 DEF IInv, PlannerInv, mapVars
  <1> QED
    BY <1>2, <1>3, <1>4 DEF IInv

\* The invariant of the planners and of the map below them.
THEOREM Invariance == Spec => []IInv
  <1>1. IInv /\ [Next]_allVars => IInv'
    BY NextKeeps, StutterKeeps
  <1> QED
    BY <1>1, InitHolds, PTL DEF Spec

-----------------------------------------------------------------------------
(* What follows of the map.                                                *)

\* Types of everything the planners keep, with the ids, places, types and
\* gains of both graphs.
THEOREM PlannerTyping == Spec => []PlannerTypeOK
  <1>1. IInv => PlannerTypeOK
    <2> SUFFICES ASSUME IInv
                 PROVE  PlannerTypeOK
      OBVIOUS
    <2>1. ASSUME NEW g \in {graph, local}, NEW v \in Ids(g)
          PROVE  g.vertex[v] \in [place : Places, type : Types, frontier : BOOLEAN, gain : Nat]
      <3>1. g \in Graphs
        BY DEF IInv, MapInv, RoundInv
      <3> QED
        BY <3>1, SoundGraph DEF Vertices
    <2>2. Cardinality(Ids(graph)) <= MaxVertices
      <3>1. Cardinality(Ids(graph)) = graph.idCount + 1 /\ graph.idCount \in Int
        BY SoundGraph DEF IInv, MapInv
      <3> QED
        BY <3>1, BoundAssumption DEF IInv, MapInv
    <2>3. /\ known \subseteq Places /\ robot \in Free /\ lastMark \in Free
          /\ queue \in Seq(Free) /\ Len(queue) <= QueueMax
          /\ prev \in [id : -1..(MaxVertices - 1), place : Places]
          /\ history \subseteq Free /\ closed \subseteq Places
          /\ triggers \in 0..MaxTriggers
      BY DEF IInv, RobotInv, TrackInv, ZoneInv, RoundInv
    <2>4. {pending, loaded, cut} \subseteq BOOLEAN
      BY DEF IInv, RoundInv, ZoneInv
    <2>5. TypeOK
      BY <2>1, <2>2, <2>3, <2>4 DEF TypeOK
    <2>6. {ongoing, trig, cacheReady, homing} \subseteq BOOLEAN
      BY DEF IInv, PlannerInv
    <2> QED
      BY <2>5, <2>6 DEF PlannerTypeOK, IInv, PlannerInv
  <1> QED
    BY <1>1, Invariance, PTL

\* The ids of the map and of the local graph are dense after every handler:
\* no vertex is taken out, every id is drawn once, and a loaded map draws one
\* for each of its vertices.
THEOREM IdsStayDense == Spec => []IdsAreDense
  <1>1. IInv => IdsAreDense
    BY SoundGraph DEF IInv, MapInv, RoundInv, IdsAreDense
  <1> QED
    BY <1>1, Invariance, PTL

\* The three records of the edges stay in step, whether edges are added one
\* by one, along a chain, in a batch, loaded, or cut by a zone.
THEOREM EdgesStayAgreed == Spec => []EdgesAgree
  <1>1. IInv => EdgesAgree
    BY SoundGraph DEF IInv, MapInv, RoundInv, EdgesAgree, InStep
  <1> QED
    BY <1>1, Invariance, PTL

\* Every map the node can come to may be saved and loaded again.
THEOREM SavedMapStaysSound == Spec => []SavedMapIsSound
  <1>1. IInv => SavedMapIsSound
    <2> SUFFICES ASSUME IInv
                 PROVE  SavedMapIsSound
      OBVIOUS
    <2> DEFINE h == MsgToGraph(GraphToMsg(graph))
    <2>1. /\ IsGraph(graph) /\ InStep(graph) /\ DenseIds(graph)
          /\ graph.idCount \in Int /\ graph.idCount >= -1
      BY SoundGraph DEF IInv, MapInv
    <2>2. h = MsgToGraph(GraphToMsg(graph))
      OBVIOUS
    <2> HIDE DEF h
    <2>3. /\ InStep(h) /\ DenseIds(h) /\ h.edges = graph.edges
          /\ \A v \in Ids(graph) : h.vertex[v].place = graph.vertex[v].place
      BY <2>1, <2>2, SavedGraphLoads
    <2> QED
      BY <2>2, <2>3 DEF SavedMapIsSound, InStep
  <1> QED
    BY <1>1, Invariance, PTL

\* While rounds are refused for a target, the target is a vertex of the map:
\* the test whether it was reached reads a vertex that exists.
THEOREM TargetStaysOnMap == Spec => [](ongoing /\ ~loaded => target \in Ids(graph))
  <1>1. IInv => (ongoing /\ ~loaded => target \in Ids(graph))
    BY DEF IInv, PlannerInv
  <1> QED
    BY <1>1, Invariance, PTL

\* The last answer is justified on the map as it is: planners answer with
\* what the search found on the map they leave, and whatever changes the map,
\* the position or what is known afterwards answers anew.
THEOREM AnswersAreJustified == Spec => []AnswerInv
  <1>1. Init => AnswerInv
    BY NoAnswerFields DEF Init, AnswerInv, SoundAnswer, TimelyAnswer
  <1>2. IInv /\ [Next]_allVars /\ AnswerInv => AnswerInv'
    <2>1. UNCHANGED allVars /\ AnswerInv => AnswerInv'
      BY DEF allVars, vars, robotVars, AnswerInv, SoundAnswer, TimelyAnswer, Left, StandsFor, Gain
    <2> QED
      BY <2>1, NextKeeps
  <1> QED
    BY <1>1, <1>2, Invariance, PTL DEF Spec

\* A path that a planner answers with leads over edges of the map from a
\* vertex that stands for the robot to the goal, and a frontier that it chose
\* by itself still shows something, on every space, map and budget.
THEOREM PathsAreSound == Spec => []PlannedPathIsSound
  <1>1. AnswerInv => PlannedPathIsSound
    <2> SUFFICES ASSUME AnswerInv, answer.path # <<>>
                 PROVE  /\ \A i \in Steps(answer.path) :
                               {answer.path[i], answer.path[i + 1]} \in graph.edges
                        /\ StandsFor(graph, Head(answer.path), robot)
                        /\ Last(answer.path) = answer.goal
                        /\ answer.auto => /\ graph.vertex[answer.goal].type = "kFrontier"
                                          /\ Gain(graph.vertex[answer.goal].place) > 0
      BY DEF PlannedPathIsSound
    <2> DEFINE path == answer.path
    <2>1. /\ Along(graph, path, path[1], answer.goal) /\ StandsFor(graph, path[1], robot)
          /\ answer.auto => /\ answer.goal \in FrontierIds(graph)
                            /\ Gain(graph.vertex[answer.goal].place) > 0
      BY DEF AnswerInv, SoundAnswer
    <2> HIDE DEF path
    <2>2. \A i \in Steps(path) : {path[i], path[i + 1]} \in graph.edges
      BY <2>1 DEF Along, Steps
    <2>3. Head(path) = path[1] /\ Last(path) = answer.goal
      BY <2>1 DEF Along, Last
    <2> QED
      BY <2>1, <2>2, <2>3 DEF path, FrontierIds
  <1> QED
    BY <1>1, AnswersAreJustified, PTL

\* Where time counts, following the path that a planner chose and coming home
\* along the map leaves the time to spare: the lengths of the paths are the
\* distances that the search reported, and on a map that has grown since, the
\* way home is no longer.
THEOREM TimeStaysEnough == Spec => []TimeSuffices
  <1>1. AnswerInv => TimeSuffices
    BY DEF AnswerInv, TimelyAnswer, Left, TimeSuffices
  <1> QED
    BY <1>1, AnswersAreJustified, PTL

\* A place that was visited is no frontier again, by whatever step: gains are
\* refreshed for frontiers alone, and new vertices take new ids.
THEOREM VisitedPlacesStayVisited == Spec => VisitedStaysVisited
  <1> DEFINE A == ~loaded' => \A v \in Ids(graph) \cap Ids(graph') :
                      graph.vertex[v].type = "kVisited" => graph'.vertex[v].type # "kFrontier"
  <1>1. MapStep => A
    <2> SUFFICES ASSUME MapStep, ~loaded', NEW v \in Ids(graph), NEW u \in Ids(graph'), v = u,
                        graph.vertex[v].type = "kVisited"
                 PROVE  graph'.vertex[v].type # "kFrontier"
      OBVIOUS
    <2>1. CASE MapGrows
      <3>1. graph'.vertex[v].type = "kVisited"
        BY <2>1 DEF MapGrows, Grown, Grows
      <3> QED
        BY <3>1
    <2>2. CASE MapIsCut
      <3>1. graph'.vertex[v].type = "kVisited"
        BY <2>2 DEF MapIsCut
      <3> QED
        BY <3>1
    <2>3. CASE MapIsOpened
      <3>1. graph'.vertex[v].type = "kVisited"
        BY <2>3 DEF MapIsOpened
      <3> QED
        BY <3>1
    <2>4. CASE MapIsReplaced
      BY <2>4 DEF MapIsReplaced
    <2> QED
      BY <2>1, <2>2, <2>3, <2>4 DEF MapStep
  <1> HIDE DEF A
  <1>2. IInv /\ [Next]_allVars => [A]_vars
    <2>1. IInv /\ Next => A
      BY <1>1, NextKeeps
    <2>2. UNCHANGED allVars => UNCHANGED vars
      BY DEF allVars
    <2> QED
      BY <2>1, <2>2
  <1>3. Spec => [][A]_vars
    BY <1>2, Invariance, PTL DEF Spec
  <1> QED
    BY <1>3 DEF VisitedStaysVisited, A

-----------------------------------------------------------------------------
(* There is a way: home along the map, to the recorded target, and to the  *)
(* frontiers of the local graph.                                           *)

\* No graph of the planners is so large that a distance on it looks like none.
LEMMA NoDistanceIsNone ==
    \E far \in Nat :
        /\ \A p, q \in Places : Dist(p, q) <= far
        /\ \A n \in Int : n <= MaxVertices + MaxSamples => far * (n + 1) < Inf
  <1>1. PICK far \in 0..Inf : /\ \A p, q \in Places : Dist(p, q) <= far
                              /\ far * (MaxVertices + MaxSamples + 1) < Inf
    BY ReachAssumption
  <1>2. far \in Nat /\ Inf \in Nat /\ MaxVertices \in Nat /\ MaxSamples \in Nat
    BY <1>1, ReachAssumption, BoundAssumption DEF Inf
  <1> DEFINE m == MaxVertices + MaxSamples + 1
  <1>3. m \in Nat /\ far * m < Inf
    BY <1>1, <1>2
  <1>4. ASSUME NEW n \in Int, n <= MaxVertices + MaxSamples
        PROVE  far * (n + 1) < Inf
    <2> DEFINE k == n + 1
    <2>1. k \in Int /\ k <= m
      BY <1>2, <1>4
    <2> HIDE DEF k, m
    <2>2. far * k <= far * m /\ far * k \in Int /\ far * m \in Int
      BY <1>2, <1>3, <2>1
    <2>3. far * k < Inf
      BY <1>2, <1>3, <2>2
    <2> QED
      BY <2>3 DEF k
  <1> QED
    BY <1>1, <1>2, <1>4

\* A path of the search has its ends.
LEMMA LedPath ==
    ASSUME NEW g, NEW r, NEW path, NEW v, Leads(g, 0, r, path, v)
    PROVE  /\ path # <<>> /\ Head(path) = 0 /\ Last(path) = v
           /\ \A i \in 1..(Len(path) - 1) : {path[i], path[i + 1]} \in g.edges
  <1>1. path \in Seq(Ids(g)) /\ path # <<>> /\ path[1] = 0 /\ path[Len(path)] = v
    BY DEF Leads
  <1>2. \A i \in 1..(Len(path) - 1) : {path[i], path[i + 1]} \in g.edges
    BY DEF Leads
  <1>3. Head(path) = 0 /\ Last(path) = v
    BY <1>1 DEF Last
  <1> QED
    BY <1>1, <1>2, <1>3

\* Tying the robot to the map takes one vertex at most.
LEMMA TieTakesOne ==
    ASSUME NEW g \in Graphs, Ids(g) # {}, robot \in Places
    PROVE  TieRobot(g).graph.idCount <= g.idCount + 1
  <1> DEFINE tie == Tie(g, robot, AnchorLimit, FALSE)
             near == NearestVertex(g, robot)
             id == GenerateVertexID(g)
             linked == NewLinked(g, Vertex(robot), near)
             expanded == ExpandGraph(g, robot, "kUnvisited")
             h == ExpandGraphEdges(tie.graph, tie.id)
  <1>1. IsTie(g, tie)
    BY TieIsTie
  <1>2. id = g.idCount + 1 /\ g.idCount \in Int
    BY SoundGraph DEF GenerateVertexID
  <1>3. near \in Ids(g)
    BY NearestIsVertex
  <1>4. linked.idCount = id
    BY <1>3, NewVertex, LinkedGrows
  <1>5. CanExpand(g, robot) => expanded.idCount = id
    <2>1. "kUnvisited" \in Types
      BY DEF Types
    <2> QED
      BY <2>1, ExpandedGrows
  <1>6. /\ \/ tie = [graph |-> linked, id |-> id]
           \/ CanExpand(g, robot) /\ tie = [graph |-> expanded, id |-> id]
           \/ tie = [graph |-> g, id |-> -1]
        /\ IsNear(g, robot, AnchorLimit) => tie = [graph |-> linked, id |-> id]
    BY DEF Tie, IsNear
  <1>7. TieRobot(g) = IF IsNear(g, robot, AnchorLimit) THEN [tie EXCEPT !.graph = h] ELSE tie
    BY DEF TieRobot
  <1> HIDE DEF tie, linked, expanded, near, id
  <1>8. tie.graph.idCount <= g.idCount + 1 /\ tie.graph \in Graphs
    BY <1>1, <1>2, <1>4, <1>5, <1>6 DEF IsTie, Grown
  <1>9. CASE ~IsNear(g, robot, AnchorLimit)
    BY <1>7, <1>8, <1>9
  <1>10. CASE IsNear(g, robot, AnchorLimit)
    <2>1. tie.id \in Ids(tie.graph)
      <3>1. tie.id = id /\ id # -1
        BY <1>2, <1>6, <1>10, SoundGraph
      <3> QED
        BY <1>1, <3>1 DEF IsTie
    <2>2. h \in Graphs /\ Ids(h) = Ids(tie.graph)
      BY <1>8, <2>1, ExpandedEdgesGrow DEF Grown
    <2> HIDE DEF h
    <2>3. /\ Cardinality(Ids(h)) = h.idCount + 1 /\ h.idCount \in Int
          /\ Cardinality(Ids(tie.graph)) = tie.graph.idCount + 1 /\ tie.graph.idCount \in Int
      BY <1>8, <2>2, SoundGraph
    <2>4. h.idCount = tie.graph.idCount
      BY <2>2, <2>3
    <2>5. TieRobot(g).graph = h
      BY <1>1, <1>7, <1>10 DEF IsTie
    <2> QED
      BY <1>8, <2>4, <2>5
  <1> QED
    BY <1>9, <1>10

\* What a tied robot's way home leads through.
LEMMA TiedRobotComesHome ==
    ASSUME NEW g \in Graphs, Linked(g), Cardinality(Ids(g)) > 1, g.idCount < MaxVertices,
           robot \in Places, TieRobot(g).id # -1
    PROVE  HomingPath(TieRobot(g)) # <<>>
  <1> DEFINE tie == TieRobot(g)
             h == tie.graph
             path == ShortestPath(ShortestPaths(h, 0), tie.id)
  <1>1. /\ Ids(g) = 0..g.idCount /\ g.idCount \in Int
        /\ Cardinality(Ids(g)) = g.idCount + 1
    BY SoundGraph
  <1>2. Ids(g) # {}
    BY <1>1
  <1>3. IsTie(g, tie) /\ h.idCount <= g.idCount + 1
    BY <1>2, TiedRobotIsTie, TieTakesOne
  <1> HIDE DEF tie
  <1>4. h \in Graphs /\ Linked(h) /\ tie.id \in Ids(h) /\ Cardinality(Ids(h)) >= 2
    <2>1. h \in Grown(g)
      BY <1>3 DEF IsTie
    <2>2. h \in Graphs /\ Linked(h)
      BY <2>1 DEF Grown
    <2>3. tie.id \in Ids(h)
      BY <1>3 DEF IsTie, tie
    <2>4. Cardinality(Ids(g)) <= Cardinality(Ids(h))
      BY <2>1, GrownCount
    <2>5. Cardinality(Ids(h)) = h.idCount + 1 /\ h.idCount \in Int
      BY <2>2, SoundGraph
    <2> QED
      BY <1>1, <2>2, <2>3, <2>4, <2>5
  <1> HIDE DEF h
  <1>5. PICK far \in Nat :
            /\ \A p, q \in Places : Dist(p, q) <= far
            /\ \A n \in Int : n <= MaxVertices + MaxSamples => far * (n + 1) < Inf
    BY NoDistanceIsNone
  <1>6. far * (h.idCount + 1) < Inf
    <2>1. h.idCount \in Int /\ h.idCount <= MaxVertices + MaxSamples
      BY <1>1, <1>3, <1>4, SoundGraph, BoundAssumption, ReachAssumption DEF h
    <2> QED
      BY <1>5, <2>1
  <1>7. Leads(h, 0, ShortestPaths(h, 0), path, tie.id)
    BY <1>4, <1>5, <1>6, PathsReach
  <1>8. path # <<>> /\ Head(path) = 0
    BY <1>7, LedPath
  <1>9. HomingPath(tie) = path
    BY <1>8 DEF HomingPath, tie, h
  <1> QED
    BY <1>8, <1>9 DEF tie

\* No step undoes that a zone has cut the map.
LEMMA CutStays == Next => (cut => cut')
  <1> SUFFICES ASSUME Next, cut
               PROVE  cut'
    OBVIOUS
  <1>1. CASE Rounds
    BY <1>1 DEF Rounds, ExploreRefused, ExploreStranded, Explore, mapVars
  <1>2. CASE Queries
    BY <1>2 DEF Queries, GlobalPlanner, mapVars
  <1>3. CASE Stop
    BY <1>3 DEF Stop, vars, mapVars
  <1>4. CASE \E remaining \in Budgets : \E byRegion \in BOOLEAN : PlanStranded(remaining, byRegion)
    BY <1>4 DEF PlanStranded, mapVars
  <1>5. CASE Upkeep
    BY <1>5 DEF Upkeep, SetState, OdometryTimer, SetHomingPos, FrontierTimer, TopologicalTimer,
                Semantics, SearchHomingPath, GlobalPath, AddZone, ClearExclusionZones, LoadGraph,
                mapVars
  <1> QED
    BY <1>1, <1>2, <1>3, <1>4, <1>5 DEF Next

\* The map is in one piece until a zone cuts it or another replaces it.
PieceInv == cut \/ loaded \/ Linked(graph)

\* Handlers grow it in one piece.
THEOREM MapStaysLinked == Spec => []PieceInv
  <1>1. Init => PieceInv
    <2> SUFFICES ASSUME Init
                 PROVE  PieceInv
      OBVIOUS
    <2>1. Ids(graph) = {}
      BY EmptyIsSound DEF Init, MapInit
    <2> QED
      BY <2>1 DEF PieceInv, Linked
  <1>2. IInv /\ [Next]_allVars /\ PieceInv => PieceInv'
    <2> SUFFICES ASSUME IInv, [Next]_allVars, PieceInv
                 PROVE  PieceInv'
      OBVIOUS
    <2>1. CASE UNCHANGED allVars
      BY <2>1 DEF allVars, vars, mapVars, PieceInv, Linked
    <2>2. CASE Next
      <3>1. MapStep /\ (cut => cut')
        BY <2>2, NextKeeps, CutStays
      <3>2. loaded => loaded'
        BY <3>1 DEF MapStep, MapGrows, MapIsCut, MapIsOpened, MapIsReplaced
      <3>3. Linked(graph) => PieceInv'
        <4>1. MapGrows /\ Linked(graph) => Linked(graph)'
          BY DEF MapGrows, Grown, Linked
        <4>2. MapIsCut /\ Linked(graph) => PieceInv'
          BY DEF MapIsCut, PieceInv, Linked
        <4>3. MapIsOpened /\ Linked(graph) => Linked(graph)'
          BY DEF MapIsOpened, Linked
        <4> QED
          BY <3>1, <4>1, <4>2, <4>3 DEF MapStep, MapIsReplaced, PieceInv
      <3> QED
        BY <3>1, <3>2, <3>3 DEF PieceInv
    <2> QED
      BY <2>1, <2>2
  <1> QED
    BY <1>1, <1>2, Invariance, PTL DEF Spec

\* There is a way home from every vertex of a map that no zone has cut, and
\* from where the robot is when it can be tied to the map: every handler
\* leaves the map in one piece, and no way along it is so long that the search
\* takes it for none.
THEOREM HomeStaysReachable == Spec => []HomeIsReachable
  <1>1. IInv /\ PieceInv => HomeIsReachable
    <2> SUFFICES ASSUME IInv, PieceInv, ~cut, ~loaded
                 PROVE  /\ AllReachable(graph)
                        /\ Cardinality(Ids(graph)) > 1 =>
                               \A tie \in {TieRobot(graph)} :
                                   tie.id # -1 => HomingPath(tie) # <<>>
      BY DEF HomeIsReachable
    <2>1. /\ graph \in Graphs /\ graph.idCount < MaxVertices /\ Linked(graph) /\ robot \in Places
      BY SpaceAssumption DEF IInv, MapInv, RobotInv, PieceInv
    <2>2. AllReachable(graph)
      BY <2>1, LinkedIsReachable
    <2>3. Cardinality(Ids(graph)) > 1 /\ TieRobot(graph).id # -1
              => HomingPath(TieRobot(graph)) # <<>>
      BY <2>1, TiedRobotComesHome
    <2> QED
      BY <2>2, <2>3
  <1> QED
    BY <1>1, Invariance, MapStaysLinked, PTL

\* While rounds are refused for a target, there is a path to it along the map,
\* unless a zone has cut it: the refusal can end.
THEOREM RefusalCanEnd == Spec => []RefusalEnds
  <1>1. IInv /\ PieceInv => RefusalEnds
    <2> SUFFICES ASSUME IInv, PieceInv, ongoing, ~loaded
                 PROVE  /\ target \in Ids(graph)
                        /\ cut \/ ShortestPath(ShortestPaths(graph, 0), target) # <<>>
      BY DEF RefusalEnds
    <2>1. target \in Ids(graph) /\ 1 \in Ids(graph)
      BY DEF IInv, PlannerInv
    <2>2. ASSUME ~cut
          PROVE  ShortestPath(ShortestPaths(graph, 0), target) # <<>>
      <3>1. /\ graph \in Graphs /\ graph.idCount < MaxVertices /\ Linked(graph)
        BY <2>2 DEF IInv, MapInv, PieceInv
      <3>2. /\ Ids(graph) = 0..graph.idCount /\ graph.idCount \in Int
            /\ Cardinality(Ids(graph)) = graph.idCount + 1
        BY <3>1, SoundGraph
      <3>3. Cardinality(Ids(graph)) >= 2
        BY <2>1, <3>2
      <3>4. PICK far \in Nat :
                /\ \A p, q \in Places : Dist(p, q) <= far
                /\ \A n \in Int : n <= MaxVertices + MaxSamples => far * (n + 1) < Inf
        BY NoDistanceIsNone
      <3>5. far * (graph.idCount + 1) < Inf
        <4>1. graph.idCount <= MaxVertices + MaxSamples
          BY <3>1, <3>2, BoundAssumption, ReachAssumption
        <4> QED
          BY <3>2, <3>4, <4>1
      <3>6. Leads(graph, 0, ShortestPaths(graph, 0),
                  ShortestPath(ShortestPaths(graph, 0), target), target)
        BY <2>1, <3>1, <3>3, <3>4, <3>5, PathsReach
      <3> QED
        BY <3>6, LedPath
    <2> QED
      BY <2>1, <2>2
  <1> QED
    BY <1>1, Invariance, MapStaysLinked, PTL

\* While frontiers are still to be added, the local graph is the one its
\* report was made on, in one piece and no larger than its samples.
PendingInv ==
    pending => /\ local \in Graphs /\ Linked(local) /\ local.idCount <= MaxSamples
               /\ Cardinality(Ids(local)) >= 2 /\ rep = ShortestPaths(local, 0)

\* A round makes the local graph and its report together, and whatever
\* replaces one of them drops the frontiers that were still to be added.
LEMMA RoundsKeepPending ==
    ASSUME IInv, Next, PendingInv
    PROVE  PendingInv'
  <1>1. CASE ExploreRefused \/ \E samples \in Samples : ExploreStranded(samples)
    <2>1. pending' = FALSE
      BY <1>1 DEF ExploreRefused, ExploreStranded
    <2> QED
      BY <2>1 DEF PendingInv
  <1>2. CASE \E samples \in Samples : Explore(samples)
    <2>1. PICK samples \in Samples : Explore(samples)
      BY <1>2
    <2> DEFINE g == Labelled(BuildGraph(samples))
    <2>2. local' = g /\ rep' = ShortestPaths(g, 0) /\ Cardinality(Ids(g)) > 1
      BY <2>1 DEF Explore
    <2>3. g \in Graphs /\ Linked(g) /\ g.idCount <= MaxSamples
      BY BuiltIsGraph
    <2> HIDE DEF g
    <2>4. Cardinality(Ids(g)) = g.idCount + 1 /\ g.idCount \in Int
      BY <2>3, SoundGraph
    <2>5. rep' = ShortestPaths(local, 0)'
      BY <2>2 DEF ShortestPaths
    <2> QED
      BY <2>2, <2>3, <2>4, <2>5 DEF PendingInv, Linked
  <1>3. CASE FrontierTimer
    <2>1. pending' = FALSE
      BY <1>3 DEF FrontierTimer
    <2> QED
      BY <2>1 DEF PendingInv
  <1>4. CASE UNCHANGED roundVars
    BY <1>4 DEF PendingInv, roundVars, Linked, ShortestPaths
  <1>5. Queries \/ Stop \/ (\E remaining \in Budgets : \E byRegion \in BOOLEAN :
                                PlanStranded(remaining, byRegion))
            => UNCHANGED roundVars
    BY DEF Queries, GlobalPlanner, Stop, vars, PlanStranded
  <1>6. Upkeep => FrontierTimer \/ UNCHANGED roundVars
    BY DEF Upkeep, SetState, OdometryTimer, SetHomingPos, TopologicalTimer,
           Semantics, SearchHomingPath, GlobalPath, AddZone, ClearExclusionZones, LoadGraph
  <1> QED
    BY <1>1, <1>2, <1>3, <1>4, <1>5, <1>6 DEF Next, Rounds

\* Frontiers that are still to be added can be: the report leads to each of
\* them over edges of the local graph that is kept, whatever the robot and the
\* other handlers did since the round that found them.
THEOREM PendingStaysReachable == Spec => []PendingFrontiersAreReachable
  <1>1. Init => PendingInv
    BY DEF Init, MapInit, PendingInv
  <1>2. IInv /\ [Next]_allVars /\ PendingInv => PendingInv'
    <2>1. UNCHANGED allVars /\ PendingInv => PendingInv'
      BY DEF allVars, vars, roundVars, PendingInv, Linked, ShortestPaths
    <2> QED
      BY <2>1, RoundsKeepPending
  <1>3. PendingInv => PendingFrontiersAreReachable
    <2> SUFFICES ASSUME PendingInv, pending, NEW v \in Ids(local)
                 PROVE  LET path == ShortestPath(rep, v) IN
                        /\ path # <<>> /\ Head(path) = 0 /\ Last(path) = v
                        /\ \A i \in 1..(Len(path) - 1) : {path[i], path[i + 1]} \in local.edges
      BY DEF PendingFrontiersAreReachable
    <2>1. /\ local \in Graphs /\ Linked(local) /\ local.idCount <= MaxSamples
          /\ Cardinality(Ids(local)) >= 2 /\ rep = ShortestPaths(local, 0)
      BY DEF PendingInv
    <2>2. PICK far \in Nat :
              /\ \A p, q \in Places : Dist(p, q) <= far
              /\ \A n \in Int : n <= MaxVertices + MaxSamples => far * (n + 1) < Inf
      BY NoDistanceIsNone
    <2>3. far * (local.idCount + 1) < Inf
      <3>1. local.idCount \in Int /\ local.idCount <= MaxVertices + MaxSamples
        BY <2>1, SoundGraph, BoundAssumption, ReachAssumption
      <3> QED
        BY <2>2, <3>1
    <2>4. Leads(local, 0, rep, ShortestPath(rep, v), v)
      BY <2>1, <2>2, <2>3, PathsReach
    <2> QED
      BY <2>4, LedPath
  <1> QED
    BY <1>1, <1>2, <1>3, Invariance, PTL DEF Spec

-----------------------------------------------------------------------------
(* Nothing is left to explore.                                             *)

\* A local graph that shows nothing on the paths of its leaves has no frontier.
LEMMA BarrenIsExplored ==
    ASSUME NEW g \in Graphs, Linked(g), g.idCount <= MaxSamples, Cardinality(Ids(g)) >= 2,
           LabelsAreTrue(g), NEW r, r = ShortestPaths(g, 0),
           ~FrontierExists(g, r) \/ GoodLeaves(g, r) = {}
    PROVE  FrontierIds(g) = {}
  <1> SUFFICES ASSUME NEW v \in Ids(g), g.vertex[v].type = "kFrontier"
               PROVE  FALSE
    BY DEF FrontierIds
  <1>1. g.vertex[v].gain > 0 /\ g.vertex[v].frontier
    BY DEF LabelsAreTrue
  <1>2. 0 \in Ids(g)
    <2>1. Ids(g) = 0..g.idCount /\ g.idCount \in Int /\ Cardinality(Ids(g)) = g.idCount + 1
      BY SoundGraph
    <2> QED
      BY <2>1
  <1>3. PICK rank : IsTree(g, 0, r, rank)
    BY <1>2, SearchIsTree
  <1>4. \A u \in Ids(g) : r.distance[u] < Inf
    <2>1. PICK far \in Nat :
              /\ \A p, q \in Places : Dist(p, q) <= far
              /\ \A n \in Int : n <= MaxVertices + MaxSamples => far * (n + 1) < Inf
      BY NoDistanceIsNone
    <2>2. far * (g.idCount + 1) < Inf
      <3>1. g.idCount \in Int /\ g.idCount <= MaxVertices + MaxSamples
        BY SoundGraph, BoundAssumption, ReachAssumption
      <3> QED
        BY <2>1, <3>1
    <2> QED
      BY <2>1, <2>2, SearchReaches
  <1>5. PICK leaf \in LongLeaves(g, r) : \E i \in DOMAIN LeafPath(r, leaf) :
           LeafPath(r, leaf)[i] = v
    BY <1>2, <1>3, <1>4, LeavesCover
  <1>6. LeafPath(r, leaf) \in Seq(Ids(g))
    <2>1. IsReport(r, Ids(g)) /\ IsFiniteSet(Ids(g))
      BY <1>3, TreeReports, SoundGraph
    <2> QED
      BY <2>1, PathIsOfVertices DEF LeafPath
  <1>7. leaf \in GoodLeaves(g, r)
    <2>1. PathGain(g, r, leaf) > 0
      BY <1>1, <1>5, <1>6, GainOfPath
    <2> QED
      BY <2>1 DEF GoodLeaves
  <1>8. FrontierExists(g, r)
    BY <1>1, <1>5 DEF FrontierExists
  <1> QED
    BY <1>7, <1>8

\* A state of the planner that says all is explored has nothing left on its map.
Concluded(t) == t.answer.status = "kHoming" /\ ~t.answer.hurried => FrontierIds(t.graph) = {}

\* An answer that sends the robot to a target does not say so.
LEMMA PursuedStatus ==
    ASSUME NEW s, IsState(s), NEW q, NEW goal, NEW here
    PROVE  Pursue(s, q, goal, here).answer.status = "kRepositioning"
  <1> DEFINE path == ShortestPath(here, goal)
             recorded == IF s.trig THEN [s EXCEPT !.target = goal, !.ongoing = TRUE] ELSE s
             a == IF path = <<>> THEN Unanswered
                  ELSE [status |-> "kRepositioning", path |-> path, goal |-> goal,
                        auto |-> q.id = 0, hurried |-> ~q.ignoreTime,
                        remaining |-> q.remaining]
  <1>1. Pursue(s, q, goal, here) = [recorded EXCEPT !.answer = a]
    BY DEF Pursue
  <1>2. a.status = "kRepositioning"
    BY AnswerStatus DEF Unanswered
  <1>3. IsState(recorded)
    BY DEF IsState
  <1> HIDE DEF a, recorded
  <1>4. [recorded EXCEPT !.answer = a].answer = a
    BY <1>3 DEF IsState
  <1> QED
    BY <1>1, <1>2, <1>4

\* Nor does one of a planner that finds no target.
LEMMA PlanFromStatus ==
    ASSUME NEW s, IsState(s), NEW q, NEW id
    PROVE  PlanFrom(s, q, id).answer.status = "kRepositioning"
  <1> DEFINE here == ShortestPaths(s.graph, id)
             home == ShortestPaths(s.graph, 0)
             choice == SelectTarget(s.graph, here, home, FrontierIds(s.graph), q, s.ongoing,
                                    q.byRegion /\ s.cacheReady)
             g == choice.graph
             cached == [s EXCEPT !.graph = g, !.cacheReady = TRUE]
             unchosen == [s EXCEPT !.graph = g, !.answer = Unanswered]
             none == [s EXCEPT !.answer = Unanswered]
  <1>1. PlanFrom(s, q, id)
            = IF q.id = 0
              THEN IF choice.goal = -1 THEN unchosen ELSE Pursue(cached, q, choice.goal, here)
              ELSE IF ValidateManual(here, home, q) THEN Pursue(s, q, q.id, here) ELSE none
    BY DEF PlanFrom, PursueChoice
  <1> HIDE DEF here, home, choice
  <1>2. IsState(cached)
    <2> DEFINE drawn == [s EXCEPT !.graph = g]
    <2> HIDE DEF g
    <2>1. IsState(drawn)
      BY DEF IsState
    <2>2. cached = [drawn EXCEPT !.cacheReady = TRUE]
      OBVIOUS
    <2> HIDE DEF drawn, cached
    <2> QED
      BY <2>1, <2>2 DEF IsState
  <1>3. none.answer = Unanswered
    <2> DEFINE given == Unanswered
               after == [s EXCEPT !.answer = given]
    <2> HIDE DEF given
    <2>1. after.answer = given
      BY DEF IsState
    <2> QED
      BY <2>1 DEF given
  <1>4. unchosen.answer = Unanswered
    <2> DEFINE given == Unanswered
               after == [s EXCEPT !.graph = g, !.answer = given]
    <2> HIDE DEF g, given
    <2>1. after.answer = given
      BY DEF IsState
    <2> QED
      BY <2>1 DEF given
  <1> HIDE DEF cached, unchosen, none
  <1>5. Unanswered.status = "kRepositioning"
    BY AnswerStatus DEF Unanswered
  <1>6. /\ Pursue(cached, q, choice.goal, here).answer.status = "kRepositioning"
        /\ Pursue(s, q, q.id, here).answer.status = "kRepositioning"
    BY <1>2, PursuedStatus
  <1> QED
    BY <1>1, <1>3, <1>4, <1>5, <1>6

\* The way home leaves no frontier where there was none.
LEMMA NoFrontierStays ==
    ASSUME NEW s, IsPlanner(s), FrontierIds(s.graph) = {}, robot \in Places
    PROVE  FrontierIds(NoFrontier(s).graph) = {}
  <1> DEFINE tie == TieRobot(s.graph)
             path == Reverse(HomingPath(tie))
             home == [NoAnswer EXCEPT !.status = "kHoming", !.goal = 0, !.path = path]
             retry == [NoAnswer EXCEPT !.status = "kHoming"]
             sent == [s EXCEPT !.graph = tie.graph, !.homing = TRUE, !.answer = home]
             kept == [s EXCEPT !.lowGain = 0, !.answer = retry]
  <1>1. NoFrontier(s) = IF GoHome THEN sent ELSE kept
    BY DEF NoFrontier
  <1>2. sent.graph = tie.graph /\ kept.graph = s.graph
    <2> HIDE DEF home, tie, retry
    <2> QED
      BY DEF IsPlanner, IsState
  <1> HIDE DEF sent, kept, tie
  <1>3. Unlabelled(s.graph) /\ s.graph \in Graphs
    BY DEF Unlabelled, FrontierIds, IsPlanner
  <1>4. Unlabelled(tie.graph)
    BY <1>3, TiedUnlabelled DEF tie
  <1>5. FrontierIds(tie.graph) = {}
    BY <1>4 DEF Unlabelled, FrontierIds
  <1> QED
    BY <1>1, <1>2, <1>5

\* plan() says so only then, when it is asked to look.
LEMMA PlanConcludes ==
    ASSUME NEW s, IsPlanner(s), NEW q, q.notCheck = FALSE, robot \in Places
    PROVE  Concluded(Plan(s, q))
  <1> DEFINE tie == Anchor(s.graph, robot)
             tied == [s EXCEPT !.graph = tie.graph]
             none == [s EXCEPT !.answer = Unanswered]
             explored == FrontierIds(s.graph) = {}
  <1>1. Plan(s, q) = IF PlanRefused(s, q) THEN none
                     ELSE IF ~q.notCheck /\ explored THEN NoFrontier(s)
                     ELSE IF tie.id = -1 THEN none ELSE PlanFrom(tied, q, tie.id)
    BY DEF Plan
  <1>2. none.answer.status = "kRepositioning"
    <2>1. none.answer = Unanswered
      BY GivenAnswer
    <2> HIDE DEF none
    <2> QED
      BY <2>1, AnswerStatus DEF Unanswered
  <1>3. IsState(tied)
    BY DEF IsPlanner, IsState
  <1> HIDE DEF tied, none, tie
  <1>4. PlanFrom(tied, q, tie.id).answer.status = "kRepositioning"
    BY <1>3, PlanFromStatus
  <1>5. explored => FrontierIds(NoFrontier(s).graph) = {}
    BY NoFrontierStays
  <1> HIDE DEF explored
  <1> QED
    BY <1>1, <1>2, <1>4, <1>5 DEF Concluded

\* getBestPath never says so: it sends the robot home because of the time.
LEMMA BestPathConcludes ==
    ASSUME NEW s, IsPlanner(s), NEW path, NEW remaining
    PROVE  \/ BestPath(s, path, remaining).answer.status = "kForward"
           \/ BestPath(s, path, remaining).answer.hurried
  <1> DEFINE forward == [NoAnswer EXCEPT !.status = "kForward"]
             back(home) == [NoAnswer EXCEPT !.status = "kHoming", !.goal = 0,
                                            !.path = Reverse(home), !.hurried = TRUE]
             late == [NoAnswer EXCEPT !.status = "kHoming", !.hurried = TRUE]
             homeward(g, home) == [s EXCEPT !.graph = g, !.homing = TRUE, !.answer = back(home)]
             onward(g) == [s EXCEPT !.graph = CommitVerifiedPath(g, path), !.answer = forward]
             decide(g, home) ==
                 IF HomingDue(g, home, remaining) THEN homeward(g, home) ELSE onward(g)
             tie == TieRobot(s.graph)
             over == [s EXCEPT !.answer = late]
  <1>1. BestPath(s, path, remaining)
            = IF ~AutoHoming THEN decide(s.graph, <<>>)
              ELSE IF remaining <= 0 THEN over
              ELSE IF Cardinality(Ids(s.graph)) <= 1 THEN decide(s.graph, <<>>)
              ELSE decide(tie.graph, HomingPath(tie))
    BY DEF BestPath
  <1>2. forward.status = "kForward" /\ late.hurried = TRUE /\ \A home : back(home).hurried = TRUE
    BY DEF NoAnswer
  <1>3. /\ over.answer = late /\ \A g : onward(g).answer = forward
        /\ \A g, home : homeward(g, home).answer = back(home)
    <2> HIDE DEF forward, late, back
    <2> QED
      BY DEF IsPlanner, IsState
  <1> HIDE DEF forward, late, back, homeward, onward, over, tie
  <1>4. \A g, home : decide(g, home).answer.status = "kForward" \/ decide(g, home).answer.hurried
    BY <1>2, <1>3
  <1>5. over.answer.hurried
    BY <1>2, <1>3
  <1> HIDE DEF decide
  <1> QED
    BY <1>1, <1>4, <1>5

\* What a round may conclude.
Explored ==
    triggers' # triggers /\ answer'.status = "kHoming" /\ ~answer'.hurried =>
        \A g \in {graph', local'} : FrontierIds(g) = {}

\* A round with a local graph.
LEMMA ExploreConcludes ==
    ASSUME IInv, ~loaded, NEW samples \in Samples, Explore(samples),
           answer'.status = "kHoming", ~answer'.hurried
    PROVE  FrontierIds(graph') = {} /\ FrontierIds(local') = {}
  <1> DEFINE s == Fresh
             g == Labelled(BuildGraph(samples))
             r == ShortestPaths(g, 0)
             n == LowGain(s, g, r)
             t == [s EXCEPT !.ongoing = FALSE, !.lowGain = n]
             u == [t EXCEPT !.lowGain = 0, !.trig = TRUE]
             barren == ~FrontierExists(g, r) \/ GoodLeaves(g, r) = {}
  <1>1. local' = g /\ Cardinality(Ids(g)) > 1
    BY DEF Explore
  <1>2. PICK remaining \in Budgets, open \in BOOLEAN :
            \/ ConsecLowGain(t, remaining, open)
            \/ NoGain(t, g, r, remaining, open)
            \/ Forward(t, g, r, remaining, open)
    BY DEF Explore
  <1>3. IsPlanner(s) /\ s.lowGain = lowGain /\ robot \in Places
    BY FreshIsPlanner, SpaceAssumption DEF IInv, RobotInv
  <1>4. g \in Graphs /\ Linked(g) /\ g.idCount <= MaxSamples /\ LabelsAreTrue(g)
    BY BuiltIsGraph
  <1>5. lowGain \in 0..MaxLowGainIters /\ MaxLowGainIters \in Nat /\ MaxLowGainIters > 0
    BY PlannerAssumption DEF IInv, PlannerInv
  <1> HIDE DEF s, g
  <1>6. n \in Nat /\ (~barren => n < MaxLowGainIters)
    <2>1. n = IF barren THEN s.lowGain + 1 ELSE LargerOf(s.lowGain - 1, 0)
      BY DEF LowGain
    <2> HIDE DEF barren, n
    <2> QED
      BY <1>3, <1>5, <2>1 DEF LargerOf
  <1> HIDE DEF r, n, barren
  <1>7. IsPlanner(t) /\ t.lowGain = n
    <2>1. IsPlanner(t)
      BY <1>3, <1>6, Weighed
    <2>2. t.lowGain = n
      BY <1>3 DEF IsPlanner, IsState
    <2> QED
      BY <2>1, <2>2
  <1> HIDE DEF t
  <1>8. IsPlanner(u)
    BY <1>7, Triggered DEF Follows
  <1> HIDE DEF u
  <1> DEFINE q == Automatic(remaining, open)
  <1>9. q.notCheck = FALSE
    BY DEF Automatic
  <1> HIDE DEF q
  <1>10. \A x : Becomes(x) => answer' = x.answer /\ graph' = x.graph
    BY DEF Becomes
  <1>11. barren => FrontierIds(local') = {}
    BY <1>1, <1>4, BarrenIsExplored, SoundGraph DEF barren, r
  <1>12. CASE ConsecLowGain(t, remaining, open)
    <2>1. Becomes(Plan(u, q)) /\ t.lowGain >= MaxLowGainIters
      BY <1>12 DEF ConsecLowGain, q, u
    <2>2. barren
      BY <1>5, <1>6, <1>7, <2>1
    <2>3. Concluded(Plan(u, q))
      BY <1>3, <1>8, <1>9, PlanConcludes
    <2> QED
      BY <1>10, <1>11, <2>1, <2>2, <2>3 DEF Concluded
  <1>13. CASE NoGain(t, g, r, remaining, open)
    <2>1. Becomes(Plan(t, q)) /\ GoodLeaves(g, r) = {}
      BY <1>13 DEF NoGain, q
    <2>2. barren
      BY <2>1 DEF barren
    <2>3. Concluded(Plan(t, q))
      BY <1>3, <1>7, <1>9, PlanConcludes
    <2> QED
      BY <1>10, <1>11, <2>1, <2>2, <2>3 DEF Concluded
  <1>14. CASE Forward(t, g, r, remaining, open)
    <2>1. PICK path : Becomes(BestPath(t, path, remaining))
      BY <1>14 DEF Forward
    <2>2. /\ BestPath(t, path, remaining).answer.status = "kHoming"
          /\ ~BestPath(t, path, remaining).answer.hurried
      BY <1>10, <2>1
    <2> QED
      BY <1>7, <2>2, BestPathConcludes
  <1> QED
    BY <1>2, <1>12, <1>13, <1>14

\* Only rounds are counted, and one that finds no local graph concludes nothing.
LEMMA RoundsConclude == IInv /\ [Next]_allVars => [Explored]_allVars
  <1> SUFFICES ASSUME IInv, Next, triggers' # triggers, answer'.status = "kHoming",
                      ~answer'.hurried
               PROVE  FrontierIds(graph') = {} /\ FrontierIds(local') = {}
    BY DEF Explored
  <1>1. ~loaded
    BY DEF Next
  <1>2. PICK samples \in Samples : ExploreStranded(samples) \/ Explore(samples)
    <2>1. Queries \/ Stop \/ ExploreRefused
              \/ (\E remaining \in Budgets : \E byRegion \in BOOLEAN :
                      PlanStranded(remaining, byRegion)) => triggers' = triggers
      BY DEF Queries, GlobalPlanner, Stop, vars, PlanStranded, ExploreRefused, roundVars
    <2>2. Upkeep => triggers' = triggers
      BY DEF Upkeep, SetState, OdometryTimer, SetHomingPos, TopologicalTimer, FrontierTimer,
             Semantics, SearchHomingPath, GlobalPath, AddZone, ClearExclusionZones, LoadGraph,
             roundVars
    <2> QED
      BY <2>1, <2>2 DEF Next, Rounds
  <1>3. CASE ExploreStranded(samples)
    <2> DEFINE t == [Fresh EXCEPT !.ongoing = FALSE]
    <2>1. answer' = t.answer
      BY <1>3 DEF ExploreStranded, Becomes
    <2>2. t.answer = NoAnswer
      BY <1>1, FreshIsPlanner DEF IsPlanner, IsState
    <2> QED
      BY <2>1, <2>2, AnswerStatus
  <1>4. CASE Explore(samples)
    BY <1>1, <1>4, ExploreConcludes
  <1> QED
    BY <1>2, <1>3, <1>4

\* A round that says everything is explored, and not because of the time, is
\* right: the map has no frontier and the local graph has none to be added.
THEOREM ExploredIsExplored == Spec => ExploredMeansExplored
  <1>1. Spec => [][Explored]_allVars
    BY RoundsConclude, Invariance, PTL DEF Spec
  <1> QED
    BY <1>1 DEF ExploredMeansExplored, Explored

-----------------------------------------------------------------------------
(* The map is the map of places that PlaceMap promises.                    *)

\* The places under their numbers, as PlaceMap sees them.
PlaceOf == [v \in Ids(graph) |-> graph.vertex[v].place]

\* A graph that has grown has grown as a map of places.
LEMMA GrowingIsPromised ==
    ASSUME IInv, MapGrows
    PROVE  Promised!Grow
  <1> DEFINE old == PlaceOf
             new == PlaceOf'
  <1>1. /\ graph' \in Graphs /\ Ids(graph) \subseteq Ids(graph') /\ graph.edges \subseteq graph'.edges
        /\ \A v \in Ids(graph) : graph'.vertex[v].place = graph.vertex[v].place
    BY DEF MapGrows, Grown, Grows
  <1>2. /\ DOMAIN old = Ids(graph) /\ DOMAIN new = Ids(graph')
        /\ \A v \in Ids(graph) : old[v] = graph.vertex[v].place
        /\ \A v \in Ids(graph') : new[v] = graph'.vertex[v].place
    BY DEF PlaceOf
  <1>3. /\ Ids(graph') = 0..graph'.idCount /\ graph'.idCount \in Int /\ Ids(graph') \subseteq Nat
        /\ \A v \in Ids(graph') : graph'.vertex[v].place \in Places
    BY <1>1, SoundGraph
  <1> HIDE DEF old, new
  <1>4. \A n \in DOMAIN old : n \in DOMAIN new /\ new[n] = old[n]
    BY <1>1, <1>2
  <1>5. DOMAIN new \subseteq Nat /\ \A n \in DOMAIN new : new[n] \in Places
    BY <1>2, <1>3
  <1>6. \A n \in DOMAIN new : 0..n \subseteq DOMAIN new
    BY <1>2, <1>3
  <1>7. \A l \in graph'.edges : \E v, u \in DOMAIN new : l = {v, u}
    BY <1>1, <1>2, EdgesJoin
  <1>8. closed' = closed /\ loaded' = loaded
    BY DEF MapGrows
  <1> QED
    BY <1>1, <1>4, <1>5, <1>6, <1>7, <1>8
       DEF Promised!Grow, Promised!Numbers, Promised!LinksJoin, old, new, PlaceOf

\* Whatever a step does to the map, PlaceMap allows it.
LEMMA MapStepIsPromised ==
    ASSUME IInv, MapStep
    PROVE  Promised!Next
  <1>1. CASE MapGrows
    BY <1>1, GrowingIsPromised DEF Promised!Next
  <1>2. CASE MapIsCut
    <2>1. /\ closed \subseteq closed' /\ loaded' = loaded /\ graph'.edges \subseteq graph.edges
          /\ Ids(graph') = Ids(graph) /\ graph'.vertex = graph.vertex
      BY <1>2 DEF MapIsCut, Ids
    <2>2. PlaceOf' = PlaceOf
      BY <2>1 DEF PlaceOf
    <2>3. ASSUME NEW e \in graph.edges \ graph'.edges
          PROVE  \E n \in e : PlaceOf[n] \in closed'
      <3>1. PICK n \in e : n \in Ids(graph) /\ graph.vertex[n].place \in closed'
        BY <1>2 DEF MapIsCut
      <3> QED
        BY <3>1 DEF PlaceOf
    <2>4. Promised!Cut
      BY <2>1, <2>2, <2>3 DEF Promised!Cut, PlaceOf
    <2> QED
      BY <2>4 DEF Promised!Next
  <1>3. CASE MapIsOpened
    <2>1. closed' = {} /\ graph' = graph /\ loaded' = loaded
      BY <1>3 DEF MapIsOpened
    <2>2. Promised!Open
      BY <2>1 DEF Promised!Open
    <2> QED
      BY <2>2 DEF Promised!Next
  <1>4. CASE MapIsReplaced
    <2>1. loaded' = TRUE /\ closed' = closed /\ graph' \in Graphs
      BY <1>4 DEF MapIsReplaced
    <2>2. Ids(graph') = 0..graph'.idCount /\ graph'.idCount \in Int
      BY <2>1, SoundGraph
    <2>3. \A n \in Ids(graph') : n \in Nat /\ 0..n \subseteq Ids(graph')
      BY <2>2
    <2>4. \A l \in graph'.edges : \E v, u \in Ids(graph') : l = {v, u}
      BY <2>1, EdgesJoin
    <2>5. DOMAIN PlaceOf' = Ids(graph')
      BY DEF PlaceOf
    <2>6. Promised!Restore
      BY <2>1, <2>3, <2>4, <2>5 DEF Promised!Restore, Promised!LinksJoin, PlaceOf
    <2> QED
      BY <2>6 DEF Promised!Next
  <1> QED
    BY <1>1, <1>2, <1>3, <1>4 DEF MapStep

\* The cognitive map implements PlaceMap: whoever keeps an id of it, or a
\* path along it, finds the place it was given and the links that no zone cut.
THEOREM MapKeepsPromise == Spec => KeepsPromise
  <1>1. Init => Promised!Init
    <2> SUFFICES ASSUME Init
                 PROVE  Promised!Init
      OBVIOUS
    <2>1. graph = EmptyGraph /\ closed = {} /\ loaded = FALSE
      BY DEF Init, MapInit
    <2>2. Ids(graph) = {} /\ graph.edges = {}
      BY <2>1, EmptyIsSound DEF EmptyGraph
    <2> QED
      BY <2>1, <2>2 DEF Promised!Init
  <1>2. IInv /\ [Next]_allVars => [Promised!Next]_(Promised!abstractVars)
    <2>1. IInv /\ Next => Promised!Next
      BY NextKeeps, MapStepIsPromised
    <2>2. UNCHANGED allVars => UNCHANGED Promised!abstractVars
      BY DEF allVars, vars, mapVars, Promised!abstractVars
    <2> QED
      BY <2>1, <2>2
  <1> QED
    BY <1>1, <1>2, Invariance, PTL DEF Spec, KeepsPromise, Promised!Spec

=============================================================================
