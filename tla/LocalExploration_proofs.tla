----------------------- MODULE LocalExploration_proofs -----------------------
(***************************************************************************)
(* The graph of a round of local exploration, for every parameter file,    *)
(* every space and every way to sample it: the loop of buildGraph stays    *)
(* within its limits, and what it builds can be driven.                    *)
(***************************************************************************)
EXTENDS LocalExploration, CognitiveMap_proofs

-----------------------------------------------------------------------------
(* Graphs as values.                                                       *)

\* A graph that is grown from a root: sound, in one piece, and not empty.
Built(g) == g \in Graphs /\ Linked(g) /\ g.idCount \in Nat

\* Each pair asked for counts for one edge, new or not.
LEMMA EdgesOfPairs ==
    ASSUME NEW E, IsFiniteSet(E), NEW pairs, IsFiniteSet(pairs),
           NEW F, F = E \cup { {p[1], p[2]} : p \in pairs }
    PROVE  /\ IsFiniteSet(F)
           /\ Cardinality(F) \in Nat
           /\ Cardinality(E) \in Nat /\ Cardinality(pairs) \in Nat
           /\ Cardinality(F) <= Cardinality(E) + Cardinality(pairs)
  <1> DEFINE image == { {p[1], p[2]} : p \in pairs }
             f == [p \in pairs |-> {p[1], p[2]}]
  <1>1. f \in Surjection(pairs, image)
    BY DEF Surjection
  <1>2. IsFiniteSet(image) /\ Cardinality(image) <= Cardinality(pairs)
    <2> HIDE DEF f, image
    <2> QED
      BY <1>1, FS_Surjection
  <1> HIDE DEF image, f
  <1>3. F = E \cup image
    BY DEF image
  <1>4. /\ IsFiniteSet(F)
        /\ Cardinality(F) = Cardinality(E) + Cardinality(image) - Cardinality(E \cap image)
    BY <1>2, <1>3, FS_Union
  <1>5. Cardinality(E \cap image) \in Nat
    BY FS_Intersection, FS_CardinalityType
  <1>6. /\ Cardinality(F) \in Nat /\ Cardinality(E) \in Nat
        /\ Cardinality(image) \in Nat /\ Cardinality(pairs) \in Nat
    BY <1>2, <1>4, FS_CardinalityType
  <1> QED
    BY <1>2, <1>4, <1>5, <1>6

\* The edges to what is in range are no more than the vertices.
LEMMA LinksAreFinite ==
    ASSUME NEW g, IsFiniteSet(Ids(g)), NEW v
    PROVE  IsFiniteSet(LinksInRange(g, v))
  <1> DEFINE T == { w \in Ids(g) : <<v, w>> \in LinksInRange(g, v) }
             f == [u \in T |-> <<v, u>>]
  <1>1. IsFiniteSet(T)
    BY FS_Subset
  <1>2. f \in Surjection(T, LinksInRange(g, v))
    BY DEF Surjection, LinksInRange, NearestVertices
  <1> HIDE DEF T, f
  <1> QED
    BY <1>1, <1>2, FS_Surjection

\* They depend on where the vertices are and on nothing else.
LEMMA LinksOfSameVertices ==
    ASSUME NEW g, NEW h, h.vertex = g.vertex, NEW v
    PROVE  LinksInRange(h, v) = LinksInRange(g, v)
  BY DEF LinksInRange, NearestVertices, Ids, VertexDist

-----------------------------------------------------------------------------
(* expandGraph.                                                            *)

\* Its ids are dense, its records in step, its vertices at places, and its
\* edges finitely many, between vertices.
LEMMA BuiltGraph ==
    ASSUME NEW g, Built(g)
    PROVE  /\ IsGraph(g) /\ InStep(g) /\ DenseIds(g) /\ g.idCount \in Nat
           /\ Ids(g) = 0..g.idCount /\ 0 \in Ids(g)
           /\ \A v \in Ids(g) : g.vertex[v] \in Vertices /\ g.vertex[v].place \in Places
           /\ \A e \in g.edges : e \subseteq Ids(g)
           /\ IsFiniteSet(g.edges) /\ Cardinality(g.edges) \in Nat
  <1>1. /\ IsGraph(g) /\ InStep(g) /\ DenseIds(g) /\ g.idCount \in Nat
        /\ Ids(g) = 0..g.idCount /\ IsFiniteSet(Ids(g))
        /\ \A v \in Ids(g) : g.vertex[v] \in Vertices /\ g.vertex[v].place \in Places
    BY SoundGraph DEF Built
  <1>2. /\ g.edges = {} \cup { {p[1], p[2]} : p \in g.neighbors }
        /\ g.neighbors \subseteq Ids(g) \X Ids(g)
    BY <1>1 DEF InStep, EdgeRecordsAgree
  <1>3. IsFiniteSet(g.neighbors)
    BY <1>1, <1>2, FS_Product, FS_Subset
  <1>4. IsFiniteSet(g.edges) /\ Cardinality(g.edges) \in Nat
    BY <1>2, <1>3, EdgesOfPairs, FS_EmptySet
  <1>5. \A e \in g.edges : e \subseteq Ids(g)
    BY <1>2
  <1> QED
    BY <1>1, <1>4, <1>5

\* A straight path that may be driven, and a graph whose edges may.
Drivable(p, q) == PathFree(p, q, TRUE) /\ FenceOK(p, q)
\* Every edge is a straight path that may be driven.
EdgesFree(g) ==
    \A v, u \in Ids(g) :
        {v, u} \in g.edges => Drivable(g.vertex[v].place, g.vertex[u].place)

\* It may be driven both ways.
LEMMA DrivableBack ==
    ASSUME NEW p \in Places, NEW q \in Places, Drivable(p, q)
    PROVE  Drivable(q, p)
  BY PathAssumption DEF Drivable, PathFree, FenceOK

\* expandGraph where it succeeds: one vertex; edges that are counted at least
\* once each; and none that may not be driven.
LEMMA ExpandGraphAdds ==
    ASSUME NEW g, Built(g), NEW p \in Places, CanExpand(g, p),
           NEW h, h = ExpandGraph(g, p, "kUnvisited")
    PROVE  /\ Built(h)
           /\ h.idCount = g.idCount + 1
           /\ EdgesAdded(h) \in Nat
           /\ Cardinality(h.edges) <= Cardinality(g.edges) + EdgesAdded(h)
           /\ EdgesFree(g) => EdgesFree(h)
           /\ Ids(h) = Ids(g) \cup {h.idCount}
           /\ \A u \in Ids(g) : h.vertex[u] = g.vertex[u]
           /\ h.vertex[h.idCount].place = Truncated(g.vertex[NearestVertex(g, p)].place, p)
  <1> DEFINE near == NearestVertex(g, p)
             from == g.vertex[near].place
             place == Truncated(from, p)
             new == [Vertex(place) EXCEPT !.type = "kUnvisited"]
             id == g.idCount + 1
             added == AddVertex(g, new)
             tied == AddEdges(added, {<<id, near>>})
             links == LinksInRange(tied, id)
  <1>1. near \in Ids(g) /\ Ids(g) # {}
    BY BuiltGraph, NearestIsVertex DEF Built
  <1>2. from \in Places /\ place \in Places
    BY <1>1, BuiltGraph, TruncatedIsPlace
  <1>3. IsVertex(new) /\ new.place = place
    BY <1>2, VertexFields, TypedVertex
  <1>4. h = AddEdges(tied, links)
    BY DEF ExpandGraph, LinkInRange, NewLinked, AddEdge, GenerateVertexID
  <1> HIDE DEF near, from, place, new
  <1>5. /\ IsGraph(added) /\ DenseIds(added)
        /\ added.idCount = id
        /\ Ids(added) = Ids(g) \cup {id}
        /\ added.vertex[id] = new
        /\ \A u \in Ids(g) : added.vertex[u] = g.vertex[u]
        /\ added.edges = g.edges
    BY AddVertexAdds, BuiltGraph
  <1> HIDE DEF added
  <1>6. /\ IsGraph(tied) /\ tied.vertex = added.vertex /\ tied.idCount = id
        /\ tied.edges = g.edges \cup { {q[1], q[2]} : q \in {<<id, near>>} }
    BY <1>5, AddEdgesAdds
  <1> HIDE DEF tied
  <1>7. /\ IsGraph(h) /\ h.vertex = tied.vertex /\ h.idCount = id
        /\ h.edges = tied.edges \cup { {q[1], q[2]} : q \in links }
    BY <1>4, <1>6, AddEdgesAdds
  <1>8. LinksInRange(h, h.idCount) = links
    BY <1>7, LinksOfSameVertices
  <1>9. IsFiniteSet(links)
    <2>1. Ids(tied) = 0..id
      BY <1>5, <1>6 DEF DenseIds, Ids
    <2>2. id \in Int
      BY BuiltGraph
    <2>3. IsFiniteSet(Ids(tied))
      BY <2>1, <2>2, FS_Interval
    <2> QED
      BY <2>3, LinksAreFinite
  <1>10. /\ IsFiniteSet(h.edges)
         /\ Cardinality(links) \in Nat
         /\ Cardinality(h.edges) <= Cardinality(g.edges) + 1 + Cardinality(links)
    <2>1. IsFiniteSet({<<id, near>>}) /\ Cardinality({<<id, near>>}) = 1
      BY FS_Singleton
    <2>2. /\ IsFiniteSet(tied.edges)
          /\ Cardinality(tied.edges) \in Nat /\ Cardinality(g.edges) \in Nat
          /\ Cardinality(tied.edges) <= Cardinality(g.edges) + 1
      BY <1>6, <2>1, EdgesOfPairs, BuiltGraph
    <2>3. /\ IsFiniteSet(h.edges)
          /\ Cardinality(h.edges) \in Nat /\ Cardinality(links) \in Nat
          /\ Cardinality(h.edges) <= Cardinality(tied.edges) + Cardinality(links)
      BY <1>7, <1>9, <2>2, EdgesOfPairs
    <2> QED
      BY <2>2, <2>3
  <1>11. /\ Ids(h) = Ids(g) \cup {id} /\ DenseIds(h)
         /\ h.vertex[id] = new
         /\ \A u \in Ids(g) : h.vertex[u] = g.vertex[u]
    BY <1>5, <1>6, <1>7 DEF Ids, DenseIds
  <1>12. \A e \in h.edges :
            \/ e \in g.edges
            \/ e = {id, near}
            \/ \E w \in Ids(h) : e = {id, w} /\ <<id, w>> \in links
    <2>1. \A q \in links : \E w \in Ids(h) : q = <<id, w>>
      BY <1>6, <1>7 DEF LinksInRange, NearestVertices, Ids
    <2> QED
      BY <1>6, <1>7, <2>1
  <1>13. Built(h)
    <2>1. "kUnvisited" \in Types
      BY DEF Types
    <2>2. h \in Grown(g)
      BY <2>1, ExpandedGrows DEF Built
    <2>3. h \in Graphs /\ Linked(h)
      BY <2>2 DEF Grown, Built
    <2> QED
      BY <1>7, <2>3 DEF Built
  <1>14. EdgesFree(g) => EdgesFree(h)
    <2> SUFFICES ASSUME EdgesFree(g), NEW v \in Ids(h), NEW u \in Ids(h), {v, u} \in h.edges
                 PROVE  Drivable(h.vertex[v].place, h.vertex[u].place)
      BY DEF EdgesFree
    <2>1. CASE {v, u} \in g.edges
      <3>1. v \in Ids(g) /\ u \in Ids(g)
        BY <2>1, BuiltGraph
      <3> QED
        BY <2>1, <3>1, <1>11 DEF EdgesFree
    <2>2. \A w \in Ids(h) :
             Drivable(h.vertex[id].place, h.vertex[w].place) /\ {v, u} = {id, w} =>
                 Drivable(h.vertex[v].place, h.vertex[u].place)
      <3> SUFFICES ASSUME NEW w \in Ids(h), {v, u} = {id, w},
                          Drivable(h.vertex[id].place, h.vertex[w].place)
                   PROVE  Drivable(h.vertex[v].place, h.vertex[u].place)
        OBVIOUS
      <3>1. h.vertex[id].place \in Places /\ h.vertex[w].place \in Places
        BY <1>11, <1>13, BuiltGraph
      <3>2. Drivable(h.vertex[w].place, h.vertex[id].place)
        BY <3>1, DrivableBack
      <3>3. (v = id /\ u = w) \/ (v = w /\ u = id)
        OBVIOUS
      <3> QED
        BY <3>2, <3>3
    <2>3. CASE {v, u} = {id, near}
      <3>1. Drivable(from, place)
        BY DEF CanExpand, Drivable, near, from, place
      <3>2. Drivable(place, from)
        BY <1>2, <3>1, DrivableBack
      <3>3. h.vertex[id].place = place /\ h.vertex[near].place = from /\ near \in Ids(h)
        BY <1>1, <1>3, <1>11 DEF from
      <3> QED
        BY <2>2, <2>3, <3>2, <3>3
    <2>4. CASE \E w \in Ids(h) : {v, u} = {id, w} /\ <<id, w>> \in links
      <3>1. PICK w \in Ids(h) : {v, u} = {id, w} /\ <<id, w>> \in links
        BY <2>4
      <3>2. Drivable(tied.vertex[id].place, tied.vertex[w].place)
        BY <3>1 DEF LinksInRange, Drivable
      <3> QED
        BY <1>7, <2>2, <3>1, <3>2
    <2> QED
      BY <1>12, <2>1, <2>3, <2>4
  <1>15. EdgesAdded(h) = 1 + Cardinality(links)
    BY <1>8 DEF EdgesAdded
  <1> HIDE DEF links
  <1> QED
    <2>1. Cardinality(g.edges) \in Nat
      BY BuiltGraph
    <2>2. h.vertex[h.idCount].place = Truncated(g.vertex[NearestVertex(g, p)].place, p)
      BY <1>3, <1>7, <1>11 DEF place, from, near
    <2>3. Ids(h) = Ids(g) \cup {h.idCount} /\ \A u \in Ids(g) : h.vertex[u] = g.vertex[u]
      BY <1>7, <1>11
    <2> QED
      BY <1>7, <1>10, <1>13, <1>14, <1>15, <2>1, <2>2, <2>3

-----------------------------------------------------------------------------
(* The other steps of a round.                                             *)

\* What a round knows of its settings.
IsPlanning(planning) ==
    {planning.vertices, planning.edges, planning.cutoff, planning.loops} \subseteq Nat
IsSettings(s) ==
    /\ s = [planning |-> s.planning, switches |-> s.switches, global |-> s.global,
            center |-> s.center, default |-> s.default, local |-> s.local,
            search |-> s.search]
    /\ IsPlanning(s.planning)
\* Limits that count something.
IsLimits(l) == l \in [vertices : Nat, edges : Nat]

\* setBoundMode: every mode gives limits that count something.
LEMMA LimitsCount ==
    ASSUME NEW planning, IsPlanning(planning), NEW before, IsLimits(before), NEW mode
    PROVE  IsLimits(Limits(planning, mode, before))
  <1>1. \A n \in Nat : (13 * n) \div 10 \in Nat /\ (169 * n) \div 100 \in Nat
    OBVIOUS
  <1> QED
    BY <1>1 DEF IsPlanning, IsLimits, Limits

\* loadParams: the settings of every file.
LEMMA SettingsCount ==
    ASSUME NEW file \in Files
    PROVE  IsSettings(Settings(file))
  <1>1. IsPlanning(Settings(file).planning)
    BY FilesAssumption DEF Settings, IsPlanning
  <1> QED
    BY <1>1 DEF Settings, IsSettings

\* A vertex that is left out of the shortlist is where it was.
Skip(v) == [v EXCEPT !.gain = 0, !.frontier = FALSE,
                     !.type = IF @ = "kFrontier" THEN "kUnvisited" ELSE @]
\* It keeps its place.
LEMMA SkippedVertex ==
    ASSUME NEW v \in Vertices, NEW w, w = Skip(v)
    PROVE  w \in Vertices /\ w.place = v.place
  <1>1. IsVertex(v) /\ v.type \in Types
    BY DEF Vertices, IsVertex
  <1> DEFINE type == IF v.type = "kFrontier" THEN "kUnvisited" ELSE v.type
  <1>2. w = [place |-> v.place, type |-> type, frontier |-> FALSE, gain |-> 0]
    BY <1>1 DEF IsVertex, Skip
  <1>3. type \in Types /\ v.place \in Places
    BY <1>1 DEF Types, IsVertex
  <1> HIDE DEF type
  <1> QED
    BY <1>2, <1>3 DEF Vertices

\* computeExplorationGain changes nothing that edges depend on.
LEMMA EvaluationKeepsEdges ==
    ASSUME NEW g, Built(g), NEW S, NEW h, h = EvaluatedIn(g, S)
    PROVE  /\ Built(h) /\ (EdgesFree(g) => EdgesFree(h))
           /\ Ids(h) = Ids(g) /\ h.edges = g.edges /\ h.idCount = g.idCount
           /\ \A v \in Ids(g) : h.vertex[v].place = g.vertex[v].place
  <1> DEFINE shown(v) == Evaluated(g.vertex[v])
             label(v) == IF shown(v).frontier THEN [shown(v) EXCEPT !.type = "kFrontier"]
                         ELSE shown(v)
             skipped(v) == Skip(g.vertex[v])
             vertex == [v \in Ids(g) |-> IF v \in S THEN label(v) ELSE skipped(v)]
  <1>1. ASSUME NEW v \in Ids(g)
        PROVE  vertex[v] \in Vertices /\ vertex[v].place = g.vertex[v].place
    <2> DEFINE u == g.vertex[v]
               e == Evaluated(u)
               f == [e EXCEPT !.type = "kFrontier"]
    <2>1. u \in Vertices
      BY BuiltGraph
    <2>2. "kFrontier" \in Types
      BY DEF Types
    <2> HIDE DEF u
    <2>3. e \in Vertices /\ e.place = u.place /\ f \in Vertices /\ f.place = u.place
      BY <2>1, <2>2, EvaluatedVertex, Zenon
    <2>4. Skip(u) \in Vertices /\ Skip(u).place = u.place
      BY <2>1, SkippedVertex
    <2>5. vertex[v] \in {e, f, Skip(u)}
      BY DEF u
    <2> HIDE DEF e, f, vertex
    <2> QED
      BY <2>3, <2>4, <2>5 DEF u
  <1>2. vertex \in [Ids(g) -> Vertices]
    <2>1. vertex = [v \in Ids(g) |-> vertex[v]]
      OBVIOUS
    <2> HIDE DEF vertex, Vertices
    <2> QED
      BY <1>1, <2>1
  <1>3. h = [g EXCEPT !.vertex = vertex]
    <2>1. DOMAIN g.vertex = Ids(g)
      BY DEF Ids
    <2> QED
      BY <2>1 DEF EvaluatedIn, Labelled, Skip, Ids
  <1> HIDE DEF vertex
  <1>4. /\ h \in Graphs /\ Ids(h) = Ids(g) /\ h.vertex = vertex /\ h.edges = g.edges
        /\ h.idCount = g.idCount
    BY <1>1, <1>2, <1>3, RevisionGrows DEF Built
  <1>5. Linked(h)
    BY <1>4 DEF Built, Linked
  <1>6. EdgesFree(g) => EdgesFree(h)
    BY <1>1, <1>4 DEF EdgesFree
  <1> QED
    BY <1>1, <1>4, <1>5, <1>6 DEF Built

-----------------------------------------------------------------------------
(* The inductive invariant.                                                *)

\* While buildGraph loops, its counters are of their kind, within the limits
\* and those of the graph.
CountAgrees ==
    /\ count \in [loops : Nat, vertices : Nat, edges : Nat, stop : BOOLEAN]
    /\ count.loops <= settings.planning.loops
    /\ count.vertices <= LargerOf(limits.vertices, 1)
    /\ count.vertices = local.idCount + 1
    /\ Cardinality(local.edges) <= count.edges

\* The inductive invariant.
IInv ==
    /\ robot \in Places
    /\ IsLimits(limits)
    /\ pc \notin {"boot", "shutdown"} => IsSettings(settings)
    /\ InRound => Built(local) /\ EdgesFree(local)
    /\ pc = "building" => CountAgrees

\* Outside rounds only the settings, the limits and the robot matter.
LEMMA QuietStep ==
    ASSUME robot' \in Places, IsLimits(limits'), pc' \notin {"building", "built", "evaluated"},
           pc' \notin {"boot", "shutdown"} => IsSettings(settings')
    PROVE  IInv'
  BY DEF IInv, InRound

\* The node starts outside of rounds.
LEMMA InitHolds == Init => IInv
  BY SpaceAssumption DEF Init, MapInit, IInv, InRound, IsLimits

\* The node has settings from its start on.
LEMMA BootKeeps ==
    ASSUME IInv, NEW file \in Files, Boot(file)
    PROVE  IInv'
  <1>1. robot' \in Places /\ pc' \in {"idle", "shutdown"}
    BY DEF IInv, Boot, vars, robotVars
  <1>2. CASE Loads(file)
    <2>1. settings' = Settings(file) /\ IsSettings(settings')
      BY <1>2, SettingsCount DEF Boot
    <2>2. IsLimits(limits')
      BY <1>2, <2>1, LimitsCount DEF Boot, IInv, IsSettings
    <2> QED
      BY <1>1, <2>1, <2>2, QuietStep
  <1>3. CASE ~Loads(file)
    <2>1. limits' = limits /\ pc' = "shutdown"
      BY <1>3 DEF Boot
    <2> QED
      BY <1>1, <2>1, QuietStep DEF IInv
  <1> QED
    BY <1>2, <1>3

\* A round begins with the root and no edge.
LEMMA StartRoundKeeps ==
    ASSUME IInv, NEW mode \in Modes, StartRound(mode)
    PROVE  IInv'
  <1>1. /\ pc = "idle" /\ pc' = "building"
        /\ robot' = robot /\ settings' = settings
        /\ limits' = Limits(settings.planning, mode, limits)
        /\ local' = AddVertex(EmptyGraph, Vertex(robot))
        /\ count' = NoCount
    BY DEF StartRound
  <1>2. robot' \in Places /\ IsSettings(settings')
    BY <1>1 DEF IInv
  <1>3. IsLimits(limits')
    BY <1>1, <1>2, LimitsCount DEF IInv, IsSettings
  <1>4. /\ EmptyGraph \in Graphs /\ Ids(EmptyGraph) = {} /\ Vertex(robot) \in Vertices
        /\ EmptyGraph.edges = {}
    BY EmptyIsSound, NewVertex DEF IInv, EmptyGraph
  <1>5. Built(local') /\ local'.idCount = 0
    <2>1. local' \in Grown(EmptyGraph) /\ Linked(local') /\ local'.idCount = 0
      BY <1>1, <1>4, RootGrows
    <2> QED
      BY <2>1 DEF Grown, Built
  <1>6. local'.edges = {} /\ IsFiniteSet(local'.edges) /\ Cardinality(local'.edges) = 0
    <2>1. local'.edges = EmptyGraph.edges
      BY <1>1, <1>4, VertexGrows
    <2> QED
      BY <1>4, <2>1, FS_EmptySet
  <1>8. EdgesFree(local)'
    BY <1>6 DEF EdgesFree
  <1>9. CountAgrees'
    <2>1. count' = [loops |-> 0, vertices |-> 1, edges |-> 0, stop |-> FALSE]
      BY <1>1 DEF NoCount
    <2> QED
      BY <1>2, <1>3, <1>5, <1>6, <2>1
         DEF CountAgrees, LargerOf, IsLimits, IsSettings, IsPlanning
  <1> QED
    BY <1>1, <1>2, <1>3, <1>5, <1>8, <1>9 DEF IInv

\* One turn of buildGraph: the graph grows by expandGraph or not at all.
LEMMA BuildLoopKeeps ==
    ASSUME IInv, BuildLoop
    PROVE  IInv'
  <1>1. /\ pc = "building" /\ pc' = "building" /\ GoesOn
        /\ robot' = robot /\ known' = known /\ closed' = closed
        /\ settings' = settings /\ limits' = limits
    BY DEF BuildLoop, robotVars, mapVars
  <1>2. /\ robot \in Places /\ IsLimits(limits) /\ IsSettings(settings)
        /\ Built(local) /\ EdgesFree(local) /\ CountAgrees
    BY <1>1 DEF IInv, InRound
  <1>3. /\ count \in [loops : Nat, vertices : Nat, edges : Nat, stop : BOOLEAN]
        /\ settings.planning.loops \in Nat /\ limits.vertices \in Nat
        /\ count.loops < settings.planning.loops
        /\ count.vertices < limits.vertices
    BY <1>1, <1>2 DEF GoesOn, CountAgrees, IsSettings, IsPlanning, IsLimits
  <1>4. SUFFICES Built(local') /\ EdgesFree(local') /\ CountAgrees'
    <2>1. EdgesFree(local') => EdgesFree(local)'
      BY <1>1 DEF EdgesFree, Drivable, PathFree, FenceOK
    <2> QED
      BY <1>1, <1>2, <2>1 DEF IInv
  <1>5. ASSUME local' = local, count' = Missed(count) \/ count' = Expanded(count, 0, 0)
        PROVE  Built(local') /\ EdgesFree(local') /\ CountAgrees'
    <2>1. /\ count'.loops = count.loops + 1
          /\ count'.vertices = count.vertices /\ count'.edges = count.edges
          /\ count' \in [loops : Nat, vertices : Nat, edges : Nat, stop : BOOLEAN]
      <3>1. CASE count' = Missed(count)
        BY <1>3, <3>1 DEF Missed
      <3>2. CASE count' = Expanded(count, 0, 0)
        <4> DEFINE stop == count.loops + 1 >= settings.planning.cutoff /\ count.vertices + 0 = 1
        <4>1. count' = [loops |-> count.loops + 1, vertices |-> count.vertices + 0,
                        edges |-> count.edges + 0, stop |-> stop]
          BY <3>2 DEF Expanded
        <4>2. stop \in BOOLEAN
          OBVIOUS
        <4> HIDE DEF stop
        <4> QED
          BY <1>3, <4>1, <4>2
      <3> QED
        BY <1>5, <3>1, <3>2
    <2> QED
      BY <1>1, <1>2, <1>3, <1>5, <2>1 DEF CountAgrees
  <1>6. ASSUME NEW p \in Places, TrySample(p)
        PROVE  Built(local') /\ EdgesFree(local') /\ CountAgrees'
    <2>1. CASE ~CanExpand(local, p)
      BY <1>5, <1>6, <2>1 DEF TrySample
    <2>2. CASE CanExpand(local, p)
      <3>1. /\ local' = ExpandGraph(local, p, "kUnvisited")
            /\ count' = Expanded(count, 1, EdgesAdded(local'))
        BY <1>6, <2>2 DEF TrySample
      <3>2. /\ Built(local') /\ EdgesFree(local')
            /\ local'.idCount = local.idCount + 1
            /\ EdgesAdded(local') \in Nat
            /\ Cardinality(local'.edges) <= Cardinality(local.edges) + EdgesAdded(local')
        BY <1>2, <2>2, <3>1, ExpandGraphAdds
      <3>3. /\ count'.loops = count.loops + 1
            /\ count'.vertices = count.vertices + 1
            /\ count'.edges = count.edges + EdgesAdded(local')
            /\ count' \in [loops : Nat, vertices : Nat, edges : Nat, stop : BOOLEAN]
        BY <1>3, <3>1, <3>2 DEF Expanded
      <3>4. Cardinality(local.edges) \in Nat /\ Cardinality(local'.edges) \in Nat
        BY <1>2, <3>2, BuiltGraph
      <3>5. local.idCount \in Nat
        BY <1>2 DEF Built
      <3>6. CountAgrees'
        BY <1>1, <1>2, <1>3, <3>2, <3>3, <3>4, <3>5 DEF CountAgrees, LargerOf
      <3> QED
        BY <3>2, <3>6
    <2> QED
      BY <2>1, <2>2
  <1>7. PICK draws, sample :
           /\ sample \in SampleVertex(settings, draws, robot, TRUE)
           /\ IF sample = <<>> THEN local' = local /\ count' = Missed(count)
              ELSE TrySample(sample[1])
    BY DEF BuildLoop
  <1>8. CASE sample = <<>>
    BY <1>5, <1>7, <1>8
  <1>9. CASE sample # <<>>
    <2>1. sample[1] \in Places
      BY <1>7, <1>9 DEF SampleVertex, Admitted
    <2> QED
      BY <1>6, <1>7, <1>9, <2>1
  <1> QED
    BY <1>8, <1>9

\* The loop ends, and the graph is as it was.
LEMMA BuildEndKeeps ==
    ASSUME IInv, BuildEnd
    PROVE  IInv'
  <1>1. /\ pc = "building" /\ robot' = robot /\ closed' = closed
        /\ settings' = settings /\ limits' = limits /\ local' = local
    BY DEF BuildEnd, mapVars, nodeState
  <1>2. /\ robot' \in Places /\ IsLimits(limits') /\ IsSettings(settings')
        /\ Built(local') /\ EdgesFree(local)
    BY <1>1 DEF IInv, InRound
  <1>3. CASE pc' = "built" /\ known' = known
    <2>1. EdgesFree(local)'
      BY <1>1, <1>2, <1>3 DEF EdgesFree, Drivable, PathFree, FenceOK
    <2> QED
      BY <1>2, <1>3, <2>1 DEF IInv
  <1>4. CASE pc' = "idle"
    BY <1>2, <1>4, QuietStep
  <1> QED
    BY <1>3, <1>4 DEF BuildEnd

\* evaluateGraph labels the vertices.
LEMMA EvaluateKeeps ==
    ASSUME IInv, Evaluate
    PROVE  IInv'
  <1>1. /\ pc = "built" /\ robot' = robot /\ known' = known /\ closed' = closed
        /\ settings' = settings /\ limits' = limits
    BY DEF Evaluate, robotVars, mapVars, nodeState
  <1>2. /\ robot' \in Places /\ IsLimits(limits') /\ IsSettings(settings')
        /\ Built(local) /\ EdgesFree(local)
    BY <1>1 DEF IInv, InRound
  <1>3. PICK r, S : local' = FullyEvaluated(local, r, S) /\ Judge(local', r)
    BY DEF Evaluate
  <1>4. \E T : local' = EvaluatedIn(local, T)
    BY <1>3 DEF FullyEvaluated
  <1>5. Built(local') /\ EdgesFree(local')
    BY <1>2, <1>4, EvaluationKeepsEdges
  <1>6. EdgesFree(local)'
    BY <1>1, <1>5 DEF EdgesFree, Drivable, PathFree, FenceOK
  <1>7. pc' \in {"idle", "evaluated"}
    BY <1>3 DEF Judge
  <1> QED
    BY <1>2, <1>5, <1>6, <1>7 DEF IInv

\* The answer ends the round.
LEMMA AnswerKeeps ==
    ASSUME IInv, NEW leaf, NEW remaining, Answer(leaf, remaining)
    PROVE  IInv'
  <1>1. /\ pc = "evaluated" /\ pc' = "idle" /\ robot' = robot
        /\ settings' = settings /\ limits' = limits
    BY DEF Answer, robotVars, nodeState
  <1> QED
    BY <1>1, QuietStep DEF IInv

\* The search has a graph and a sampler of its own.
LEMMA SearchKeeps ==
    ASSUME IInv,
           \/ \E source, target : StartSearch(source, target)
           \/ SearchLoop
           \/ SearchEnd
    PROVE  IInv'
  <1>1. /\ pc \in {"idle", "searching"} /\ pc' \in {"idle", "searching"}
        /\ robot' = robot /\ settings' = settings /\ limits' = limits
    BY DEF StartSearch, SearchLoop, SearchEnd, vars, robotVars, roundState, localVars
  <1> QED
    BY <1>1, QuietStep DEF IInv

\* The services change the global space.
LEMMA SpaceKeeps ==
    ASSUME IInv, pc = "idle", NEW space, NEW center, SpaceBecomes(space, center)
    PROVE  IInv'
  <1>1. /\ pc' = pc /\ robot' = robot /\ limits' = limits
        /\ settings' = [settings EXCEPT !.global = space, !.center = center]
    BY DEF SpaceBecomes, robotVars, roundState
  <1>2. IsSettings(settings)
    BY DEF IInv
  <1>3. settings' = [planning |-> settings.planning, switches |-> settings.switches,
                     global |-> space, center |-> center, default |-> settings.default,
                     local |-> settings.local, search |-> settings.search]
    BY <1>1, <1>2 DEF IsSettings
  <1>4. IsSettings(settings')
    BY <1>2, <1>3 DEF IsSettings
  <1> QED
    BY <1>1, <1>4, QuietStep DEF IInv

\* Between rounds the robot moves and zones are closed.
LEMMA AroundKeeps ==
    ASSUME IInv, Around
    PROVE  IInv'
  <1>1. pc = "idle" /\ pc' = pc /\ settings' = settings /\ limits' = limits
    BY DEF Around, roundState, nodeState
  <1>2. robot' \in Places
    BY SpaceAssumption DEF Around, SetState, AddZone, robotVars, IInv
  <1> QED
    BY <1>1, <1>2, QuietStep DEF IInv

\* Every step keeps the invariant.
LEMMA StepKeeps == IInv /\ [Next]_localVars => IInv'
  <1> SUFFICES ASSUME IInv, [Next]_localVars
               PROVE  IInv'
    OBVIOUS
  <1>1. CASE UNCHANGED localVars
    BY <1>1 DEF localVars, vars, robotVars, roundVars, mapVars, roundState, nodeState, IInv,
                InRound, CountAgrees, EdgesFree, Drivable, PathFree, FenceOK
  <1>2. CASE \E file \in Files : Boot(file)
    BY <1>2, BootKeeps
  <1>3. CASE \E mode \in Modes : StartRound(mode)
    BY <1>3, StartRoundKeeps
  <1>4. CASE RoundStep
    BY <1>4, BuildLoopKeeps, BuildEndKeeps, EvaluateKeeps, AnswerKeeps DEF RoundStep
  <1>5. CASE \/ \E source \in {robot} \cup SearchTargets, target \in SearchTargets :
                   StartSearch(source, target)
             \/ SearchLoop \/ SearchEnd
    BY <1>5, SearchKeeps
  <1>6. CASE \E b \in Bounds : SetGlobalBound(b[1], b[2]) \/ SetDynamicBound(b[1], b[2])
    BY <1>6, SpaceKeeps DEF SetGlobalBound, SetDynamicBound
  <1>7. CASE ResetGlobalBound \/ ResetDynamicBound
    BY <1>7, SpaceKeeps DEF ResetGlobalBound, ResetDynamicBound
  <1>8. CASE Around
    BY <1>8, AroundKeeps
  <1> QED
    BY <1>1, <1>2, <1>3, <1>4, <1>5, <1>6, <1>7, <1>8 DEF Next

-----------------------------------------------------------------------------
(* The samplers.                                                           *)

\* The fields of an axis.
IsAxis(a) ==
    a = [pdf |-> a.pdf, init |-> a.init, mode |-> a.mode, min |-> a.min, max |-> a.max,
         mean |-> a.mean, const |-> a.const, std |-> a.std, initStd |-> a.initStd,
         uniform |-> a.uniform, normal |-> a.normal]

\* An axis whose object can be built, of the distribution it has and of those
\* it changes to.
Ready(a) ==
    /\ IsAxis(a)
    /\ a.pdf \in {"kUniform", "kNormal", "kCauchy", "kConst"}
    /\ a.pdf = "kUniform" \/ a.init = "kNormalUniform" => a.min..a.max # {}
    /\ a.pdf \in {"kNormal", "kCauchy"} \/ a.init = "kNormalUniform" => a.std > 0

\* The axes of a position are ready, and drawable.
ReadySampler(s) == DOMAIN s = 1..4 /\ \A i \in {1, 2} : Ready(s[i])
\* What they draw from is what they are.
DrawableSampler(s) == \A i \in {1, 2} : Drawable(s[i])

\* reset builds what is drawn from, and leaves the axis ready.
LEMMA ResetIsDrawable ==
    ASSUME NEW a, Ready(a)
    PROVE  /\ Ready(ResetAxis(a)) /\ Drawable(ResetAxis(a))
           /\ ResetAxis(a).init = a.init
  <1>1. CASE a.pdf = "kUniform"
    <2>1. ResetAxis(a) = [pdf |-> a.pdf, init |-> a.init, mode |-> a.mode, min |-> a.min,
              max |-> a.max, mean |-> a.mean, const |-> a.const, std |-> a.std,
              initStd |-> a.initStd, uniform |-> a.min..a.max, normal |-> a.normal]
      BY <1>1 DEF ResetAxis, Ready, IsAxis
    <2> QED
      BY <1>1, <2>1 DEF Ready, IsAxis, Drawable
  <1>2. CASE a.pdf \in {"kNormal", "kCauchy"}
    <2> DEFINE normal == IF a.pdf = "kNormal" THEN <<a.mean, a.std>> ELSE <<0, a.std>>
    <2>1. ResetAxis(a) = [pdf |-> a.pdf, init |-> a.init, mode |-> a.mode, min |-> a.min,
              max |-> a.max, mean |-> a.mean, const |-> a.const, std |-> a.std,
              initStd |-> a.initStd, uniform |-> a.uniform, normal |-> normal]
      BY <1>2 DEF ResetAxis, Ready, IsAxis
    <2> QED
      BY <1>2, <2>1 DEF Ready, IsAxis, Drawable
  <1>3. CASE a.pdf = "kConst"
    BY <1>3 DEF Ready, ResetAxis, Drawable
  <1> QED
    BY <1>1, <1>2, <1>3 DEF Ready

\* So does a change of the distribution, of an axis that changes it.
LEMMA ChangedAxisIsDrawable ==
    ASSUME NEW a, Ready(a), a.init = "kNormalUniform", NEW pdf \in {"kUniform", "kNormal"}
    PROVE  Ready(SetPDF(a, pdf)) /\ Drawable(SetPDF(a, pdf))
  <1> DEFINE b == [a EXCEPT !.pdf = pdf]
  <1>1. b = [pdf |-> pdf, init |-> a.init, mode |-> a.mode, min |-> a.min, max |-> a.max,
             mean |-> a.mean, const |-> a.const, std |-> a.std, initStd |-> a.initStd,
             uniform |-> a.uniform, normal |-> a.normal]
    BY DEF Ready, IsAxis
  <1>2. Ready(b)
    BY <1>1 DEF Ready, IsAxis
  <1> HIDE DEF b
  <1>3. Ready(ResetAxis(b)) /\ Drawable(ResetAxis(b))
    BY <1>2, ResetIsDrawable
  <1> QED
    BY <1>3 DEF SetPDF, b

\* reset of a sampler.
LEMMA ResetSampler ==
    ASSUME NEW s, ReadySampler(s)
    PROVE  ReadySampler(Reset(s)) /\ DrawableSampler(Reset(s))
  <1>1. DOMAIN Reset(s) = 1..4 /\ \A i \in {1, 2} : Reset(s)[i] = ResetAxis(s[i])
    BY DEF Reset, ReadySampler
  <1> QED
    BY <1>1, ResetIsDrawable DEF ReadySampler, DrawableSampler

\* A sampler whose axes change their distribution.
LEMMA ChangedSampler ==
    ASSUME NEW s, ReadySampler(s), DrawableSampler(s), NEW pdf \in {"kUniform", "kNormal"}
    PROVE  ReadySampler(ChangePDF(s, pdf)) /\ DrawableSampler(ChangePDF(s, pdf))
  <1>1. /\ DOMAIN ChangePDF(s, pdf) = 1..4
        /\ \A i \in {1, 2} :
               ChangePDF(s, pdf)[i] = IF s[i].init = "kNormalUniform" THEN SetPDF(s[i], pdf) ELSE s[i]
    BY DEF ChangePDF, ReadySampler
  <1> QED
    BY <1>1, ChangedAxisIsDrawable DEF ReadySampler, DrawableSampler

-----------------------------------------------------------------------------
(* What the node starts with.                                              *)

\* A deviation that is not less than the range it is divided by.
LEMMA ScaledIsPositive ==
    ASSUME NEW n \in Int, NEW c \in Int, c > 0, n >= c
    PROVE  n \div c > 0
  <1>1. n \div c \in Int /\ n % c \in 0..(c - 1) /\ n = c * (n \div c) + (n % c)
    OBVIOUS
  <1>2. CASE n \div c <= 0
    <2>1. c * (n \div c) <= 0
      <3> DEFINE q == n \div c
      <3>1. q \in Int /\ q <= 0
        BY <1>1, <1>2
      <3> HIDE DEF q
      <3>2. c * q <= 0
        BY <3>1
      <3> QED
        BY <3>2 DEF q
    <2> QED
      BY <1>1, <2>1
  <1> QED
    BY <1>1, <1>2

\* An axis as a sampler that loads has it.
LEMMA LoadedAxis ==
    ASSUME NEW file, Loads(file), NEW name \in {"SamplerForExploration", "SamplerForSearching"},
           NEW i \in {1, 2}
    PROVE  /\ DOMAIN Sampler(file[name]) = 1..4
           /\ IsAxis(Sampler(file[name])[i])
           /\ Sampler(file[name])[i].pdf \in Distributions
           /\ Sampler(file[name])[i].init = Sampler(file[name])[i].pdf
  <1> DEFINE block == Block(file, name)
             axis == Block(block, Axes[i])
  <1>1. DOMAIN Axes = 1..4 /\ i \in 1..4
    BY DEF Axes
  <1>2. AxisLoads(axis)
    BY <1>1 DEF Loads, SamplerLoads
  <1>3. Get(axis, "pdf_type", "none") \in Distributions
    BY <1>2 DEF AxisLoads
  <1>4. "pdf_type" \in DOMAIN axis /\ axis.pdf_type \in Distributions
    BY <1>3 DEF Get, Has, Distributions
  <1>5. axis = block[Axes[i]]
    BY <1>4 DEF Block, Get, Has
  <1>6. Axes[i] \in DOMAIN block
    BY <1>4 DEF Block, Get, Has
  <1>7. block = file[name]
    BY <1>6 DEF Block, Get, Has
  <1> HIDE DEF axis, block
  <1>8. Sampler(file[name])[i] = Axis(axis) /\ DOMAIN Sampler(file[name]) = 1..4
    BY <1>1, <1>5, <1>7 DEF Sampler
  <1>9. IsAxis(Axis(axis)) /\ Axis(axis).pdf = axis.pdf_type /\ Axis(axis).init = axis.pdf_type
    BY DEF Axis, IsAxis
  <1> QED
    BY <1>4, <1>8, <1>9

\* An axis with other bounds.
WithBounds(a, min, max) == [a EXCEPT !.min = min, !.max = max]

\* The bounds of an axis are what is assigned, and nothing else changes.
LEMMA AssignedBounds ==
    ASSUME NEW a, IsAxis(a), NEW min, NEW max, NEW b, b = WithBounds(a, min, max)
    PROVE  /\ IsAxis(b) /\ b.min = min /\ b.max = max
           /\ b.pdf = a.pdf /\ b.init = a.init /\ b.initStd = a.initStd
  <1>1. b = [pdf |-> a.pdf, init |-> a.init, mode |-> a.mode, min |-> min, max |-> max,
             mean |-> a.mean, const |-> a.const, std |-> a.std, initStd |-> a.initStd,
             uniform |-> a.uniform, normal |-> a.normal]
    BY DEF IsAxis, WithBounds
  <1> QED
    BY <1>1 DEF IsAxis

\* The bounds of a space change nothing else of an axis.
LEMMA BoundedAxis ==
    ASSUME NEW a, IsAxis(a), NEW i, NEW whole, NEW around,
           NEW b, b = AxisParams(a, i, whole, around)
    PROVE  /\ IsAxis(b)
           /\ b.pdf = a.pdf /\ b.init = a.init /\ b.initStd = a.initStd
  <1>1. CASE b = a
    BY <1>1
  <1>2. ASSUME NEW min, NEW max, b = WithBounds(a, min, max)
        PROVE  /\ IsAxis(b)
               /\ b.pdf = a.pdf /\ b.init = a.init /\ b.initStd = a.initStd
    BY <1>2, AssignedBounds
  <1>3. b = a \/ \E min, max : b = WithBounds(a, min, max)
    BY DEF AxisParams, WithBounds
  <1> QED
    BY <1>1, <1>2, <1>3

\* An axis that changes its distribution is given the same bounds before and
\* after its first change.
LEMMA ChangedAxisIsBounded ==
    ASSUME NEW a, IsAxis(a), a.pdf = "kNormalUniform", NEW i, NEW whole, NEW around,
           NEW b, b = SetPDF(a, "kNormal")
    PROVE  /\ IsAxis(b) /\ b.pdf = "kNormal" /\ b.init = a.init
           /\ AxisParams(b, i, whole, around).min = AxisParams(a, i, whole, around).min
           /\ AxisParams(b, i, whole, around).max = AxisParams(a, i, whole, around).max
           /\ AxisParams(b, i, whole, around).initStd = AxisParams(a, i, whole, around).initStd
  <1> DEFINE named == [a EXCEPT !.pdf = "kNormal"]
  <1>1. named = [pdf |-> "kNormal", init |-> a.init, mode |-> a.mode, min |-> a.min,
             max |-> a.max, mean |-> a.mean, const |-> a.const, std |-> a.std,
             initStd |-> a.initStd, uniform |-> a.uniform, normal |-> a.normal]
    BY DEF IsAxis
  <1>2. b = [named EXCEPT !.normal = <<named.mean, named.std>>]
    BY <1>1 DEF SetPDF, ResetAxis
  <1>3. b = [pdf |-> "kNormal", init |-> a.init, mode |-> a.mode, min |-> a.min,
             max |-> a.max, mean |-> a.mean, const |-> a.const, std |-> a.std,
             initStd |-> a.initStd, uniform |-> a.uniform, normal |-> <<a.mean, a.std>>]
    BY <1>1, <1>2
  <1> HIDE DEF named
  <1>4. /\ IsAxis(b) /\ b.pdf = "kNormal" /\ b.init = a.init /\ b.mode = a.mode
        /\ b.min = a.min /\ b.max = a.max /\ b.initStd = a.initStd
    BY <1>3 DEF IsAxis
  <1> DEFINE space == IF a.mode = "kGlobal" THEN whole ELSE around
  <1>5. CASE a.mode \notin {"kGlobal", "kLocal"}
    BY <1>4, <1>5 DEF AxisParams
  <1> DEFINE ofA == AxisParams(a, i, whole, around)
             ofB == AxisParams(b, i, whole, around)
  <1>6. ASSUME NEW min, NEW max,
               ofA = WithBounds(a, min, max), ofB = WithBounds(b, min, max)
        PROVE  ofB.min = ofA.min /\ ofB.max = ofA.max /\ ofB.initStd = ofA.initStd
    <2> HIDE DEF ofA, ofB
    <2>1. ofA.min = min /\ ofA.max = max /\ ofA.initStd = a.initStd
      BY <1>6, AssignedBounds
    <2>2. ofB.min = min /\ ofB.max = max /\ ofB.initStd = b.initStd
      BY <1>4, <1>6, AssignedBounds
    <2> QED
      BY <1>4, <2>1, <2>2
  <1>7. CASE a.mode \in {"kGlobal", "kLocal"} /\ space.type = "kCuboid"
    <2>1. /\ ofA = [a EXCEPT !.min = space.min[i], !.max = space.max[i]]
          /\ ofB = [b EXCEPT !.min = space.min[i], !.max = space.max[i]]
      BY <1>4, <1>7 DEF AxisParams
    <2> DEFINE low == space.min[i]
               high == space.max[i]
    <2>2. ofA = WithBounds(a, low, high) /\ ofB = WithBounds(b, low, high)
      BY <2>1 DEF WithBounds
    <2> HIDE DEF low, high, space, ofA, ofB
    <2>3. ofB.min = ofA.min /\ ofB.max = ofA.max /\ ofB.initStd = ofA.initStd
      BY <1>6, <2>2
    <2> QED
      BY <1>4, <2>3 DEF ofA, ofB
  <1>8. CASE a.mode \in {"kGlobal", "kLocal"} /\ space.type # "kCuboid"
    <2>1. /\ ofA = [a EXCEPT !.min = -space.radius, !.max = space.radius]
          /\ ofB = [b EXCEPT !.min = -space.radius, !.max = space.radius]
      BY <1>4, <1>8 DEF AxisParams
    <2> DEFINE low == -space.radius
               high == space.radius
    <2>2. ofA = WithBounds(a, low, high) /\ ofB = WithBounds(b, low, high)
      BY <2>1 DEF WithBounds
    <2> HIDE DEF low, high, space, ofA, ofB
    <2>3. ofB.min = ofA.min /\ ofB.max = ofA.max /\ ofB.initStd = ofA.initStd
      BY <1>6, <2>2
    <2> QED
      BY <1>4, <2>3 DEF ofA, ofB
  <1> QED
    BY <1>4, <1>5, <1>7, <1>8

\* setParams builds samplers that are drawable, of bounds and deviations that
\* leave something to draw.
LEMMA SetParamsDraws ==
    ASSUME NEW s, DOMAIN s = 1..4, \A i \in {1, 2} : IsAxis(s[i]),
           NEW whole, NEW around,
           NEW b, \A i \in {1, 2} : b[i] = AxisParams(s[i], i, whole, around),
           \A i \in {1, 2} :
               /\ b[i].min \in Int /\ b[i].max \in Int /\ b[i].initStd \in Int
               /\ b[i].pdf \in {"kUniform", "kNormal", "kCauchy", "kConst"}
               /\ b[i].pdf = "kUniform" \/ b[i].init = "kNormalUniform" => b[i].min <= b[i].max
               /\ b[i].pdf \in {"kNormal", "kCauchy"} \/ b[i].init = "kNormalUniform" =>
                      /\ b[i].max - b[i].min > 0
                      /\ \A j \in {1, 2} :
                             b[i].initStd * (b[i].max - b[i].min) >= b[j].max - b[j].min
    PROVE  /\ ReadySampler(SetParams(s, whole, around))
           /\ DrawableSampler(SetParams(s, whole, around))
  <1> DEFINE axes == {1, 2}
             bounded == [i \in DOMAIN s |->
                            IF i \in axes THEN AxisParams(s[i], i, whole, around) ELSE s[i]]
             range(i) == bounded[i].max - bounded[i].min
             larger == Max({0} \cup { range(i) : i \in axes })
             scaled == ScaleSTD(bounded, axes)
  <1>1. DOMAIN bounded = 1..4 /\ \A i \in {1, 2} : bounded[i] = b[i] /\ IsAxis(b[i])
    BY BoundedAxis
  <1>2. range(1) \in Int /\ range(2) \in Int
    BY <1>1
  <1>3. larger \in {0, range(1), range(2)} /\ larger >= 0 /\ larger >= range(1) /\ larger >= range(2)
    <2>1. {0} \cup { range(i) : i \in axes } = {0, range(1), range(2)}
      OBVIOUS
    <2>2. \E x \in {0, range(1), range(2)} : \A y \in {0, range(1), range(2)} : x >= y
      <3> DEFINE m == range(1)
                 n == range(2)
      <3> HIDE DEF m, n
      <3>1. m \in Int /\ n \in Int
        BY <1>2 DEF m, n
      <3>2. \E x \in {0, m, n} : \A y \in {0, m, n} : x >= y
        <4>1. CASE m <= 0 /\ n <= 0
          BY <3>1, <4>1
        <4>2. CASE m > 0 /\ n <= m
          BY <3>1, <4>2
        <4>3. CASE n > 0 /\ n >= m
          BY <3>1, <4>3
        <4> QED
          BY <3>1, <4>1, <4>2, <4>3
      <3> QED
        BY <3>2 DEF m, n
    <2> HIDE DEF range
    <2> QED
      BY <2>1, <2>2 DEF Max
  <1> DEFINE std(i) == IF larger = 0 THEN 0 ELSE (b[i].initStd * range(i)) \div larger
  <1>4. scaled = [i \in 1..4 |-> IF i \notin axes THEN bounded[i]
                                 ELSE [bounded[i] EXCEPT !.std =
                                          IF larger = 0 THEN 0
                                          ELSE (bounded[i].initStd * range(i)) \div larger]]
    BY <1>1 DEF ScaleSTD
  <1>5. ASSUME NEW i \in {1, 2}
        PROVE  Ready(scaled[i])
    <2>1. scaled[i] = [b[i] EXCEPT !.std = std(i)]
      <3> HIDE DEF bounded, range, larger, scaled
      <3> QED
        BY <1>1, <1>4
    <2>2. scaled[i] = [pdf |-> b[i].pdf, init |-> b[i].init, mode |-> b[i].mode,
                       min |-> b[i].min, max |-> b[i].max, mean |-> b[i].mean,
                       const |-> b[i].const, std |-> std(i), initStd |-> b[i].initStd,
                       uniform |-> b[i].uniform, normal |-> b[i].normal]
      <3> HIDE DEF std, scaled
      <3> QED
        BY <1>1, <2>1 DEF IsAxis
    <2>3. b[i].pdf \in {"kNormal", "kCauchy"} \/ b[i].init = "kNormalUniform" => std(i) > 0
      <3> SUFFICES ASSUME b[i].pdf \in {"kNormal", "kCauchy"} \/ b[i].init = "kNormalUniform"
                   PROVE  std(i) > 0
        OBVIOUS
      <3> DEFINE n == b[i].initStd * range(i)
      <3>1. range(i) = b[i].max - b[i].min /\ range(1) = b[1].max - b[1].min
            /\ range(2) = b[2].max - b[2].min
        BY <1>1
      <3>2. range(i) > 0 /\ n >= range(1) /\ n >= range(2) /\ n \in Int
        BY <1>2, <3>1
      <3> HIDE DEF n, range, larger
      <3>3. larger \in Int /\ larger > 0
        BY <1>2, <1>3, <3>2
      <3>4. n >= larger
        BY <1>2, <1>3, <3>2, <3>3
      <3>5. n \div larger > 0
        BY <3>2, <3>3, <3>4, ScaledIsPositive
      <3> QED
        BY <3>3, <3>5 DEF n
    <2>4. b[i].pdf = "kUniform" \/ b[i].init = "kNormalUniform" => b[i].min..b[i].max # {}
      BY <1>1
    <2>5. b[i].pdf \in {"kUniform", "kNormal", "kCauchy", "kConst"}
      BY <1>1
    <2> HIDE DEF std, scaled
    <2> QED
      BY <2>2, <2>3, <2>4, <2>5 DEF Ready, IsAxis
  <1>6. DOMAIN scaled = 1..4
    BY <1>4
  <1>7. SetParams(s, whole, around) = Reset(scaled)
    BY DEF SetParams
  <1> HIDE DEF scaled
  <1> QED
    BY <1>5, <1>6, <1>7, ResetSampler DEF ReadySampler

\* Both samplers of every file that loads.
LEMMA LoadedSamplers ==
    ASSUME NEW file \in Files, Loads(file), NEW read, read = Settings(file),
           NEW explore, explore = InitialSampler(Sampler(file["SamplerForExploration"]),
                                                 read.global, read.local),
           NEW search, search = SetParams(Sampler(file["SamplerForSearching"]),
                                          read.global, read.search)
    PROVE  /\ ReadySampler(explore) /\ DrawableSampler(explore)
           /\ ReadySampler(search) /\ DrawableSampler(search)
  <1> DEFINE asRead(name) == Sampler(file[name])
             around(name) == IF name = "SamplerForSearching" THEN read.search ELSE read.local
             axis(name, i) == AxisParams(asRead(name)[i], i, read.global, around(name))
             range(name, i) == axis(name, i).max - axis(name, i).min
  <1>1. ASSUME NEW name \in {"SamplerForExploration", "SamplerForSearching"}, NEW i \in {1, 2}
        PROVE  /\ axis(name, i).min \in Int /\ axis(name, i).max \in Int
               /\ axis(name, i).initStd \in Int
               /\ axis(name, i).pdf \in {"kUniform", "kNormalUniform"} => range(name, i) >= 0
               /\ axis(name, i).pdf \notin {"kUniform", "kConst"} =>
                      /\ \A j \in {1, 2} :
                             axis(name, i).initStd * range(name, i) >= range(name, j)
                      /\ range(name, i) > 0
               /\ name = "SamplerForSearching" => axis(name, i).pdf # "kNormalUniform"
    BY SamplersAssumption
  <1>2. ASSUME NEW name \in {"SamplerForExploration", "SamplerForSearching"}, NEW i \in {1, 2}
        PROVE  /\ DOMAIN asRead(name) = 1..4 /\ IsAxis(asRead(name)[i])
               /\ asRead(name)[i].pdf \in Distributions
               /\ asRead(name)[i].init = asRead(name)[i].pdf
               /\ axis(name, i).pdf = asRead(name)[i].pdf
               /\ axis(name, i).init = asRead(name)[i].pdf
    <2>1. /\ DOMAIN asRead(name) = 1..4 /\ IsAxis(asRead(name)[i])
          /\ asRead(name)[i].pdf \in Distributions
          /\ asRead(name)[i].init = asRead(name)[i].pdf
      BY LoadedAxis
    <2> HIDE DEF asRead
    <2> QED
      BY <2>1, BoundedAxis
  <1> HIDE DEF asRead, around
  <1>3. ReadySampler(search) /\ DrawableSampler(search)
    <2> DEFINE name == "SamplerForSearching"
               b == [i \in {1, 2} |-> axis(name, i)]
    <2>1. search = SetParams(asRead(name), read.global, around(name))
      BY DEF asRead, around
    <2>2. DOMAIN asRead(name) = 1..4 /\ \A i \in {1, 2} : IsAxis(asRead(name)[i])
      BY <1>2
    <2>3. \A i \in {1, 2} : b[i] = AxisParams(asRead(name)[i], i, read.global, around(name))
      OBVIOUS
    <2>4. \A i \in {1, 2} :
               /\ b[i].min \in Int /\ b[i].max \in Int /\ b[i].initStd \in Int
               /\ b[i].pdf \in {"kUniform", "kNormal", "kCauchy", "kConst"}
               /\ b[i].pdf = "kUniform" \/ b[i].init = "kNormalUniform" => b[i].min <= b[i].max
               /\ b[i].pdf \in {"kNormal", "kCauchy"} \/ b[i].init = "kNormalUniform" =>
                      /\ b[i].max - b[i].min > 0
                      /\ \A j \in {1, 2} :
                             b[i].initStd * (b[i].max - b[i].min) >= b[j].max - b[j].min
      <3> SUFFICES ASSUME NEW i \in {1, 2}
                   PROVE  /\ b[i].min \in Int /\ b[i].max \in Int /\ b[i].initStd \in Int
                          /\ b[i].pdf \in {"kUniform", "kNormal", "kCauchy", "kConst"}
                          /\ b[i].pdf = "kUniform" \/ b[i].init = "kNormalUniform" => b[i].min <= b[i].max
                          /\ b[i].pdf \in {"kNormal", "kCauchy"} \/ b[i].init = "kNormalUniform" =>
                                 /\ b[i].max - b[i].min > 0
                                 /\ \A j \in {1, 2} :
                                        b[i].initStd * (b[i].max - b[i].min) >= b[j].max - b[j].min
        OBVIOUS
      <3> HIDE DEF axis
      <3> QED
        BY <1>1, <1>2 DEF Distributions
    <2> HIDE DEF b, name
    <2> QED
      BY <2>1, <2>2, <2>3, <2>4, SetParamsDraws
  <1>4. ReadySampler(explore) /\ DrawableSampler(explore)
    <2> DEFINE name == "SamplerForExploration"
               named == ChangePDF(asRead(name), "kNormal")
               b == [i \in {1, 2} |-> AxisParams(named[i], i, read.global, around(name))]
    <2>1. explore = SetParams(named, read.global, around(name))
      BY DEF asRead, around, InitialSampler
    <2>2. /\ DOMAIN named = 1..4
          /\ \A i \in {1, 2} :
                 named[i] = IF asRead(name)[i].init = "kNormalUniform"
                            THEN SetPDF(asRead(name)[i], "kNormal") ELSE asRead(name)[i]
      <3>1. DOMAIN asRead(name) = 1..4
        BY <1>2
      <3> QED
        BY <3>1 DEF ChangePDF
    <2> HIDE DEF named
    <2>3. ASSUME NEW i \in {1, 2}
          PROVE  /\ IsAxis(named[i])
                 /\ b[i].min = axis(name, i).min /\ b[i].max = axis(name, i).max
                 /\ b[i].initStd = axis(name, i).initStd
                 /\ b[i].init = asRead(name)[i].pdf
                 /\ b[i].pdf = IF asRead(name)[i].pdf = "kNormalUniform" THEN "kNormal"
                               ELSE asRead(name)[i].pdf
      <3>1. CASE asRead(name)[i].pdf = "kNormalUniform"
        <4>1. named[i] = SetPDF(asRead(name)[i], "kNormal") /\ IsAxis(asRead(name)[i])
          BY <1>2, <2>2, <3>1
        <4>2. /\ IsAxis(named[i]) /\ named[i].pdf = "kNormal"
              /\ named[i].init = asRead(name)[i].init
              /\ b[i].min = axis(name, i).min /\ b[i].max = axis(name, i).max
              /\ b[i].initStd = axis(name, i).initStd
          BY <3>1, <4>1, ChangedAxisIsBounded
        <4>3. b[i].pdf = "kNormal" /\ b[i].init = named[i].init
          BY <4>2, BoundedAxis
        <4> QED
          BY <1>2, <3>1, <4>2, <4>3
      <3>2. CASE asRead(name)[i].pdf # "kNormalUniform"
        <4>1. named[i] = asRead(name)[i]
          BY <1>2, <2>2, <3>2
        <4> QED
          BY <1>2, <3>2, <4>1
      <3> QED
        BY <3>1, <3>2
    <2>4. \A i \in {1, 2} :
               /\ b[i].min \in Int /\ b[i].max \in Int /\ b[i].initStd \in Int
               /\ b[i].pdf \in {"kUniform", "kNormal", "kCauchy", "kConst"}
               /\ b[i].pdf = "kUniform" \/ b[i].init = "kNormalUniform" => b[i].min <= b[i].max
               /\ b[i].pdf \in {"kNormal", "kCauchy"} \/ b[i].init = "kNormalUniform" =>
                      /\ b[i].max - b[i].min > 0
                      /\ \A j \in {1, 2} :
                             b[i].initStd * (b[i].max - b[i].min) >= b[j].max - b[j].min
      <3> SUFFICES ASSUME NEW i \in {1, 2}
                   PROVE  /\ b[i].min \in Int /\ b[i].max \in Int /\ b[i].initStd \in Int
                          /\ b[i].pdf \in {"kUniform", "kNormal", "kCauchy", "kConst"}
                          /\ b[i].pdf = "kUniform" \/ b[i].init = "kNormalUniform" => b[i].min <= b[i].max
                          /\ b[i].pdf \in {"kNormal", "kCauchy"} \/ b[i].init = "kNormalUniform" =>
                                 /\ b[i].max - b[i].min > 0
                                 /\ \A j \in {1, 2} :
                                        b[i].initStd * (b[i].max - b[i].min) >= b[j].max - b[j].min
        OBVIOUS
      <3> HIDE DEF axis, b
      <3>1. \A j \in {1, 2} : b[j].min = axis(name, j).min /\ b[j].max = axis(name, j).max
        BY <2>3
      <3> QED
        BY <1>1, <1>2, <2>3, <3>1 DEF Distributions
    <2> HIDE DEF name
    <2>5. \A i \in {1, 2} : IsAxis(named[i])
      BY <2>3 DEF name
    <2>6. \A i \in {1, 2} : b[i] = AxisParams(named[i], i, read.global, around(name))
      OBVIOUS
    <2> HIDE DEF b
    <2> QED
      BY <2>1, <2>2, <2>4, <2>5, <2>6, SetParamsDraws
  <1> QED
    BY <1>3, <1>4

-----------------------------------------------------------------------------
(* What is drawn from is what the axes are.                                *)

\* From its start on the node has two samplers, ready and drawable.
DrawsInv ==
    pc \notin {"boot", "shutdown"} =>
        /\ samplers = [explore |-> samplers.explore, search |-> samplers.search]
        /\ ReadySampler(samplers.explore) /\ DrawableSampler(samplers.explore)
        /\ ReadySampler(samplers.search) /\ DrawableSampler(samplers.search)

\* The node starts without samplers, and with those of its file.
LEMMA DrawsStart ==
    /\ Init => DrawsInv
    /\ \A file \in Files : Boot(file) => DrawsInv'
  <1>1. Init => DrawsInv
    BY DEF Init, DrawsInv
  <1>2. ASSUME NEW file \in Files, Boot(file)
        PROVE  DrawsInv'
    <2>1. CASE ~Loads(file)
      BY <1>2, <2>1 DEF Boot, DrawsInv
    <2>2. CASE Loads(file)
      <3>1. /\ settings' = Settings(file)
            /\ samplers' =
                 [explore |-> InitialSampler(Sampler(file["SamplerForExploration"]),
                                             settings'.global, settings'.local),
                  search |-> SetParams(Sampler(file["SamplerForSearching"]),
                                       settings'.global, settings'.search)]
        BY <1>2, <2>2 DEF Boot
      <3>2. /\ ReadySampler(samplers'.explore) /\ DrawableSampler(samplers'.explore)
            /\ ReadySampler(samplers'.search) /\ DrawableSampler(samplers'.search)
        BY <2>2, <3>1, LoadedSamplers
      <3>3. samplers' = [explore |-> samplers'.explore, search |-> samplers'.search]
        BY <3>1
      <3> QED
        BY <3>2, <3>3 DEF DrawsInv
    <2> QED
      BY <2>1, <2>2
  <1> QED
    BY <1>1, <1>2

\* A round and a search reset their sampler first, and a round changes its
\* distributions half way.
LEMMA DrawsKept ==
    ASSUME DrawsInv, [Next]_localVars
    PROVE  DrawsInv'
  <1>1. ASSUME NEW next, pc \notin {"boot", "shutdown"},
               ReadySampler(next), DrawableSampler(next),
               \/ samplers' = [samplers EXCEPT !.explore = next]
               \/ samplers' = [samplers EXCEPT !.search = next]
        PROVE  DrawsInv'
    <2>1. \/ samplers' = [explore |-> next, search |-> samplers.search]
          \/ samplers' = [explore |-> samplers.explore, search |-> next]
      BY <1>1 DEF DrawsInv
    <2> QED
      BY <1>1, <2>1 DEF DrawsInv
  <1>2. ASSUME pc \notin {"boot", "shutdown"}, samplers' = samplers
        PROVE  DrawsInv'
    BY <1>2 DEF DrawsInv
  <1>3. CASE UNCHANGED localVars
    BY <1>3 DEF localVars, roundState, nodeState, DrawsInv
  <1>4. CASE \E file \in Files : Boot(file)
    BY <1>4, DrawsStart
  <1>5. CASE \E mode \in Modes : StartRound(mode)
    <2> DEFINE next == ChangePDF(Reset(samplers.explore), "kNormal")
    <2>1. pc \notin {"boot", "shutdown"} /\ samplers' = [samplers EXCEPT !.explore = next]
      BY <1>5 DEF StartRound
    <2>2. ReadySampler(Reset(samplers.explore)) /\ DrawableSampler(Reset(samplers.explore))
      BY <2>1, ResetSampler DEF DrawsInv
    <2>3. ReadySampler(next) /\ DrawableSampler(next)
      BY <2>2, ChangedSampler
    <2> HIDE DEF next
    <2> QED
      BY <1>1, <2>1, <2>3
  <1>6. CASE BuildLoop
    <2>1. pc \notin {"boot", "shutdown"} /\ samplers' = [samplers EXCEPT !.explore = LoopSampler]
      BY <1>6 DEF BuildLoop
    <2>2. ReadySampler(samplers.explore) /\ DrawableSampler(samplers.explore)
      BY <2>1 DEF DrawsInv
    <2>3. ReadySampler(LoopSampler) /\ DrawableSampler(LoopSampler)
      BY <2>2, ChangedSampler DEF LoopSampler
    <2> QED
      BY <1>1, <2>1, <2>3
  <1>7. CASE BuildEnd \/ Evaluate \/ \E leaf \in Ids(local), remaining \in Budgets : Answer(leaf, remaining)
    BY <1>2, <1>7 DEF BuildEnd, Evaluate, Answer, nodeState
  <1>8. CASE \E source \in {robot} \cup SearchTargets, target \in SearchTargets :
                 StartSearch(source, target)
    <2>1. /\ pc \notin {"boot", "shutdown"}
          /\ samplers' = samplers \/ samplers' = [samplers EXCEPT !.search = Reset(@)]
      BY <1>8 DEF StartSearch
    <2>2. ReadySampler(Reset(samplers.search)) /\ DrawableSampler(Reset(samplers.search))
      BY <2>1, ResetSampler DEF DrawsInv
    <2>3. samplers' = samplers \/ samplers' = [samplers EXCEPT !.search = Reset(samplers.search)]
      BY <2>1
    <2> QED
      BY <1>1, <1>2, <2>1, <2>2, <2>3
  <1>9. CASE SearchLoop \/ SearchEnd
    BY <1>2, <1>9 DEF SearchLoop, SearchEnd
  <1>10. CASE \/ \E b \in Bounds : SetGlobalBound(b[1], b[2]) \/ SetDynamicBound(b[1], b[2])
              \/ ResetGlobalBound \/ ResetDynamicBound \/ Around
    BY <1>2, <1>10 DEF SetGlobalBound, SetDynamicBound, ResetGlobalBound, ResetDynamicBound,
                       SpaceBecomes, Around, nodeState
  <1> QED
    BY <1>3, <1>4, <1>5, <1>6, <1>7, <1>8, <1>9, <1>10 DEF Next, RoundStep

-----------------------------------------------------------------------------
(* Where the vertices of a round are.                                      *)

\* A pair of coordinates, and a space with two corners.
IsPair(p) == DOMAIN p = 1..2 /\ p[1] \in Int /\ p[2] \in Int
\* Its type, its corners and its radius.
IsSpace(s) ==
    /\ s = [type |-> s.type, min |-> s.min, max |-> s.max, radius |-> s.radius]
    /\ IsPair(s.min) /\ IsPair(s.max)

\* A cuboid that holds two positions holds all between them.
LEMMA CuboidIsConvex ==
    ASSUME NEW space, IsSpace(space), space.type = "kCuboid", NEW center, IsPair(center),
           NEW p \in Places, NEW q \in Places, NEW r \in Between(p, q),
           InsideSpace(space, center, p), InsideSpace(space, center, q)
    PROVE  InsideSpace(space, center, r)
  <1>1. r \in Places
    BY SpaceAssumption
  <1>2. IsPair(p) /\ IsPair(q) /\ IsPair(r)
    BY <1>1, PlaneAssumption DEF IsPair
  <1>3. \A k \in {1, 2} : \/ p[k] <= r[k] /\ r[k] <= q[k]
                          \/ q[k] <= r[k] /\ r[k] <= p[k]
    BY PlaneAssumption
  <1>4. /\ (p[1] <= r[1] /\ r[1] <= q[1]) \/ (q[1] <= r[1] /\ r[1] <= p[1])
        /\ (p[2] <= r[2] /\ r[2] <= q[2]) \/ (q[2] <= r[2] /\ r[2] <= p[2])
    BY <1>3
  <1>5. ASSUME NEW x \in Int, NEW y \in Int, NEW z \in Int, NEW c \in Int,
               NEW low \in Int, NEW high \in Int,
               low <= x - c, x - c <= high, low <= y - c, y - c <= high,
               (x <= z /\ z <= y) \/ (y <= z /\ z <= x)
        PROVE  low <= z - c /\ z - c <= high
    BY <1>5
  <1>6. /\ space.min[1] <= r[1] - center[1] /\ r[1] - center[1] <= space.max[1]
        /\ space.min[2] <= r[2] - center[2] /\ r[2] - center[2] <= space.max[2]
    <2>1. \A t \in {p, q} :
             /\ space.min[1] <= t[1] - center[1] /\ t[1] - center[1] <= space.max[1]
             /\ space.min[2] <= t[2] - center[2] /\ t[2] - center[2] <= space.max[2]
      BY <1>2 DEF InsideSpace, IsSpace, IsPair
    <2>2. /\ space.min[1] \in Int /\ space.min[2] \in Int
          /\ space.max[1] \in Int /\ space.max[2] \in Int
          /\ center[1] \in Int /\ center[2] \in Int
          /\ p[1] \in Int /\ p[2] \in Int /\ q[1] \in Int /\ q[2] \in Int
          /\ r[1] \in Int /\ r[2] \in Int
      BY <1>2 DEF IsSpace, IsPair
    <2> QED
      BY <1>4, <1>5, <2>1, <2>2
  <1> QED
    BY <1>2, <1>6 DEF InsideSpace, IsSpace, IsPair

\* A truncated point is the point or between it and where it is drawn to.
LEMMA TruncatedIsBetween ==
    ASSUME NEW p \in Places, NEW q \in Places
    PROVE  Truncated(p, q) = q \/ Truncated(p, q) \in Between(p, q)
  <1>1. CASE Dist(p, q) <= EdgeMax
    BY <1>1 DEF Truncated
  <1>2. CASE ~(Dist(p, q) <= EdgeMax)
    <2>1. EdgeMax \in 0..Dist(p, q)
      BY <1>2, SpaceAssumption
    <2>2. \E r \in Between(p, q) : Dist(p, r) = EdgeMax /\ Dist(r, q) = Dist(p, q) - EdgeMax
      BY <2>1, PathAssumption
    <2> QED
      BY <1>2, <2>2 DEF Truncated
  <1> QED
    BY <1>1, <1>2

\* In a round, with the robot in a cuboid space, its vertices are in it.
VerticesInside ==
    InRound /\ settings.global.type = "kCuboid"
        /\ InsideSpace(settings.global, settings.center, robot) =>
            \A v \in Ids(local) :
                InsideSpace(settings.global, settings.center, local.vertex[v].place)
\* The space has corners and a centre, of which the vertices are.
SpaceInv ==
    /\ pc \notin {"boot", "shutdown"} =>
           /\ IsSpace(settings.global) /\ IsPair(settings.center)
           /\ IsPair(settings.default.min) /\ IsPair(settings.default.max)
    /\ VerticesInside

\* The space of a file, and none before.
LEMMA SpaceStarts ==
    /\ Init => SpaceInv
    /\ \A file \in Files : Boot(file) => SpaceInv'
  <1>1. Init => SpaceInv
    BY DEF Init, SpaceInv, VerticesInside, InRound
  <1>2. ASSUME NEW file \in Files, Boot(file)
        PROVE  SpaceInv'
    <2>1. CASE ~Loads(file)
      BY <1>2, <2>1 DEF Boot, SpaceInv, VerticesInside, InRound
    <2>2. CASE Loads(file)
      <3>1. settings' = Settings(file) /\ pc' = "idle"
        BY <1>2, <2>2 DEF Boot
      <3>2. /\ Settings(file).global = Space(file["Global"])
            /\ Settings(file).default = Space(file["Global"])
            /\ Settings(file).center = <<0, 0>>
        BY DEF Settings
      <3>3. IsPair(Settings(file).global.min) /\ IsPair(Settings(file).global.max)
        BY <2>2, PlaneAssumption DEF IsPair
      <3>4. IsSpace(Space(file["Global"]))
        BY <3>2, <3>3 DEF Space, IsSpace
      <3>5. IsPair(Settings(file).center)
        BY <3>2 DEF IsPair
      <3> QED
        BY <3>1, <3>2, <3>3, <3>4, <3>5 DEF SpaceInv, VerticesInside, InRound
    <2> QED
      BY <2>1, <2>2
  <1> QED
    BY <1>1, <1>2

\* A round grows its graph in the space: what it draws is in it, and so is
\* what lies between that and a vertex.
LEMMA LoopStaysInside ==
    ASSUME IInv, SpaceInv, BuildLoop
    PROVE  SpaceInv'
  <1>1. pc = "building" /\ pc' = "building" /\ robot' = robot /\ settings' = settings
    BY DEF BuildLoop, robotVars
  <1>2. Built(local)
    BY <1>1 DEF IInv, InRound
  <1> DEFINE inside(p) == InsideSpace(settings.global, settings.center, p)
  <1>3. SUFFICES ASSUME settings.global.type = "kCuboid", inside(robot)
                 PROVE  \A v \in Ids(local') : inside(local'.vertex[v].place)
    BY <1>1 DEF SpaceInv, VerticesInside
  <1>4. \A v \in Ids(local) : inside(local.vertex[v].place) /\ local.vertex[v].place \in Places
    BY <1>1, <1>2, <1>3, BuiltGraph DEF SpaceInv, VerticesInside, InRound
  <1>5. PICK draws, sample :
           /\ sample \in SampleVertex(settings, draws, robot, TRUE)
           /\ IF sample = <<>> THEN local' = local /\ count' = Missed(count)
              ELSE TrySample(sample[1])
    BY DEF BuildLoop
  <1>6. CASE local' = local
    BY <1>4, <1>6
  <1>7. CASE local' # local
    <2> DEFINE p == sample[1]
               near == NearestVertex(local, p)
    <2>1. p \in Places /\ inside(p) /\ CanExpand(local, p)
          /\ local' = ExpandGraph(local, p, "kUnvisited")
      <3>1. sample # <<>> /\ TrySample(p)
        BY <1>5, <1>7
      <3>2. Admitted(settings, p, robot, TRUE)
        <4>1. PICK q : sample = <<q>> /\ Admitted(settings, q, robot, TRUE)
          BY <1>5, <3>1 DEF SampleVertex
        <4>2. p = q
          BY <4>1
        <4> QED
          BY <4>1, <4>2
      <3> QED
        BY <1>7, <3>1, <3>2 DEF TrySample, Admitted
    <2> HIDE DEF p
    <2>2. /\ Ids(local') = Ids(local) \cup {local'.idCount}
          /\ \A u \in Ids(local) : local'.vertex[u] = local.vertex[u]
          /\ local'.vertex[local'.idCount].place = Truncated(local.vertex[near].place, p)
      BY <1>2, <2>1, ExpandGraphAdds
    <2>3. near \in Ids(local)
      BY <1>2, <2>1, BuiltGraph, NearestIsVertex DEF Built
    <2> DEFINE from == local.vertex[near].place
               place == Truncated(from, p)
    <2>4. from \in Places /\ inside(from)
      BY <1>4, <2>3
    <2> HIDE DEF from, near
    <2>5. place = p \/ place \in Between(from, p)
      BY <2>1, <2>4, TruncatedIsBetween
    <2>6. inside(place)
      BY <1>1, <1>3, <2>1, <2>4, <2>5, CuboidIsConvex DEF SpaceInv
    <2>7. local'.vertex[local'.idCount].place = place
      BY <2>2 DEF from
    <2> HIDE DEF place, inside
    <2> QED
      BY <1>4, <2>2, <2>6, <2>7
  <1> QED
    BY <1>6, <1>7

\* The services give a space two corners, while no round is on.
LEMMA SpaceStays ==
    ASSUME SpaceInv, IInv, pc = "idle", NEW space, NEW center, IsPair(center),
           SpaceBecomes(space, center),
           NEW min, NEW max, IsPair(min), IsPair(max),
           space = [settings.global EXCEPT !.min = min, !.max = max]
    PROVE  SpaceInv'
  <1>1. pc' = pc /\ settings' = [settings EXCEPT !.global = space, !.center = center]
    BY DEF SpaceBecomes, roundState
  <1>2. settings' = [planning |-> settings.planning, switches |-> settings.switches,
                     global |-> space, center |-> center, default |-> settings.default,
                     local |-> settings.local, search |-> settings.search]
    BY <1>1 DEF IInv, IsSettings
  <1>3. IsSpace(settings.global)
    BY DEF SpaceInv
  <1>4. space = [type |-> settings.global.type, min |-> min, max |-> max,
                 radius |-> settings.global.radius]
    BY <1>3 DEF IsSpace
  <1>5. IsSpace(space)
    BY <1>4 DEF IsSpace
  <1> QED
    BY <1>1, <1>2, <1>5 DEF SpaceInv, VerticesInside, InRound

\* The vertices stay in the space.
LEMMA SpaceKept ==
    ASSUME SpaceInv, IInv, [Next]_localVars
    PROVE  SpaceInv'
  <1>1. ASSUME pc \notin {"boot", "shutdown"}, pc' \notin {"building", "built", "evaluated"},
               settings' = settings
        PROVE  SpaceInv'
    BY <1>1 DEF SpaceInv, VerticesInside, InRound
  <1>2. ASSUME InRound, settings' = settings, robot' = robot, Ids(local') = Ids(local),
               \A v \in Ids(local) : local'.vertex[v].place = local.vertex[v].place
        PROVE  SpaceInv'
    BY <1>2 DEF SpaceInv, VerticesInside, InRound
  <1>3. CASE UNCHANGED localVars
    BY <1>3 DEF localVars, vars, robotVars, roundVars, roundState, nodeState, SpaceInv, VerticesInside, InRound
  <1>4. CASE \E file \in Files : Boot(file)
    BY <1>4, SpaceStarts
  <1>5. CASE \E mode \in Modes : StartRound(mode)
    <2>1. /\ pc = "idle" /\ pc' = "building" /\ settings' = settings /\ robot' = robot
          /\ local' = AddVertex(EmptyGraph, Vertex(robot))
      BY <1>5 DEF StartRound
    <2>2. Ids(local') = {0} /\ local'.vertex[0] = Vertex(robot)
      BY <2>1 DEF AddVertex, EmptyGraph, GenerateVertexID, Ids
    <2>3. Vertex(robot).place = robot
      BY DEF Vertex
    <2> QED
      BY <2>1, <2>2, <2>3 DEF SpaceInv, VerticesInside
  <1>6. CASE BuildLoop
    BY <1>6, LoopStaysInside
  <1>7. CASE BuildEnd
    BY <1>2, <1>7 DEF BuildEnd, InRound, nodeState
  <1>8. CASE Evaluate
    <2>1. pc = "built" /\ settings' = settings /\ robot' = robot
      BY <1>8 DEF Evaluate, robotVars, nodeState
    <2>2. Built(local)
      BY <2>1 DEF IInv, InRound
    <2>3. PICK r, S : local' = FullyEvaluated(local, r, S)
      BY <1>8 DEF Evaluate
    <2>4. \E T : local' = EvaluatedIn(local, T)
      BY <2>3 DEF FullyEvaluated
    <2> QED
      BY <1>2, <2>1, <2>2, <2>4, EvaluationKeepsEdges DEF InRound
  <1>9. CASE \E leaf \in Ids(local), remaining \in Budgets : Answer(leaf, remaining)
    BY <1>1, <1>9 DEF Answer, nodeState
  <1>10. CASE \/ \E source \in {robot} \cup SearchTargets, target \in SearchTargets :
                    StartSearch(source, target)
              \/ SearchLoop \/ SearchEnd
    BY <1>1, <1>10 DEF StartSearch, SearchLoop, SearchEnd, roundState
  <1>11. CASE \E b \in Bounds : SetGlobalBound(b[1], b[2]) \/ SetDynamicBound(b[1], b[2])
    <2>1. PICK b \in Bounds : SetGlobalBound(b[1], b[2]) \/ SetDynamicBound(b[1], b[2])
      BY <1>11
    <2>2. IsPair(b[1]) /\ IsPair(b[2])
      BY PlaneAssumption DEF IsPair
    <2>3. CASE SetGlobalBound(b[1], b[2])
      <3>1. /\ pc = "idle"
            /\ SpaceBecomes([settings.global EXCEPT !.min = b[1], !.max = b[2]], settings.center)
        BY <2>3 DEF SetGlobalBound
      <3>2. IsPair(settings.center)
        BY <3>1 DEF SpaceInv
      <3> QED
        BY <2>2, <3>1, <3>2, SpaceStays
    <2>4. CASE SetDynamicBound(b[1], b[2])
      <3>1. pc = "idle"
        BY <2>4 DEF SetDynamicBound
      <3>2. PICK half \in {Half(b[1], b[2])} :
               SpaceBecomes([settings.global EXCEPT !.min = [k \in DOMAIN half |-> -half[k]],
                                                    !.max = half],
                            [k \in DOMAIN half |-> b[1][k] + half[k]])
        BY <2>4 DEF SetDynamicBound
      <3>3. DOMAIN half = 1..2 /\ IsPair(half)
        BY <2>2, <3>2 DEF Half, IsPair
      <3> DEFINE low == [k \in DOMAIN half |-> -half[k]]
                 center == [k \in DOMAIN half |-> b[1][k] + half[k]]
      <3>4. IsPair(low) /\ IsPair(center)
        BY <2>2, <3>3 DEF IsPair
      <3>5. SpaceBecomes([settings.global EXCEPT !.min = low, !.max = half], center)
        BY <3>2
      <3> HIDE DEF low, center
      <3> QED
        BY <3>1, <3>3, <3>4, <3>5, SpaceStays
    <2> QED
      BY <2>1, <2>3, <2>4
  <1>12. CASE ResetGlobalBound \/ ResetDynamicBound
    <2> DEFINE min == settings.default.min
               max == settings.default.max
               space == [settings.global EXCEPT !.min = min, !.max = max]
    <2>1. pc = "idle" /\ (SpaceBecomes(space, settings.center) \/ SpaceBecomes(space, Half(min, max)))
      BY <1>12 DEF ResetGlobalBound, ResetDynamicBound
    <2>2. IsPair(min) /\ IsPair(max) /\ IsPair(settings.center)
      BY <2>1 DEF SpaceInv
    <2>3. IsPair(Half(min, max))
      BY <2>2 DEF Half, IsPair
    <2> HIDE DEF min, max
    <2> QED
      BY <2>1, <2>2, <2>3, SpaceStays
  <1>13. CASE Around
    BY <1>1, <1>13 DEF Around, roundState, nodeState
  <1> QED
    BY <1>3, <1>4, <1>5, <1>6, <1>7, <1>8, <1>9, <1>10, <1>11, <1>12, <1>13 DEF Next, RoundStep

-----------------------------------------------------------------------------
(* The search.                                                             *)

\* A path of vertices from the root, along edges.
FromRoot(g, path) ==
    /\ path \in Seq(Ids(g)) /\ path # <<>> /\ path[1] = 0
    /\ \A i \in 1..(Len(path) - 1) : {path[i], path[i + 1]} \in g.edges

\* Its poses can be driven where the edges can.
LEMMA PosesFollow ==
    ASSUME NEW g, Built(g), EdgesFree(g), NEW path, FromRoot(g, path),
           NEW poses, poses = PosesOf(g, path)
    PROVE  /\ poses \in Seq(Places) /\ Len(poses) = Len(path) /\ Len(poses) > 0
           /\ poses[1] = g.vertex[0].place
           /\ \A i \in 1..(Len(poses) - 1) : Drivable(poses[i], poses[i + 1])
  <1> DEFINE n == Len(path)
  <1>1. /\ path \in Seq(Ids(g)) /\ path # <<>> /\ path[1] = 0
        /\ \A i \in 1..(n - 1) : {path[i], path[i + 1]} \in g.edges
    BY DEF FromRoot
  <1>2. n \in Nat /\ n > 0 /\ DOMAIN path = 1..n /\ \A i \in 1..n : path[i] \in Ids(g)
    BY <1>1
  <1>3. \A u \in Ids(g) : g.vertex[u].place \in Places
    BY BuiltGraph
  <1>4. poses = [i \in 1..n |-> g.vertex[path[i]].place]
    BY <1>2 DEF PosesOf
  <1> HIDE DEF n
  <1>5. poses \in Seq(Places) /\ Len(poses) = n
    BY <1>2, <1>3, <1>4
  <1>6. ASSUME NEW i \in 1..(n - 1)
        PROVE  Drivable(poses[i], poses[i + 1])
    <2>1. i \in 1..n /\ i + 1 \in 1..n
      BY <1>2
    <2>2. path[i] \in Ids(g) /\ path[i + 1] \in Ids(g) /\ {path[i], path[i + 1]} \in g.edges
      BY <1>1, <1>2, <2>1
    <2>3. Drivable(g.vertex[path[i]].place, g.vertex[path[i + 1]].place)
      BY <2>2 DEF EdgesFree
    <2> QED
      BY <1>4, <2>1, <2>3
  <1>7. poses[1] = g.vertex[0].place
    BY <1>1, <1>2, <1>4
  <1> QED
    BY <1>2, <1>5, <1>6, <1>7 DEF n

\* While it lasts, the graph of a search is grown from its source, can be
\* driven, and is within its bound.
SearchInv ==
    pc = "searching" =>
        /\ tree = [graph |-> tree.graph, source |-> tree.source, target |-> tree.target,
                   near |-> tree.near, loops |-> tree.loops, edges |-> tree.edges,
                   stop |-> tree.stop]
        /\ tree.source \in Places /\ tree.target \in Places
        /\ Built(tree.graph) /\ EdgesFree(tree.graph)
        /\ tree.graph.vertex[0].place = tree.source
        /\ tree.near \subseteq Ids(tree.graph) \ {0}
        /\ tree.graph.idCount <= SearchVertices + 1
        /\ ~tree.stop => tree.graph.idCount <= SearchVertices

\* A search begins with its source.
LEMMA StartSearchKeeps ==
    ASSUME IInv, NEW source \in {robot} \cup SearchTargets, NEW target \in SearchTargets,
           StartSearch(source, target)
    PROVE  SearchInv'
  <1>1. source \in Places /\ target \in Places /\ SearchVertices \in Nat
    BY SearchAssumption DEF IInv
  <1>2. CASE pc' # "searching"
    BY <1>2 DEF SearchInv
  <1>3. CASE pc' = "searching"
    <2> DEFINE g == AddVertex(EmptyGraph, Vertex(source))
    <2>1. tree' = [NoTree EXCEPT !.graph = g, !.source = source, !.target = target]
      BY <1>3 DEF StartSearch
    <2>2. /\ EmptyGraph \in Graphs /\ Ids(EmptyGraph) = {} /\ Vertex(source) \in Vertices
          /\ EmptyGraph.edges = {}
      BY <1>1, EmptyIsSound, NewVertex DEF EmptyGraph
    <2>3. Built(g) /\ g.idCount = 0
      <3>1. g \in Grown(EmptyGraph) /\ Linked(g) /\ g.idCount = 0
        BY <2>2, RootGrows
      <3> QED
        BY <3>1 DEF Grown, Built
    <2>4. g.edges = {}
      BY <2>2, VertexGrows
    <2>5. g.vertex[0].place = source
      BY DEF AddVertex, EmptyGraph, GenerateVertexID, Vertex
    <2> HIDE DEF g
    <2>6. tree' = [graph |-> g, source |-> source, target |-> target, near |-> {},
                   loops |-> 0, edges |-> 0, stop |-> FALSE]
      BY <2>1 DEF NoTree
    <2>7. EdgesFree(tree.graph)'
      BY <2>4, <2>6 DEF EdgesFree
    <2> QED
      BY <1>1, <2>3, <2>5, <2>6, <2>7 DEF SearchInv
  <1> QED
    BY <1>2, <1>3

\* A turn of the search grows its graph by expandGraph or not at all.
LEMMA SearchLoopKeeps ==
    ASSUME SearchInv, SearchLoop
    PROVE  SearchInv'
  <1> DEFINE old == tree.graph
             g == tree'.graph
  <1>1. /\ pc = "searching" /\ ~tree.stop /\ known' = known /\ closed' = closed
    BY DEF SearchLoop, vars, robotVars, mapVars
  <1>2. PICK sample \in SampleVertex(settings, Draws(samplers.search, tree.source),
                                     tree.source, FALSE) :
           sample # <<>> /\ tree' = Searched(sample[1])
    BY DEF SearchLoop
  <1> DEFINE p == sample[1]
             expands == CanExpand(old, p)
             h == IF expands THEN ExpandGraph(old, p, "kUnvisited") ELSE old
             near == IF expands /\ Dist(p, tree.target) < ReachRadius
                     THEN tree.near \cup {h.idCount} ELSE tree.near
             edges == IF expands THEN tree.edges + EdgesAdded(h) ELSE tree.edges
             stop == \/ Cardinality(near) > SearchPaths
                     \/ tree.loops >= SearchCutoff /\ Cardinality(Ids(h)) <= 1
                     \/ tree.loops > SearchLoops
                     \/ Cardinality(Ids(h)) - 1 > SearchVertices
                     \/ edges > SearchEdges
  <1>3. p \in Places
    BY <1>2 DEF SampleVertex, Admitted
  <1>4. tree' = [tree EXCEPT !.graph = h, !.near = near, !.loops = @ + 1, !.edges = edges,
                             !.stop = stop]
    BY <1>2 DEF Searched
  <1>5. /\ tree = [graph |-> tree.graph, source |-> tree.source, target |-> tree.target,
                   near |-> tree.near, loops |-> tree.loops, edges |-> tree.edges,
                   stop |-> tree.stop]
        /\ tree.source \in Places /\ tree.target \in Places
        /\ Built(old) /\ EdgesFree(old) /\ old.vertex[0].place = tree.source
        /\ tree.near \subseteq Ids(old) \ {0} /\ old.idCount <= SearchVertices
    BY <1>1 DEF SearchInv
  <1>6. /\ Built(h) /\ EdgesFree(h) /\ h.vertex[0].place = tree.source
        /\ near \subseteq Ids(h) \ {0} /\ h.idCount <= SearchVertices + 1
    <2>0. old.idCount \in Nat /\ 0 \in Ids(old) /\ SearchVertices \in Nat
      BY <1>5, BuiltGraph, SearchAssumption
    <2>1. CASE ~expands
      BY <1>5, <2>0, <2>1
    <2>2. CASE expands
      <3>1. h = ExpandGraph(old, p, "kUnvisited")
        BY <2>2
      <3> HIDE DEF h, old
      <3>2. /\ Built(h) /\ EdgesFree(h) /\ h.idCount = old.idCount + 1
            /\ Ids(h) = Ids(old) \cup {h.idCount}
            /\ \A u \in Ids(old) : h.vertex[u] = old.vertex[u]
        BY <1>3, <1>5, <2>2, <3>1, ExpandGraphAdds
      <3> QED
        BY <1>5, <2>0, <3>2
    <2> QED
      BY <2>1, <2>2
  <1>7. stop \/ h.idCount <= SearchVertices
    <2>1. Ids(h) = 0..h.idCount /\ h.idCount \in Nat
      BY <1>6, BuiltGraph
    <2> HIDE DEF h
    <2>2. Cardinality(Ids(h)) = h.idCount + 1
      BY <2>1, FS_Interval
    <2> QED
      BY <2>1, <2>2, SearchAssumption
  <1> HIDE DEF h, near, edges, stop, old
  <1>8. tree' = [graph |-> h, source |-> tree.source, target |-> tree.target, near |-> near,
                 loops |-> tree.loops + 1, edges |-> edges, stop |-> stop]
    BY <1>4, <1>5
  <1>9. EdgesFree(tree.graph)'
    BY <1>1, <1>6, <1>8 DEF EdgesFree, Drivable, PathFree, FenceOK
  <1> QED
    BY <1>5, <1>6, <1>7, <1>8, <1>9 DEF SearchInv

\* Every step keeps it.
LEMMA SearchStays == SearchInv /\ IInv /\ [Next]_localVars => SearchInv'
  <1> SUFFICES ASSUME SearchInv, IInv, [Next]_localVars
               PROVE  SearchInv'
    OBVIOUS
  <1>1. CASE UNCHANGED localVars
    BY <1>1 DEF localVars, vars, robotVars, roundVars, mapVars, roundState, nodeState, SearchInv,
                EdgesFree, Drivable, PathFree, FenceOK
  <1>2. ASSUME pc' # "searching"
        PROVE  SearchInv'
    BY <1>2 DEF SearchInv
  <1>3. CASE \E source \in {robot} \cup SearchTargets, target \in SearchTargets :
                 StartSearch(source, target)
    BY <1>3, StartSearchKeeps
  <1>4. CASE SearchLoop
    BY <1>4, SearchLoopKeeps
  <1>5. CASE \/ \E file \in Files : Boot(file)
             \/ \E mode \in Modes : StartRound(mode)
             \/ RoundStep \/ SearchEnd
             \/ \E b \in Bounds : SetGlobalBound(b[1], b[2]) \/ SetDynamicBound(b[1], b[2])
             \/ ResetGlobalBound \/ ResetDynamicBound \/ Around
    <2>1. pc' # "searching"
      BY <1>5 DEF Boot, StartRound, RoundStep, BuildLoop, BuildEnd, Evaluate, Judge, Answer,
                  SearchEnd, SetGlobalBound, SetDynamicBound, ResetGlobalBound,
                  ResetDynamicBound, SpaceBecomes, Around, roundState
    <2> QED
      BY <1>2, <2>1
  <1> QED
    BY <1>1, <1>3, <1>4, <1>5 DEF Next

\* The destination is reached along the graph, whichever it is: the target
\* tied to it, or the nearest of what came near.
LEMMA DestinationIsReached ==
    ASSUME SearchInv, pc = "searching", tree.near # {}, NEW end, end = Destination(tree.graph)
    PROVE  /\ end.id # -1 /\ Built(end.graph) /\ EdgesFree(end.graph)
           /\ end.graph.vertex[0].place = tree.source
           /\ LET r == ShortestPaths(end.graph, 0) IN
              Leads(end.graph, 0, r, ShortestPath(r, end.id), end.id)
  <1> DEFINE g == tree.graph
             target == tree.target
             near == tree.near
  <1>1. /\ target \in Places /\ Built(g) /\ EdgesFree(g) /\ g.vertex[0].place = tree.source
        /\ near \subseteq Ids(g) \ {0} /\ near # {} /\ g.idCount <= SearchVertices + 1
    BY DEF SearchInv
  <1>2. PICK far \in 0..Inf : /\ \A p, q \in Places : Dist(p, q) <= far
                              /\ far * (SearchVertices + 3) < Inf
    BY SearchAssumption
  <1>3. far \in Nat /\ Inf \in Nat /\ SearchVertices \in Nat
    BY SearchAssumption DEF Inf
  <1>4. /\ g \in Graphs /\ Linked(g) /\ g.idCount \in Nat /\ Ids(g) = 0..g.idCount
        /\ 0 \in Ids(g) /\ IsFiniteSet(Ids(g))
    <2> HIDE DEF g
    <2>1. g \in Graphs /\ Linked(g)
      BY <1>1 DEF Built
    <2>2. g.idCount \in Nat /\ Ids(g) = 0..g.idCount /\ 0 \in Ids(g)
      BY <1>1, BuiltGraph
    <2>3. IsFiniteSet(0..g.idCount)
      BY <2>2, FS_Interval
    <2> QED
      BY <2>1, <2>2, <2>3
  <1>5. ASSUME NEW h, Built(h), h.idCount >= 1, h.idCount <= SearchVertices + 2, NEW v \in Ids(h)
        PROVE  LET r == ShortestPaths(h, 0) IN Leads(h, 0, r, ShortestPath(r, v), v)
    <2>0. h.idCount \in Nat /\ Ids(h) = 0..h.idCount
      BY <1>5, BuiltGraph
    <2>1. h \in Graphs /\ Linked(h) /\ h.idCount \in Nat /\ Ids(h) = 0..h.idCount
      BY <1>5, <2>0 DEF Built
    <2>2. Cardinality(Ids(h)) = h.idCount + 1
      <3> DEFINE last == h.idCount
      <3>1. 0 \in Int /\ last \in Int /\ ~(0 > last) /\ last - 0 + 1 = last + 1
        BY <2>1
      <3> HIDE DEF last
      <3>2. Cardinality(0..last) = last + 1
        BY <3>1, FS_Interval
      <3> QED
        BY <2>1, <3>2 DEF last
    <2>3. far * (h.idCount + 1) <= far * (SearchVertices + 3)
      <3> DEFINE m == h.idCount + 1
                 n == SearchVertices + 3
      <3>1. m \in Nat /\ n \in Nat /\ m <= n
        BY <1>3, <1>5, <2>1
      <3> HIDE DEF m, n
      <3>2. n - m \in Nat /\ far * (n - m) >= 0 /\ far * n = far * m + far * (n - m)
        BY <1>3, <3>1
      <3>3. far * m <= far * n
        BY <1>3, <3>1, <3>2
      <3> QED
        BY <3>3 DEF m, n
    <2>4. far * (h.idCount + 1) < Inf
      <3>1. far * (h.idCount + 1) \in Nat /\ far * (SearchVertices + 3) \in Nat
        BY <1>3, <2>1
      <3> QED
        BY <1>2, <1>3, <2>3, <3>1
    <2>5. Cardinality(Ids(h)) >= 2
      BY <1>5, <2>1, <2>2
    <2>6. far \in Nat /\ \A p, q \in Places : Dist(p, q) <= far
      BY <1>2, <1>3
    <2> QED
      BY <1>5, <2>1, <2>4, <2>5, <2>6, PathsReach
  <1> DEFINE tied == BoxFree(target) /\ CanExpand(g, target)
             grown == ExpandGraph(g, target, "kUnvisited")
             r == ShortestPaths(g, 0)
             nearest(v) == \A u \in near : ShortestDistance(r, v) <= ShortestDistance(r, u)
             best == CHOOSE v \in near : nearest(v)
  <1>6. end = IF tied THEN [graph |-> grown, id |-> grown.idCount] ELSE [graph |-> g, id |-> best]
    BY DEF Destination
  <1>7. CASE tied
    <2>1. end.graph = grown /\ end.id = grown.idCount
      BY <1>6, <1>7
    <2> HIDE DEF g, grown, target
    <2>2. /\ Built(grown) /\ EdgesFree(grown) /\ grown.idCount = g.idCount + 1
          /\ Ids(grown) = Ids(g) \cup {grown.idCount}
          /\ \A u \in Ids(g) : grown.vertex[u] = g.vertex[u]
      BY <1>1, <1>7, ExpandGraphAdds DEF grown
    <2>3. grown.idCount >= 1 /\ grown.idCount <= SearchVertices + 2
      BY <1>1, <1>3, <1>4, <2>2
    <2> QED
      BY <1>1, <1>4, <1>5, <2>1, <2>2, <2>3 DEF g
  <1>8. CASE ~tied
    <2>1. end.graph = g /\ end.id = best
      BY <1>6, <1>8
    <2>2. g.idCount >= 1
      <3>1. PICK v : v \in near
        BY <1>1
      <3> QED
        BY <1>1, <1>4, <3>1
    <2>3. best \in near
      <3> DEFINE d == [v \in near |-> ShortestDistance(r, v)]
      <3>1. Cardinality(Ids(g)) >= 2
        <4>1. Cardinality(Ids(g)) = g.idCount + 1
          BY <1>4, FS_Interval
        <4> QED
          BY <1>4, <2>2, <4>1
      <3>2. PICK rank : IsTree(g, 0, r, rank)
        BY <1>4, <3>1, SearchIsTree
      <3>3. \A v \in near : ShortestDistance(r, v) \in Int
        BY <1>1, <1>3, <3>2 DEF IsTree, ShortestDistance
      <3>4. near \in SUBSET Nat /\ IsFiniteSet(near)
        BY <1>1, <1>4, FS_Subset
      <3> HIDE DEF near, r
      <3>5. \A v \in near : d[v] \in Int /\ d[v] = ShortestDistance(r, v)
        BY <3>3
      <3> HIDE DEF d
      <3>6. PICK v \in near : \A u \in near : d[v] < d[u] \/ (d[v] = d[u] /\ v <= u)
        BY <1>1, <3>4, <3>5, FirstByMeasure
      <3>7. nearest(v)
        BY <3>5, <3>6
      <3> HIDE DEF nearest
      <3> QED
        BY <3>7
    <2> HIDE DEF best, g, near
    <2>4. best \in Ids(g) /\ best # -1
      BY <1>1, <1>4, <2>3
    <2> QED
      BY <1>1, <1>3, <1>4, <1>5, <2>1, <2>2, <2>4
  <1> QED
    BY <1>7, <1>8

\* What a step answers to a search.
SearchAnswer ==
    (route'.kind = "search" /\ route' # route) =>
        /\ route'.poses # <<>>
        /\ pc = "searching" => Head(route'.poses) = tree.source
        /\ \A i \in 1..(Len(route'.poses) - 1) :
               PathFree(route'.poses[i], route'.poses[i + 1], FALSE)

\* The straight path, or one along the graph.
LEMMA SearchAnswers == SearchInv /\ IInv /\ [Next]_localVars => SearchAnswer
  <1> SUFFICES ASSUME SearchInv, IInv, [Next]_localVars, route'.kind = "search", route' # route
               PROVE  /\ route'.poses # <<>>
                      /\ pc = "searching" => Head(route'.poses) = tree.source
                      /\ \A i \in 1..(Len(route'.poses) - 1) :
                             PathFree(route'.poses[i], route'.poses[i + 1], FALSE)
    BY DEF SearchAnswer
  <1>1. CASE \E source \in {robot} \cup SearchTargets, target \in SearchTargets :
                 StartSearch(source, target)
    <2>1. PICK source, target : StartSearch(source, target)
      BY <1>1
    <2>2. CASE Straight(source, target)
      <3>1. route' = [NoRoute EXCEPT !.kind = "search", !.poses = <<source, target>>]
            /\ pc = "idle"
        BY <2>1, <2>2 DEF StartSearch
      <3>2. route'.poses = <<source, target>>
        BY <3>1 DEF NoRoute
      <3>3. Len(route'.poses) = 2 /\ route'.poses[1] = source /\ route'.poses[2] = target
        BY <3>2
      <3>4. pc # "searching" /\ route'.poses # <<>>
        BY <3>1, <3>2
      <3>5. PathFree(source, target, FALSE)
        BY <2>2 DEF Straight
      <3>6. ASSUME NEW i \in 1..(Len(route'.poses) - 1)
            PROVE  PathFree(route'.poses[i], route'.poses[i + 1], FALSE)
        <4>1. i = 1 /\ i + 1 = 2
          BY <3>3
        <4> QED
          BY <3>3, <3>5, <4>1
      <3> QED
        BY <3>4, <3>6
    <2>3. CASE ~Straight(source, target)
      <3>1. route' = NoRoute
        BY <2>1, <2>3 DEF StartSearch
      <3> QED
        BY <3>1 DEF NoRoute
    <2> QED
      BY <2>2, <2>3
  <1>2. CASE SearchEnd
    <2>1. PICK end \in IF tree.near = {} THEN { [graph |-> EmptyGraph, id |-> -1] }
                       ELSE { Destination(tree.graph) } :
             route' = IF end.id = -1 THEN NoRoute
                      ELSE [NoRoute EXCEPT !.kind = "search", !.poses =
                               PosesOf(end.graph,
                                       ShortestPath(ShortestPaths(end.graph, 0), end.id))]
      BY <1>2 DEF SearchEnd
    <2>2. pc = "searching"
      BY <1>2 DEF SearchEnd
    <2>3. end.id # -1
      BY <2>1 DEF NoRoute
    <2>4. tree.near # {} /\ end = Destination(tree.graph)
      BY <2>1, <2>3
    <2> DEFINE r == ShortestPaths(end.graph, 0)
               path == ShortestPath(r, end.id)
               poses == PosesOf(end.graph, path)
    <2>5. /\ Built(end.graph) /\ EdgesFree(end.graph)
          /\ end.graph.vertex[0].place = tree.source
          /\ Leads(end.graph, 0, r, path, end.id)
      BY <2>2, <2>4, DestinationIsReached
    <2>6. route'.poses = poses
      BY <2>1, <2>3 DEF NoRoute
    <2> HIDE DEF r, path, poses
    <2>7. /\ poses \in Seq(Places) /\ Len(poses) > 0
          /\ poses[1] = end.graph.vertex[0].place
          /\ \A i \in 1..(Len(poses) - 1) : Drivable(poses[i], poses[i + 1])
      BY <2>5, PosesFollow DEF poses, Leads, FromRoot
    <2> QED
      BY <2>5, <2>6, <2>7 DEF Drivable, PathFree
  <1>3. CASE \E mode \in Modes : StartRound(mode)
    BY <1>3 DEF StartRound, NoRoute
  <1>4. CASE RoundStep
    <2>1. CASE BuildLoop
      BY <2>1 DEF BuildLoop
    <2>2. CASE BuildEnd
      BY <2>2 DEF BuildEnd, NoRoute
    <2>3. CASE Evaluate
      BY <2>3 DEF Evaluate, Judge, NoRoute
    <2>4. CASE \E leaf \in Ids(local), remaining \in Budgets : Answer(leaf, remaining)
      <3>1. PICK leaf \in Ids(local), remaining \in Budgets : Answer(leaf, remaining)
        BY <2>4
      <3>2. ASSUME NEW g, NEW home, Homeward(g, home)
            PROVE  route'.kind = "homing"
        BY <3>2 DEF Homeward
      <3>3. ASSUME NEW g, Forward(g, leaf)
            PROVE  route'.kind \in {"short", "local"}
        <4>1. CASE route'.kind = "short"
          BY <4>1
        <4>2. CASE route'.kind # "short"
          <5>1. ~(PathLength(local, ShortestPath(rep, leaf)) <= MinLength)
            BY <3>3, <4>2 DEF Forward, NoRoute
          <5>2. PICK p, refined : route' = [kind |-> "local", poses |-> p, refined |-> refined]
            BY <3>3, <5>1 DEF Forward
          <5> QED
            BY <5>2
        <4> QED
          BY <4>1, <4>2
      <3>4. route'.kind # "search"
        BY <3>1, <3>2, <3>3 DEF Answer, NoRoute
      <3> QED
        BY <3>4
    <2> QED
      BY <1>4, <2>1, <2>2, <2>3, <2>4 DEF RoundStep
  <1>5. CASE \/ UNCHANGED localVars
             \/ \E file \in Files : Boot(file)
             \/ SearchLoop
             \/ \E b \in Bounds : SetGlobalBound(b[1], b[2]) \/ SetDynamicBound(b[1], b[2])
             \/ ResetGlobalBound \/ ResetDynamicBound \/ Around
    BY <1>5 DEF localVars, Boot, SearchLoop, SetGlobalBound, SetDynamicBound, ResetGlobalBound,
                ResetDynamicBound, SpaceBecomes, Around, roundState
  <1> QED
    BY <1>1, <1>2, <1>3, <1>4, <1>5 DEF Next

-----------------------------------------------------------------------------
(* The refinement.                                                         *)

\* What is left between two poses: no known obstacle, and no zone where zones
\* are respected.
Safe(p, q, fenced) == PathFree(p, q, FALSE) /\ Passes(p, q, fenced)
\* The paths from a place that are safe from pose to pose.
Courses(start, fenced) ==
    { s \in Seq(Places) : /\ Len(s) > 0 /\ s[1] = start
                          /\ \A i \in 1..(Len(s) - 1) : Safe(s[i], s[i + 1], fenced) }

\* A pose is left out, and those behind it move up.
LEMMA Removed ==
    ASSUME NEW S, NEW s \in Seq(S), NEW k \in 1..Len(s), NEW t, t = RemoveAt(s, k)
    PROVE  /\ t \in Seq(S) /\ Len(t) = Len(s) - 1
           /\ \A i \in 1..Len(t) : t[i] = IF i < k THEN s[i] ELSE s[i + 1]
  <1> DEFINE n == Len(s)
             front == SubSeq(s, 1, k - 1)
             back == SubSeq(s, k + 1, n)
  <1>1. n \in Nat /\ k \in 1..n
    OBVIOUS
  <1>2. t = front \o back
    BY DEF RemoveAt
  <1>3. front \in Seq(S) /\ Len(front) = k - 1 /\ \A i \in 1..(k - 1) : front[i] = s[i]
    BY <1>1
  <1>4. back \in Seq(S) /\ Len(back) = n - k /\ \A i \in 1..(n - k) : back[i] = s[i + k]
    BY <1>1
  <1> HIDE DEF front, back
  <1>5. t \in Seq(S) /\ Len(t) = n - 1
    BY <1>1, <1>2, <1>3, <1>4
  <1>6. ASSUME NEW i \in 1..(n - 1)
        PROVE  t[i] = IF i < k THEN s[i] ELSE s[i + 1]
    <2>1. CASE i < k
      BY <1>1, <1>2, <1>3, <1>4, <2>1
    <2>2. CASE ~(i < k)
      <3>1. t[i] = back[i - (k - 1)] /\ i - (k - 1) \in 1..(n - k)
        BY <1>1, <1>2, <1>3, <1>4, <2>2
      <3>2. back[i - (k - 1)] = s[(i - (k - 1)) + k]
        BY <1>4, <3>1
      <3>3. (i - (k - 1)) + k = i + 1
        BY <1>1
      <3> QED
        BY <2>2, <3>1, <3>2, <3>3
    <2> QED
      BY <2>1, <2>2
  <1> QED
    BY <1>5, <1>6

\* A pose that may be left out leaves a safe path.
LEMMA JoinedIsCourse ==
    ASSUME NEW start, NEW fenced, NEW s \in Courses(start, fenced),
           NEW k \in 1..(Len(s) - 2), Joinable(s, k, fenced)
    PROVE  RemoveAt(s, k + 1) \in Courses(start, fenced)
  <1> DEFINE n == Len(s)
             t == RemoveAt(s, k + 1)
  <1>1. /\ s \in Seq(Places) /\ n \in Nat /\ n > 0 /\ s[1] = start
        /\ \A i \in 1..(n - 1) : Safe(s[i], s[i + 1], fenced)
    BY DEF Courses
  <1>2. Safe(s[k], s[k + 2], fenced)
    BY DEF Joinable, Safe
  <1>3. k + 1 \in 1..n /\ k \in 1..n
    BY <1>1
  <1>4. /\ t \in Seq(Places) /\ Len(t) = n - 1
        /\ \A i \in 1..(n - 1) : t[i] = IF i < k + 1 THEN s[i] ELSE s[i + 1]
    BY <1>1, <1>3, Removed
  <1> HIDE DEF t, n
  <1>5. n \in Nat /\ k \in 1..(n - 2) /\ n - 1 > 0
    BY <1>1 DEF n
  <1>6. ASSUME NEW i \in 1..(n - 2)
        PROVE  Safe(t[i], t[i + 1], fenced)
    <2>1. i \in 1..(n - 1) /\ i + 1 \in 1..(n - 1)
      BY <1>5
    <2>2. /\ t[i] = IF i < k + 1 THEN s[i] ELSE s[i + 1]
          /\ t[i + 1] = IF i + 1 < k + 1 THEN s[i + 1] ELSE s[(i + 1) + 1]
      BY <1>4, <2>1
    <2>3. CASE i < k
      BY <1>1, <1>5, <2>1, <2>2, <2>3
    <2>4. CASE i = k
      <3>1. t[i] = s[k] /\ t[i + 1] = s[k + 2]
        BY <1>5, <2>2, <2>4
      <3> QED
        BY <1>2, <3>1
    <2>5. CASE i > k
      <3>1. t[i] = s[i + 1] /\ t[i + 1] = s[(i + 1) + 1]
        BY <1>5, <2>2, <2>5
      <3> QED
        BY <1>1, <2>1, <3>1
    <2> QED
      BY <1>5, <2>3, <2>4, <2>5
  <1>7. t[1] = start
    <2>1. 1 \in 1..(n - 1) /\ 1 < k + 1
      BY <1>5
    <2> QED
      BY <1>1, <1>4, <2>1
  <1>8. (n - 1) - 1 = n - 2
    BY <1>5
  <1> QED
    BY <1>4, <1>5, <1>6, <1>7, <1>8 DEF Courses, t

\* Joining keeps a path safe.
LEMMA JoiningKeepsCourse ==
    ASSUME NEW start, NEW fenced, NEW path \in Courses(start, fenced)
    PROVE  JoinShort(path, fenced) \in Courses(start, fenced)
  <1> DEFINE n == Len(path)
             rounds == [round \in DOMAIN path |-> round]
             joinable(s) == { i \in 1..(Len(s) - 2) : Joinable(s, i, fenced) }
             next(s) == IF joinable(s) = {} THEN s ELSE RemoveAt(s, Min(joinable(s)) + 1)
             G == Courses(start, fenced)
             step == [q \in G \X (1..n) |-> next(q[1])]
             Folds(f) == f = [x \in SUBSET DOMAIN rounds |->
                                IF x = {} THEN path ELSE next(f[x \ {Max(x)}])]
  <1>1. n \in Nat /\ DOMAIN rounds = 1..n
    BY DEF Courses
  <1>2. JoinShort(path, fenced) = (CHOOSE f : Folds(f))[DOMAIN rounds]
    BY DEF JoinShort, FoldLeft, MapThenFoldSet
  <1>3. ASSUME NEW s \in G
        PROVE  next(s) \in G
    <2>1. CASE joinable(s) = {}
      BY <2>1
    <2>2. CASE joinable(s) # {}
      <3> DEFINE S == joinable(s)
      <3>1. S \in SUBSET Nat /\ S # {}
        BY <2>2
      <3> HIDE DEF S
      <3>2. PICK k \in S : \A m \in S : k <= m
        BY <3>1, LeastNatural
      <3>3. Min(S) = k
        BY <3>1, <3>2, LeastIsMin
      <3>4. k \in 1..(Len(s) - 2) /\ Joinable(s, k, fenced)
        BY <3>2 DEF S
      <3>5. RemoveAt(s, k + 1) \in Courses(start, fenced)
        BY <3>4, JoinedIsCourse
      <3> QED
        BY <2>2, <3>3, <3>5 DEF S
    <2> QED
      BY <2>1, <2>2
  <1>4. path \in G
    OBVIOUS
  <1> HIDE DEF next, G, rounds, n
  <1>5. step \in [G \X (1..n) -> G]
    BY <1>3
  <1>6. PICK it \in [SUBSET (1..n) -> G] : IsFold(it, n, path, step)
    <2> HIDE DEF step
    <2> QED
      BY <1>1, <1>4, <1>5, FoldExists
  <1>7. Folds(it)
    <2> SUFFICES ASSUME NEW x \in SUBSET (1..n), x # {}
                 PROVE  step[<<it[x \ {Max(x)}], Max(x)>>] = next(it[x \ {Max(x)}])
      BY <1>1, <1>6 DEF IsFold
    <2>1. Max(x) \in 1..n /\ it[x \ {Max(x)}] \in G
      BY <1>1, MaxUpTo
    <2> QED
      BY <2>1
  <1>8. PICK f : Folds(f) /\ JoinShort(path, fenced) = f[1..n]
    <2> HIDE DEF Folds
    <2> QED
      BY <1>1, <1>2, <1>7
  <1>9. \A x \in SUBSET (1..n) : f[x] = IF x = {} THEN path ELSE next(f[x \ {Max(x)}])
    BY <1>1, <1>8
  <1> HIDE DEF Folds, step
  <1>10. \A m \in 1..n : f[1..(m - 1)] \in G => f[1..m] \in G
    <2> SUFFICES ASSUME NEW m \in 1..n, f[1..(m - 1)] \in G
                 PROVE  f[1..m] \in G
      OBVIOUS
    <2>1. m \in Nat /\ m > 0 /\ 1..m \in SUBSET (1..n)
      BY <1>1
    <2>2. 1..m # {} /\ Max(1..m) = m /\ (1..m) \ {Max(1..m)} = 1..(m - 1)
      BY <2>1, MaxOfFirst
    <2>3. f[1..m] = next(f[1..(m - 1)])
      BY <1>9, <2>1, <2>2
    <2> QED
      BY <1>3, <2>3
  <1>11. f[{}] \in G
    BY <1>4, <1>9
  <1> QED
    BY <1>1, <1>8, <1>10, <1>11, FoldKeeps DEF G

\* What may have become of the first m + 1 poses: a safe path, with a safe
\* way on to the next pose.
Refinings(joined, fenced, m) ==
    { s \in [poses : Courses(joined[1], fenced), ok : BOOLEAN] :
        /\ Len(s.poses) = m + 1
        /\ m + 1 < Len(joined) => Safe(s.poses[m + 1], joined[m + 2], fenced) }

\* One pose more that is safe to reach.
LEMMA CourseExtends ==
    ASSUME NEW start, NEW fenced, NEW s \in Courses(start, fenced), NEW p \in Places,
           NEW n, n = Len(s), Safe(s[n], p, fenced)
    PROVE  /\ Append(s, p) \in Courses(start, fenced) /\ Len(Append(s, p)) = n + 1
           /\ Append(s, p)[n + 1] = p
  <1> DEFINE t == Append(s, p)
  <1>1. /\ s \in Seq(Places) /\ n \in Nat /\ n > 0 /\ s[1] = start
        /\ \A i \in 1..(n - 1) : Safe(s[i], s[i + 1], fenced)
    BY DEF Courses
  <1>2. /\ t \in Seq(Places) /\ Len(t) = n + 1 /\ t[n + 1] = p
        /\ \A i \in 1..n : t[i] = s[i]
    BY <1>1
  <1>3. ASSUME NEW i \in 1..n
        PROVE  Safe(t[i], t[i + 1], fenced)
    <2>1. CASE i = n
      BY <1>1, <1>2, <2>1
    <2>2. CASE i # n
      <3>1. i \in 1..(n - 1) /\ i + 1 \in 1..n
        BY <1>1, <2>2
      <3> QED
        BY <1>1, <1>2, <3>1
    <2> QED
      BY <2>1, <2>2
  <1>4. t[1] = start
    BY <1>1, <1>2
  <1>5. (n + 1) - 1 = n /\ n + 1 > 0
    BY <1>1
  <1> HIDE DEF t
  <1>6. t \in Courses(start, fenced)
    BY <1>2, <1>3, <1>4, <1>5 DEF Courses
  <1> QED
    BY <1>2, <1>6 DEF t

\* A pose is kept where it was, or moved to where it is clear.
LEMMA RefinedPose ==
    ASSUME NEW path, NEW i, NEW s, s.ok \in BOOLEAN, NEW fenced,
           NEW t \in RefinePose(path, i, s, fenced)
    PROVE  \E p, ok : /\ t = [poses |-> Append(s.poses, p), ok |-> ok] /\ ok \in BOOLEAN
                      /\ \/ p = path[i]
                         \/ p \in Places /\ Clear(path, i, Last(s.poses), p, fenced)
  <1> DEFINE from == Last(s.poses)
             found == UNION { Modified(target) : target \in Targets(path, i, from) }
             clear == { p \in found : Clear(path, i, from, p, fenced) }
             kept(ok) == [poses |-> Append(s.poses, path[i]), ok |-> ok]
  <1>1. found \subseteq Places
    BY DEF Modified
  <1>2. \/ t = kept(s.ok) \/ t = kept(FALSE)
        \/ \E p \in clear : t = [poses |-> Append(s.poses, p), ok |-> s.ok]
    BY DEF RefinePose
  <1> HIDE DEF found, from
  <1>3. CASE \E p \in clear : t = [poses |-> Append(s.poses, p), ok |-> s.ok]
    BY <1>1, <1>3 DEF from
  <1>4. CASE t = kept(s.ok) \/ t = kept(FALSE)
    BY <1>4
  <1> QED
    BY <1>2, <1>3, <1>4

\* Each pose in turn, moved or not, leaves a safe path.
LEMMA RefiningKeepsCourse ==
    ASSUME NEW fenced, NEW joined, joined \in Courses(joined[1], fenced), NEW m \in 1..(Len(joined) - 1),
           NEW s \in Refinings(joined, fenced, m - 1),
           NEW t \in RefinePose(joined, m + 1, s, fenced)
    PROVE  t \in Refinings(joined, fenced, m)
  <1> DEFINE n == Len(joined)
             start == joined[1]
  <1>1. /\ n \in Nat /\ n > 0 /\ joined \in Seq(Places)
        /\ \A i \in 1..(n - 1) : Safe(joined[i], joined[i + 1], fenced)
    BY DEF Courses
  <1>2. /\ s.poses \in Courses(start, fenced) /\ s.ok \in BOOLEAN /\ Len(s.poses) = m
        /\ Safe(s.poses[m], joined[m + 1], fenced)
    <2>1. (m - 1) + 1 = m /\ (m - 1) + 2 = m + 1 /\ m < n
      BY <1>1
    <2> QED
      BY <2>1 DEF Refinings
  <1>3. PICK p, ok : /\ t = [poses |-> Append(s.poses, p), ok |-> ok] /\ ok \in BOOLEAN
                     /\ \/ p = joined[m + 1]
                        \/ p \in Places /\ Clear(joined, m + 1, Last(s.poses), p, fenced)
    <2>1. s.ok \in BOOLEAN
      BY <1>2
    <2> QED
      BY <2>1, RefinedPose, Z3
  <1>4. Last(s.poses) = s.poses[m]
    BY <1>2 DEF Last
  <1>5. /\ p \in Places /\ Safe(s.poses[m], p, fenced)
        /\ m + 1 < n => Safe(p, joined[m + 2], fenced)
    <2>1. CASE p = joined[m + 1]
      <3>1. m + 1 \in 1..n
        BY <1>1
      <3>2. joined[m + 1] \in Places
        BY <1>1, <3>1
      <3>3. m + 1 < n => Safe(joined[m + 1], joined[(m + 1) + 1], fenced)
        BY <1>1, <3>1
      <3>4. (m + 1) + 1 = m + 2
        BY <1>1
      <3> QED
        BY <1>2, <2>1, <3>2, <3>3, <3>4
    <2>2. CASE p \in Places /\ Clear(joined, m + 1, Last(s.poses), p, fenced)
      <3>1. PathFree(s.poses[m], p, TRUE) /\ Passes(s.poses[m], p, fenced)
        BY <1>4, <2>2 DEF Clear
      <3>2. m + 1 < n => PathFree(p, joined[m + 2], TRUE) /\ Passes(p, joined[m + 2], fenced)
        <4>1. (m + 1) + 1 = m + 2
          BY <1>1
        <4> QED
          BY <2>2, <4>1 DEF Clear
      <3> QED
        BY <2>2, <3>1, <3>2 DEF Safe, PathFree
    <2> QED
      BY <1>3, <2>1, <2>2
  <1> DEFINE u == Append(s.poses, p)
  <1>6. u \in Courses(start, fenced) /\ Len(u) = m + 1 /\ u[m + 1] = p
    BY <1>2, <1>5, CourseExtends
  <1>7. t = [poses |-> u, ok |-> ok]
    BY <1>3
  <1> HIDE DEF u
  <1>8. t.poses = u /\ t \in [poses : Courses(joined[1], fenced), ok : BOOLEAN]
    <2>1. t.poses = u
      BY <1>7
    <2>2. u \in Courses(joined[1], fenced) /\ ok \in BOOLEAN
      BY <1>3, <1>6
    <2> QED
      BY <1>7, <2>1, <2>2
  <1>9. m + 1 < Len(joined) => Safe(u[m + 1], joined[m + 2], fenced)
    BY <1>5, <1>6
  <1> QED
    BY <1>6, <1>8, <1>9 DEF Refinings

\* The refinement leaves a safe path, whatever corridors it finds.
LEMMA RefinedIsCourse ==
    ASSUME NEW start, NEW fenced, NEW path \in Courses(start, fenced),
           NEW o \in ImproveFreePath(path, fenced)
    PROVE  o.poses \in Courses(start, fenced)
  <1> DEFINE joined == JoinShort(path, fenced)
             n == Len(joined) - 1
             seq == [i \in 1..(Len(joined) - 1) |-> i + 1]
             next(S, i) == UNION { RefinePose(joined, i, s, fenced) : s \in S }
             base == { [poses |-> <<joined[1]>>, ok |-> TRUE] }
             refined == FoldLeft(next, base, seq)
             R == [poses : Seq(Places), ok : BOOLEAN]
             G == SUBSET R
             step == [q \in G \X (1..n) |-> next(q[1], seq[q[2]])]
             Folds(f) == f = [x \in SUBSET DOMAIN seq |->
                                IF x = {} THEN base ELSE next(f[x \ {Max(x)}], seq[Max(x)])]
             Reach == [m \in 0..n |-> SUBSET Refinings(joined, fenced, m)]
  <1>1. joined \in Courses(start, fenced)
    BY JoiningKeepsCourse
  <1> HIDE DEF joined
  <1>2. /\ joined \in Seq(Places) /\ Len(joined) \in Nat /\ Len(joined) > 0
        /\ joined[1] = start /\ joined[1] \in Places /\ joined \in Courses(joined[1], fenced)
    BY <1>1 DEF Courses
  <1>3. CASE Len(joined) <= 2
    <2>1. o = [poses |-> path, ok |-> FALSE]
      BY <1>3 DEF ImproveFreePath, joined
    <2> QED
      BY <2>1
  <1>4. CASE ~(Len(joined) <= 2)
    <2>1. o \in refined
      BY <1>4 DEF ImproveFreePath, joined
    <2>2. /\ n \in Nat /\ DOMAIN seq = 1..n /\ \A j \in 1..n : seq[j] = j + 1 /\ j + 1 \in 1..Len(joined)
      BY <1>2
    <2>3. refined = (CHOOSE f : Folds(f))[DOMAIN seq]
      BY DEF FoldLeft, MapThenFoldSet
    <2>4. ASSUME NEW S \in G, NEW j \in 1..n
          PROVE  next(S, seq[j]) \in G
      <3> SUFFICES ASSUME NEW s \in S, NEW t \in RefinePose(joined, seq[j], s, fenced)
                   PROVE  t \in R
        OBVIOUS
      <3>1. s \in R /\ joined[seq[j]] \in Places
        BY <1>2, <2>2
      <3>2. PICK p, ok : /\ t = [poses |-> Append(s.poses, p), ok |-> ok] /\ ok \in BOOLEAN
                         /\ \/ p = joined[seq[j]]
                            \/ p \in Places /\ Clear(joined, seq[j], Last(s.poses), p, fenced)
        BY <3>1, RefinedPose
      <3>3. p \in Places
        BY <3>1, <3>2
      <3>4. Append(s.poses, p) \in Seq(Places)
        BY <3>1, <3>3
      <3> QED
        BY <3>2, <3>4
    <2>5. base \in G
      BY <1>2
    <2> HIDE DEF next, base, G, seq, n, refined, R
    <2>6. step \in [G \X (1..n) -> G]
      BY <2>4
    <2>7. PICK it \in [SUBSET (1..n) -> G] : IsFold(it, n, base, step)
      <3> HIDE DEF step
      <3> QED
        BY <2>2, <2>5, <2>6, FoldExists
    <2>8. Folds(it)
      <3> SUFFICES ASSUME NEW x \in SUBSET (1..n), x # {}
                   PROVE  step[<<it[x \ {Max(x)}], Max(x)>>]
                              = next(it[x \ {Max(x)}], seq[Max(x)])
        BY <2>2, <2>7 DEF IsFold
      <3>1. Max(x) \in 1..n /\ it[x \ {Max(x)}] \in G
        BY <2>2, MaxUpTo
      <3> QED
        BY <3>1
    <2>9. PICK f : Folds(f) /\ refined = f[1..n]
      <3> HIDE DEF Folds
      <3> QED
        BY <2>2, <2>3, <2>8
    <2>10. \A x \in SUBSET (1..n) :
             f[x] = IF x = {} THEN base ELSE next(f[x \ {Max(x)}], seq[Max(x)])
      BY <2>2, <2>9
    <2> HIDE DEF Folds, step
    <2>11. \A m \in 0..n : Reach[m] = SUBSET Refinings(joined, fenced, m)
      OBVIOUS
    <2> HIDE DEF Reach
    <2>12. ASSUME NEW m \in 1..n, f[1..(m - 1)] \in Reach[m - 1]
           PROVE  f[1..m] \in Reach[m]
      <3>1. m \in Nat /\ m > 0 /\ 1..m \in SUBSET (1..n) /\ m \in 0..n /\ m - 1 \in 0..n
        BY <2>2
      <3>2. 1..m # {} /\ Max(1..m) = m /\ (1..m) \ {Max(1..m)} = 1..(m - 1)
        BY <3>1, MaxOfFirst
      <3>3. f[1..m] = next(f[1..(m - 1)], m + 1)
        BY <2>2, <2>10, <3>1, <3>2
      <3>4. f[1..(m - 1)] \subseteq Refinings(joined, fenced, m - 1)
        BY <2>11, <2>12, <3>1
      <3>5. ASSUME NEW t \in f[1..m]
            PROVE  t \in Refinings(joined, fenced, m)
        <4>1. PICK s \in f[1..(m - 1)] : t \in RefinePose(joined, m + 1, s, fenced)
          BY <3>3 DEF next
        <4>2. s \in Refinings(joined, fenced, m - 1) /\ m \in 1..(Len(joined) - 1)
          BY <3>4 DEF n
        <4> QED
          BY <1>2, <4>1, <4>2, RefiningKeepsCourse
      <3> QED
        BY <2>11, <3>1, <3>5
    <2>13. f[{}] \in Reach[0]
      <3>1. {} \in SUBSET (1..n) /\ 0 \in 0..n
        BY <2>2
      <3>2. f[{}] = base
        BY <2>10, <3>1
      <3> DEFINE first == <<joined[1]>>
      <3>3. first \in Seq(Places) /\ Len(first) = 1 /\ first[1] = joined[1]
        BY <1>2
      <3>4. 1 < Len(joined) => Safe(joined[1], joined[2], fenced)
        BY <1>2 DEF Courses
      <3> HIDE DEF first
      <3>5. first \in Courses(joined[1], fenced)
        <4>1. \A i \in 1..(Len(first) - 1) : FALSE
          BY <3>3
        <4>2. Len(first) > 0
          BY <3>3
        <4> QED
          BY <3>3, <4>1, <4>2 DEF Courses
      <3>6. [poses |-> first, ok |-> TRUE] \in Refinings(joined, fenced, 0)
        BY <3>3, <3>4, <3>5 DEF Refinings
      <3>7. base \in SUBSET Refinings(joined, fenced, 0)
        BY <3>6 DEF base, first
      <3> QED
        BY <2>11, <3>1, <3>2, <3>7
    <2>14. f[1..n] \in Reach[n]
      BY <2>2, <2>12, <2>13, FoldStays
    <2>15. n \in 0..n
      BY <2>2
    <2>16. o \in Refinings(joined, fenced, n)
      BY <2>1, <2>9, <2>11, <2>14, <2>15
    <2> QED
      BY <1>2, <2>16 DEF Refinings
  <1> QED
    BY <1>3, <1>4

-----------------------------------------------------------------------------
(* The path of a round.                                                    *)

\* In a round the graph is rooted where the robot is; when it is evaluated, it
\* has more than the root, and its report is about it.
RoundInv ==
    /\ InRound => local.vertex[0].place = robot
    /\ pc \in {"built", "evaluated"} => local.idCount >= 1
    /\ pc = "evaluated" => \E rank : IsTree(local, 0, rep, rank)

\* A report is about every graph of the same edges and places.
LEMMA TreeOfSamePlaces ==
    ASSUME NEW g, NEW h, Ids(h) = Ids(g), h.edges = g.edges, h.idCount = g.idCount,
           \A v \in Ids(g) : h.vertex[v].place = g.vertex[v].place,
           NEW r, NEW rank, IsTree(g, 0, r, rank)
    PROVE  IsTree(h, 0, r, rank)
  <1>1. \A v, u \in Ids(g) : VertexDist(h, v, u) = VertexDist(g, v, u)
    BY DEF VertexDist
  <1>2. \A v \in Ids(g) : r.parent[v] \in Ids(g)
    BY DEF IsTree
  <1>3. /\ r.status = TRUE /\ r.source = 0
        /\ r.parent \in [Ids(h) -> Ids(h)] /\ r.distance \in [Ids(h) -> 0..Inf]
        /\ r.parent[0] = 0 /\ r.distance[0] = 0
        /\ rank \in [Ids(h) -> 0..h.idCount]
    BY DEF IsTree
  <1>4. ASSUME NEW v \in Ids(h), r.parent[v] # v
        PROVE  LET p == r.parent[v] IN
               /\ {p, v} \in h.edges /\ r.distance[v] < Inf /\ rank[p] < rank[v]
               /\ r.distance[p] + VertexDist(h, p, v) = r.distance[v]
    <2> DEFINE q == r.parent[v]
    <2>1. v \in Ids(g) /\ q \in Ids(g)
      BY <1>2
    <2>2. /\ {q, v} \in g.edges /\ r.distance[v] < Inf /\ rank[q] < rank[v]
          /\ r.distance[q] + VertexDist(g, q, v) = r.distance[v]
      BY <1>4, <2>1 DEF IsTree
    <2>3. VertexDist(h, q, v) = VertexDist(g, q, v)
      BY <1>1, <2>1
    <2> QED
      BY <2>2, <2>3
  <1>5. \A v \in Ids(h) \ {0} : r.distance[v] < Inf => r.parent[v] # v
    BY DEF IsTree
  <1>6. ASSUME NEW v \in Ids(h), NEW u \in Ids(h), {u, v} \in h.edges
        PROVE  LET d == r.distance[v] + VertexDist(h, v, u) IN d < Inf => r.distance[u] <= d
    BY <1>1, <1>6 DEF IsTree
  <1> QED
    BY <1>3, <1>4, <1>5, <1>6 DEF IsTree

\* Every step keeps it.
LEMMA RoundStays == RoundInv /\ IInv /\ [Next]_localVars => RoundInv'
  <1> SUFFICES ASSUME RoundInv, IInv, [Next]_localVars
               PROVE  RoundInv'
    OBVIOUS
  <1>1. ASSUME pc' \notin {"building", "built", "evaluated"}
        PROVE  RoundInv'
    BY <1>1 DEF RoundInv, InRound
  <1>2. CASE UNCHANGED localVars
    BY <1>2 DEF localVars, vars, robotVars, roundVars, roundState, RoundInv, InRound
  <1>3. CASE \E mode \in Modes : StartRound(mode)
    <2>1. /\ pc' = "building" /\ robot' = robot
          /\ local' = AddVertex(EmptyGraph, Vertex(robot))
      BY <1>3 DEF StartRound
    <2>2. local'.vertex[0].place = robot
      BY <2>1 DEF AddVertex, EmptyGraph, GenerateVertexID, Vertex
    <2> QED
      BY <2>1, <2>2 DEF RoundInv
  <1>4. CASE BuildLoop
    <2>1. pc = "building" /\ pc' = "building" /\ robot' = robot /\ Built(local)
      BY <1>4 DEF BuildLoop, robotVars, IInv, InRound
    <2>2. PICK draws, sample :
             /\ sample \in SampleVertex(settings, draws, robot, TRUE)
             /\ IF sample = <<>> THEN local' = local /\ count' = Missed(count)
                ELSE TrySample(sample[1])
      BY <1>4 DEF BuildLoop
    <2>3. CASE local' = local
      BY <2>1, <2>3 DEF RoundInv, InRound
    <2>4. CASE local' # local
      <3> DEFINE p == sample[1]
      <3>1. sample # <<>> /\ TrySample(p) /\ p \in Places
        BY <2>2, <2>4 DEF SampleVertex, Admitted
      <3>2. CanExpand(local, p) /\ local' = ExpandGraph(local, p, "kUnvisited")
        BY <2>4, <3>1 DEF TrySample
      <3> HIDE DEF p
      <3>3. \A u \in Ids(local) : local'.vertex[u] = local.vertex[u]
        BY <2>1, <3>1, <3>2, ExpandGraphAdds
      <3>4. 0 \in Ids(local)
        BY <2>1, BuiltGraph
      <3> QED
        BY <2>1, <3>3, <3>4 DEF RoundInv, InRound
    <2> QED
      BY <2>3, <2>4
  <1>5. CASE BuildEnd
    <2>1. pc = "building" /\ robot' = robot /\ local' = local /\ Built(local)
      BY <1>5 DEF BuildEnd, IInv, InRound
    <2>2. CASE Cardinality(Ids(local)) > 1
      <3>1. pc' = "built"
        BY <1>5, <2>2 DEF BuildEnd
      <3>2. Ids(local) = 0..local.idCount /\ local.idCount \in Nat
        BY <2>1, BuiltGraph
      <3>3. Cardinality(Ids(local)) = local.idCount + 1
        BY <3>2, FS_Interval
      <3>4. local.idCount >= 1
        BY <2>2, <3>2, <3>3
      <3> QED
        BY <2>1, <3>1, <3>4 DEF RoundInv, InRound
    <2>3. CASE ~(Cardinality(Ids(local)) > 1)
      BY <1>1, <1>5, <2>3 DEF BuildEnd
    <2> QED
      BY <2>2, <2>3
  <1>6. CASE Evaluate
    <2>1. pc = "built" /\ robot' = robot /\ Built(local)
      BY <1>6 DEF Evaluate, robotVars, IInv, InRound
    <2>2. PICK r, S : /\ r = ShortestPaths(local, 0) /\ rep' = r
                      /\ local' = FullyEvaluated(local, r, S) /\ Judge(local', r)
      BY <1>6 DEF Evaluate
    <2>3. PICK T : local' = EvaluatedIn(local, T)
      BY <2>2 DEF FullyEvaluated
    <2>4. /\ Ids(local') = Ids(local) /\ local'.edges = local.edges
          /\ local'.idCount = local.idCount
          /\ \A v \in Ids(local) : local'.vertex[v].place = local.vertex[v].place
      BY <2>1, <2>3, EvaluationKeepsEdges
    <2>5. /\ local \in Graphs /\ 0 \in Ids(local) /\ Ids(local) = 0..local.idCount
          /\ local.idCount \in Nat /\ local.idCount >= 1
      BY <2>1, BuiltGraph DEF Built, RoundInv
    <2>6. Cardinality(Ids(local)) >= 2
      <3>1. Cardinality(Ids(local)) = local.idCount + 1
        BY <2>5, FS_Interval
      <3> QED
        BY <2>5, <3>1
    <2>7. PICK rank : IsTree(local, 0, rep', rank)
      BY <2>2, <2>5, <2>6, SearchIsTree
    <2>8. IsTree(local', 0, rep', rank)
      BY <2>4, <2>7, TreeOfSamePlaces
    <2>9. pc' \in {"idle", "evaluated"}
      BY <2>2 DEF Judge
    <2>10. local'.vertex[0].place = robot
      BY <2>1, <2>4, <2>5 DEF RoundInv, InRound
    <2> QED
      BY <2>1, <2>4, <2>5, <2>8, <2>9, <2>10 DEF RoundInv, InRound
  <1>7. CASE \E leaf \in Ids(local), remaining \in Budgets : Answer(leaf, remaining)
    BY <1>1, <1>7 DEF Answer
  <1>8. CASE \/ \E file \in Files : Boot(file)
             \/ \E source \in {robot} \cup SearchTargets, target \in SearchTargets :
                    StartSearch(source, target)
             \/ SearchLoop \/ SearchEnd
             \/ \E b \in Bounds : SetGlobalBound(b[1], b[2]) \/ SetDynamicBound(b[1], b[2])
             \/ ResetGlobalBound \/ ResetDynamicBound \/ Around
    <2>1. pc' \notin {"building", "built", "evaluated"}
      BY <1>8 DEF Boot, StartSearch, SearchLoop, SearchEnd, SetGlobalBound, SetDynamicBound,
                  ResetGlobalBound, ResetDynamicBound, SpaceBecomes, Around, roundState
    <2> QED
      BY <1>1, <2>1
  <1> QED
    BY <1>2, <1>3, <1>4, <1>5, <1>6, <1>7, <1>8 DEF Next, RoundStep

\* The robot goes along the first part of a path, which may be all of it.
LEMMA TraversedIsPrefix ==
    ASSUME NEW S, NEW path \in Seq(S), Len(path) > 0
    PROVE  \E n \in 1..Len(path) : Traversed(path) = SubSeq(path, 1, n)
  <1> DEFINE far == { i \in DOMAIN path : PathLength(local, SubSeq(path, 1, i)) > TraverseMax }
  <1>1. Len(path) \in 1..Len(path) /\ DOMAIN path = 1..Len(path)
    OBVIOUS
  <1>2. Traversed(path) = IF far = {} THEN path ELSE SubSeq(path, 1, Min(far))
    BY DEF Traversed
  <1>3. far \subseteq 1..Len(path)
    BY <1>1
  <1> HIDE DEF far
  <1>4. CASE far = {}
    <2>1. path = SubSeq(path, 1, Len(path))
      OBVIOUS
    <2> QED
      BY <1>1, <1>2, <1>4, <2>1
  <1>5. CASE far # {}
    <2>1. far \in SUBSET Nat
      BY <1>3
    <2>2. PICK k \in far : \A m \in far : k <= m
      BY <1>5, <2>1, LeastNatural
    <2>3. Min(far) = k
      BY <2>1, <2>2, LeastIsMin
    <2> QED
      BY <1>2, <1>3, <1>5, <2>2, <2>3
  <1> QED
    BY <1>4, <1>5

\* It is a path from the root as well.
LEMMA PrefixFromRoot ==
    ASSUME NEW g, NEW path, FromRoot(g, path), NEW n \in 1..Len(path),
           NEW first, first = SubSeq(path, 1, n)
    PROVE  FromRoot(g, first)
  <1>1. /\ path \in Seq(Ids(g)) /\ path[1] = 0 /\ Len(path) \in Nat
        /\ \A i \in 1..(Len(path) - 1) : {path[i], path[i + 1]} \in g.edges
    <2>1. path \in Seq(Ids(g))
      BY DEF FromRoot
    <2>2. Len(path) \in Nat
      BY <2>1
    <2> QED
      BY <2>2 DEF FromRoot
  <1>2. /\ first \in Seq(Ids(g)) /\ Len(first) = n /\ n \in Nat /\ n > 0
        /\ \A i \in 1..n : first[i] = path[i]
    BY <1>1
  <1>3. ASSUME NEW i \in 1..(n - 1)
        PROVE  {first[i], first[i + 1]} \in g.edges
    <2>1. i \in 1..n /\ i + 1 \in 1..n /\ i \in 1..(Len(path) - 1)
      BY <1>1, <1>2
    <2> QED
      BY <1>1, <1>2, <2>1
  <1>4. first[1] = 0 /\ first # <<>>
    BY <1>1, <1>2
  <1> QED
    BY <1>2, <1>3, <1>4 DEF FromRoot

\* What a step answers to a round.
LocalAnswer ==
    (pc = "evaluated" /\ route'.kind = "local") =>
        /\ Head(route'.poses) = robot
        /\ \A i \in 1..(Len(route'.poses) - 1) :
               /\ PathFree(route'.poses[i], route'.poses[i + 1], ~route'.refined)
               /\ Passes(route'.poses[i], route'.poses[i + 1], Fenced)

\* The path ahead, as it is or refined.
LEMMA ForwardIsSafe ==
    ASSUME RoundInv, IInv, pc = "evaluated", NEW g, NEW leaf \in GoodLeaves(local, rep),
           Forward(g, leaf), route'.kind = "local"
    PROVE  LocalAnswer
  <1> DEFINE whole == ShortestPath(rep, leaf)
             path == Traversed(whole)
             poses == PosesOf(local, path)
             outcomes == IF settings.switches.enhance THEN ImproveFreePath(poses, Fenced)
                         ELSE { [poses |-> poses, ok |-> FALSE] }
  <1>1. Built(local) /\ EdgesFree(local) /\ local \in Graphs /\ local.vertex[0].place = robot
    BY DEF IInv, RoundInv, InRound, Built
  <1>2. leaf \in Ids(local) /\ whole # <<>>
    <2>1. leaf \in Ids(local) /\ Len(whole) > 1
      BY DEF GoodLeaves, LongLeaves, LeafVertices, LeafPath
    <2> QED
      BY <2>1
  <1>3. PICK rank : IsTree(local, 0, rep, rank)
    BY DEF RoundInv
  <1>4. Leads(local, 0, rep, whole, leaf)
    <2>1. 0 \in Ids(local)
      BY <1>1, BuiltGraph
    <2> QED
      BY <1>1, <1>2, <1>3, <2>1, PathLeads
  <1>5. FromRoot(local, whole) /\ whole \in Seq(Ids(local)) /\ Len(whole) > 0
    <2>1. FromRoot(local, whole) /\ whole \in Seq(Ids(local)) /\ whole # <<>>
      BY <1>4 DEF Leads, FromRoot
    <2> HIDE DEF whole
    <2>2. Len(whole) > 0
      BY <2>1
    <2> QED
      BY <2>1, <2>2
  <1> HIDE DEF whole
  <1>6. FromRoot(local, path)
    <2>1. PICK n \in 1..Len(whole) : path = SubSeq(whole, 1, n)
      BY <1>5, TraversedIsPrefix
    <2> HIDE DEF path
    <2> QED
      BY <1>5, <2>1, PrefixFromRoot
  <1> HIDE DEF path
  <1>7. /\ poses \in Seq(Places) /\ Len(poses) > 0 /\ poses[1] = robot
        /\ \A i \in 1..(Len(poses) - 1) : Drivable(poses[i], poses[i + 1])
    BY <1>1, <1>6, PosesFollow
  <1>8. poses \in Courses(robot, Fenced)
    <2> HIDE DEF poses
    <2> QED
      BY <1>7 DEF Courses, Safe, Drivable, PathFree, Passes
  <1>9. PICK o \in outcomes :
           \/ /\ o.ok
              /\ route' = [kind |-> "local", poses |-> o.poses, refined |-> TRUE]
           \/ route' = [kind |-> "local", poses |-> poses, refined |-> FALSE]
    <2>1. ~(PathLength(local, whole) <= MinLength)
      BY DEF Forward, NoRoute, whole
    <2> QED
      BY <2>1 DEF Forward, whole, path
  <1> HIDE DEF poses
  <1>10. CASE route' = [kind |-> "local", poses |-> poses, refined |-> FALSE]
    <2>1. route'.poses = poses /\ route'.refined = FALSE
      BY <1>10
    <2>2. Head(poses) = robot
      BY <1>7
    <2>3. \A i \in 1..(Len(poses) - 1) :
             PathFree(poses[i], poses[i + 1], TRUE) /\ Passes(poses[i], poses[i + 1], Fenced)
      BY <1>7 DEF Drivable, Passes
    <2> QED
      BY <2>1, <2>2, <2>3 DEF LocalAnswer
  <1>11. CASE o.ok /\ route' = [kind |-> "local", poses |-> o.poses, refined |-> TRUE]
    <2>1. o.poses \in Courses(robot, Fenced)
      <3>1. CASE settings.switches.enhance
        BY <1>8, <1>9, <3>1, RefinedIsCourse
      <3>2. CASE ~settings.switches.enhance
        BY <1>8, <1>9, <3>2
      <3> QED
        BY <3>1, <3>2
    <2> DEFINE s == o.poses
    <2>2. route'.poses = s /\ route'.refined = TRUE
      BY <1>11
    <2> HIDE DEF s
    <2>3. /\ s \in Seq(Places) /\ Len(s) > 0 /\ s[1] = robot
          /\ \A i \in 1..(Len(s) - 1) : Safe(s[i], s[i + 1], Fenced)
      BY <2>1 DEF Courses, s
    <2>4. Head(s) = robot
      BY <2>3
    <2> QED
      BY <2>2, <2>3, <2>4 DEF LocalAnswer, Safe
  <1> QED
    BY <1>9, <1>10, <1>11

\* No other branch of the answer is such a path, and no other step is one.
LEMMA LocalAnswers == RoundInv /\ IInv /\ [Next]_localVars => [LocalAnswer]_localVars
  <1> SUFFICES ASSUME RoundInv, IInv, Next, pc = "evaluated", route'.kind = "local"
               PROVE  LocalAnswer
    BY DEF LocalAnswer
  <1>1. PICK leaf \in Ids(local), remaining \in Budgets : Answer(leaf, remaining)
    BY DEF Next, RoundStep, Boot, StartRound, BuildLoop, BuildEnd, Evaluate, StartSearch,
           SearchLoop, SearchEnd, SetGlobalBound, SetDynamicBound, ResetGlobalBound,
           ResetDynamicBound, Around
  <1>2. PICK g : leaf \in GoodLeaves(local, rep) /\ Forward(g, leaf)
    BY <1>1 DEF Answer, Homeward, NoRoute
  <1> QED
    BY <1>2, ForwardIsSafe

-----------------------------------------------------------------------------
(* What an evaluation shows.                                               *)

\* Every vertex in the shortlist has what it shows, no other is a frontier.
ShowsWithin(g, S, h) ==
    \A v \in Ids(g) : LET gain == Gain(g.vertex[v].place) IN
        /\ gain \in Nat
        /\ v \in S => h.vertex[v].gain = gain /\ h.vertex[v].frontier = (gain > 0)
        /\ v \notin S => h.vertex[v].frontier = FALSE

\* computeExplorationGain of a shortlist does that.
LEMMA EvaluatedInShows ==
    ASSUME NEW g, Built(g), NEW S, NEW h, h = EvaluatedIn(g, S)
    PROVE  ShowsWithin(g, S, h)
  <1> SUFFICES ASSUME NEW v \in Ids(g), NEW gain, gain = Gain(g.vertex[v].place)
               PROVE  /\ gain \in Nat
                      /\ v \in S => h.vertex[v].gain = gain /\ h.vertex[v].frontier = (gain > 0)
                      /\ v \notin S => h.vertex[v].frontier = FALSE
    BY DEF ShowsWithin
  <1> DEFINE x == g.vertex[v]
             w == h.vertex[v]
  <1>1. g \in Graphs /\ x \in Vertices
    BY BuiltGraph DEF Built
  <1>2. w = IF v \in S THEN Labelled(g).vertex[v] ELSE Skip(x)
    <2> DEFINE vertex == [u \in Ids(g) |-> IF u \in S THEN Labelled(g).vertex[u]
                                            ELSE Skip(g.vertex[u])]
    <2>1. h = [g EXCEPT !.vertex = vertex]
      BY DEF EvaluatedIn, Skip
    <2>2. vertex[v] = IF v \in S THEN Labelled(g).vertex[v] ELSE Skip(x)
      OBVIOUS
    <2> HIDE DEF vertex
    <2>3. "vertex" \in DOMAIN g
      BY <1>1, SoundGraph DEF Graphs, IsGraph
    <2>4. h.vertex = vertex
      BY <2>1, <2>3
    <2> QED
      BY <2>2, <2>4
  <1>3. Labelled(g).vertex[v].gain = gain /\ Labelled(g).vertex[v].frontier = (gain > 0)
    BY <1>1, LabelledShows
  <1>4. Skip(x).frontier = FALSE
    BY <1>1 DEF Skip, Vertices
  <1>5. gain \in Nat
    BY <1>1, GainIsNatural DEF Vertices
  <1> HIDE DEF w, x
  <1> QED
    BY <1>2, <1>3, <1>4, <1>5 DEF w

\* What a round is judged by is all there is: without a frontier on a path of a
\* leaf, or without a leaf whose path shows something, nothing is shown.
LEMMA NothingIsHidden ==
    ASSUME NEW g, Built(g), g.idCount >= 1, NEW r, NEW rank, IsTree(g, 0, r, rank),
           \A v \in Ids(g) : r.distance[v] < Inf, NEW S, NEW h, h = FullyEvaluated(g, r, S),
           ~FrontierExists(h, r) \/ GoodLeaves(h, r) = {}
    PROVE  \A v \in Ids(h) : Gain(h.vertex[v].place) = 0
  <1> DEFINE shown(T) == EvaluatedIn(g, T)
             S0 == IF FrontierExists(shown(S), r) THEN S ELSE Ids(g)
  <1>1. h = shown(S0)
    BY DEF FullyEvaluated
  <1>2. /\ Ids(h) = Ids(g) /\ h.edges = g.edges /\ h.idCount = g.idCount /\ h \in Graphs
        /\ \A v \in Ids(g) : h.vertex[v].place = g.vertex[v].place
    BY <1>1, EvaluationKeepsEdges DEF Built
  <1>3. /\ \A v \in Ids(g) : Gain(g.vertex[v].place) \in Nat
        /\ \A v \in Ids(g) \cap S0 : /\ h.vertex[v].gain = Gain(g.vertex[v].place)
                                    /\ h.vertex[v].frontier = (Gain(g.vertex[v].place) > 0)
        /\ \A v \in Ids(g) \ S0 : h.vertex[v].frontier = FALSE
    <2> HIDE DEF S0
    <2>1. h = EvaluatedIn(g, S0)
      BY <1>1
    <2>2. ShowsWithin(g, S0, h)
      BY <2>1, EvaluatedInShows
    <2> QED
      BY <2>2 DEF ShowsWithin
  <1>4. IsTree(h, 0, r, rank)
    BY <1>2, TreeOfSamePlaces
  <1>5. 0 \in Ids(h) /\ Cardinality(Ids(h)) >= 2
    <2>1. g.idCount \in Nat /\ Ids(g) = 0..g.idCount
      BY BuiltGraph
    <2>2. Ids(h) = 0..h.idCount /\ Cardinality(Ids(h)) = h.idCount + 1
      BY <1>2, SoundGraph
    <2> QED
      BY <1>2, <2>1, <2>2
  <1>6. \A leaf : LeafPath(r, leaf) \in Seq(Ids(h))
    <2>1. IsReport(r, Ids(h)) /\ IsFiniteSet(Ids(h))
      BY <1>2, <1>4, TreeReports, SoundGraph
    <2> QED
      BY <2>1, PathIsOfVertices DEF LeafPath
  <1>7. \A leaf : \A i \in DOMAIN LeafPath(r, leaf) : LeafPath(r, leaf)[i] \in Ids(g)
    BY <1>2, <1>6
  <1>8. \A leaf \in LongLeaves(h, r) :
           (\E i \in DOMAIN LeafPath(r, leaf) : h.vertex[LeafPath(r, leaf)[i]].gain > 0)
               => leaf \in GoodLeaves(h, r)
    BY <1>2, <1>6, GainOfPath DEF GoodLeaves
  <1> HIDE DEF S0
  <1>9. ASSUME NEW leaf \in LongLeaves(h, r), NEW i \in DOMAIN LeafPath(r, leaf),
               LeafPath(r, leaf)[i] \in S0, Gain(g.vertex[LeafPath(r, leaf)[i]].place) > 0
        PROVE  FALSE
    <2> DEFINE v == LeafPath(r, leaf)[i]
    <2>1. v \in Ids(g)
      BY <1>7
    <2>2. h.vertex[v].gain > 0 /\ h.vertex[v].frontier
      BY <1>3, <1>9, <2>1
    <2>3. leaf \in GoodLeaves(h, r)
      BY <1>8, <2>2
    <2>4. FrontierExists(h, r)
      BY <2>2 DEF FrontierExists
    <2> QED
      BY <2>3, <2>4
  <1>10. CASE FrontierExists(shown(S), r)
    <2>1. S0 = S /\ h = shown(S)
      BY <1>1, <1>10 DEF S0
    <2>2. PICK leaf \in LongLeaves(h, r) : \E i \in DOMAIN LeafPath(r, leaf) :
             h.vertex[LeafPath(r, leaf)[i]].frontier
      BY <1>10, <2>1 DEF FrontierExists
    <2>3. PICK i \in DOMAIN LeafPath(r, leaf) : h.vertex[LeafPath(r, leaf)[i]].frontier
      BY <2>2
    <2> DEFINE v == LeafPath(r, leaf)[i]
    <2>4. v \in Ids(g)
      BY <1>7
    <2>5. v \in S0 /\ Gain(g.vertex[v].place) > 0
      BY <1>3, <2>3, <2>4
    <2> QED
      BY <1>9, <2>5
  <1>11. CASE ~FrontierExists(shown(S), r)
    <2>1. S0 = Ids(g)
      BY <1>11 DEF S0
    <2> SUFFICES ASSUME NEW v \in Ids(h), Gain(h.vertex[v].place) # 0
                 PROVE  FALSE
      OBVIOUS
    <2>2. v \in Ids(g) /\ Gain(g.vertex[v].place) > 0 /\ v \in S0
      BY <1>2, <1>3, <2>1
    <2>3. PICK leaf \in LongLeaves(h, r) : \E i \in DOMAIN LeafPath(r, leaf) :
             LeafPath(r, leaf)[i] = v
      BY <1>2, <1>4, <1>5, LeavesCover
    <2> QED
      BY <1>9, <2>2, <2>3
  <1> QED
    BY <1>10, <1>11

-----------------------------------------------------------------------------
(* A round is judged by all of it.                                         *)

\* No way along a graph of so many vertices is as long as the largest double.
Roomy(n) ==
    \E far \in 0..Inf : /\ \A p, q \in Places : Dist(p, q) <= far
                        /\ far * (2 * n + 1) < Inf

\* The limits of a round are those of the file, and its graph stays within
\* them; the counter of rounds without gain stays below the one that counts.
JudgeInv ==
    /\ lowGain \in 0..(MaxLowGainIters - 1)
    /\ pc \notin {"boot", "shutdown"} =>
           /\ Roomy(settings.planning.vertices)
           /\ limits.vertices <= 2 * settings.planning.vertices
    /\ pc = "shutdown" \/ pc = "boot" => limits.vertices = 0
    /\ pc = "built" => local.idCount >= 1 /\ local.idCount <= 2 * settings.planning.vertices

\* setBoundMode: in no mode more than twice as many.
LEMMA LimitsAreNear ==
    ASSUME NEW planning, IsPlanning(planning), NEW before, IsLimits(before), NEW mode,
           before.vertices <= 2 * planning.vertices
    PROVE  Limits(planning, mode, before).vertices <= 2 * planning.vertices
  <1> DEFINE n == planning.vertices
  <1>1. n \in Nat
    BY DEF IsPlanning
  <1> HIDE DEF n
  <1>2. n <= 2 * n /\ (13 * n) \div 10 <= 2 * n /\ (169 * n) \div 100 <= 2 * n
    BY <1>1
  <1> QED
    BY <1>2 DEF Limits, n

\* Every step keeps it.
LEMMA JudgeStays == JudgeInv /\ IInv /\ [Next]_localVars => JudgeInv'
  <1> SUFFICES ASSUME JudgeInv, IInv, [Next]_localVars
               PROVE  JudgeInv'
    OBVIOUS
  <1>0. MaxLowGainIters \in Nat /\ MaxLowGainIters > 0 /\ lowGain \in 0..(MaxLowGainIters - 1)
    BY RoundAssumption DEF JudgeInv
  <1>1. CASE UNCHANGED localVars
    BY <1>1 DEF localVars, vars, robotVars, roundVars, roundState, nodeState, JudgeInv, Roomy
  <1>2. CASE \E file \in Files : Boot(file)
    <2>1. PICK file \in Files : Boot(file)
      BY <1>2
    <2>2. lowGain' = lowGain /\ pc = "boot" /\ limits.vertices = 0
      BY <2>1 DEF Boot, JudgeInv
    <2>3. CASE ~Loads(file)
      BY <1>0, <2>1, <2>2, <2>3 DEF Boot, JudgeInv
    <2>4. CASE Loads(file)
      <3>1. /\ settings' = Settings(file) /\ pc' = "idle"
            /\ limits' = Limits(Settings(file).planning, "kExtendedBound", limits)
        BY <2>1, <2>4 DEF Boot
      <3>2. Roomy(Settings(file).planning.vertices)
        BY <2>4, RoundAssumption DEF Roomy
      <3>3. IsPlanning(Settings(file).planning) /\ IsLimits(limits)
        BY SettingsCount DEF IsSettings, IInv
      <3>4. limits.vertices <= 2 * Settings(file).planning.vertices
        BY <2>2, <3>3 DEF IsPlanning
      <3>5. limits'.vertices <= 2 * settings'.planning.vertices
        BY <3>1, <3>3, <3>4, LimitsAreNear
      <3> QED
        BY <1>0, <2>2, <3>1, <3>2, <3>5 DEF JudgeInv, Roomy
    <2> QED
      BY <2>3, <2>4
  <1>3. ASSUME pc \notin {"boot", "shutdown"}, pc' \notin {"boot", "shutdown"},
               lowGain' \in 0..(MaxLowGainIters - 1),
               settings'.planning = settings.planning, limits' = limits,
               pc' = "built" => local'.idCount >= 1
                                /\ local'.idCount <= 2 * settings.planning.vertices
        PROVE  JudgeInv'
    BY <1>3 DEF JudgeInv, Roomy
  <1>4. CASE \E mode \in Modes : StartRound(mode)
    <2>1. PICK mode \in Modes : StartRound(mode)
      BY <1>4
    <2>2. /\ pc = "idle" /\ pc' = "building" /\ settings' = settings /\ lowGain' = lowGain
          /\ limits' = Limits(settings.planning, mode, limits)
      BY <2>1 DEF StartRound
    <2>3. IsPlanning(settings.planning) /\ IsLimits(limits)
      BY <2>2 DEF IInv, IsSettings
    <2>4. limits'.vertices <= 2 * settings.planning.vertices
      BY <2>2, <2>3, LimitsAreNear DEF JudgeInv
    <2> QED
      BY <1>0, <2>2, <2>4 DEF JudgeInv, Roomy
  <1>5. CASE BuildEnd
    <2>1. /\ pc = "building" /\ pc' \in {"built", "idle"} /\ settings' = settings
          /\ limits' = limits /\ lowGain' = lowGain /\ local' = local
      BY <1>5 DEF BuildEnd, nodeState
    <2>2. Built(local) /\ CountAgrees /\ IsLimits(limits) /\ IsPlanning(settings.planning)
      BY <2>1 DEF IInv, InRound, IsSettings
    <2>3. local.idCount \in Nat /\ local.idCount <= 2 * settings.planning.vertices
      <3>1. /\ local.idCount \in Nat /\ limits.vertices \in Nat /\ settings.planning.vertices \in Nat
            /\ local.idCount + 1 <= LargerOf(limits.vertices, 1)
        BY <2>2, BuiltGraph DEF CountAgrees, IsLimits, IsPlanning
      <3>2. limits.vertices <= 2 * settings.planning.vertices
        BY <2>1 DEF JudgeInv
      <3> QED
        BY <3>1, <3>2 DEF LargerOf
    <2>4. pc' = "built" => local.idCount >= 1
      <3> SUFFICES ASSUME pc' = "built"
                   PROVE  local.idCount >= 1
        OBVIOUS
      <3>1. Cardinality(Ids(local)) > 1
        BY <1>5 DEF BuildEnd
      <3>2. Cardinality(Ids(local)) = local.idCount + 1
        BY <2>2, SoundGraph DEF Built
      <3> QED
        BY <2>3, <3>1, <3>2
    <2> QED
      BY <1>0, <1>3, <2>1, <2>3, <2>4
  <1>6. CASE Evaluate
    <2>1. /\ pc = "built" /\ pc' \in {"idle", "evaluated"} /\ settings' = settings
          /\ limits' = limits
      BY <1>6 DEF Evaluate, Judge, nodeState
    <2>2. PICK tries \in Nat : lowGain' = IF tries >= MaxLowGainIters THEN 0 ELSE tries
      <3>1. PICK g, r : Judge(g, r)
        BY <1>6 DEF Evaluate
      <3> DEFINE barren == ~FrontierExists(g, r) \/ GoodLeaves(g, r) = {}
      <3>2. lowGain' = IF Tries(barren) >= MaxLowGainIters THEN 0 ELSE Tries(barren)
        BY <3>1 DEF Judge
      <3> HIDE DEF barren
      <3>3. Tries(barren) \in Nat
        BY <1>0 DEF Tries, LargerOf
      <3> QED
        BY <3>2, <3>3
    <2> QED
      BY <1>0, <1>3, <2>1, <2>2
  <1>7. CASE \/ BuildLoop
             \/ \E leaf \in Ids(local), remaining \in Budgets : Answer(leaf, remaining)
             \/ \E source \in {robot} \cup SearchTargets, target \in SearchTargets :
                    StartSearch(source, target)
             \/ SearchLoop \/ SearchEnd
    <2>1. /\ pc \notin {"boot", "shutdown"} /\ pc' \notin {"boot", "shutdown", "built"}
          /\ settings' = settings /\ limits' = limits /\ lowGain' = lowGain
      BY <1>7 DEF BuildLoop, Answer, StartSearch, SearchLoop, SearchEnd, nodeState, roundState
    <2> QED
      BY <1>0, <1>3, <2>1
  <1>8. CASE \/ \E b \in Bounds : SetGlobalBound(b[1], b[2]) \/ SetDynamicBound(b[1], b[2])
             \/ ResetGlobalBound \/ ResetDynamicBound \/ Around
    <2>1. /\ pc = "idle" /\ pc' = "idle" /\ limits' = limits /\ lowGain' = lowGain
      BY <1>8 DEF SetGlobalBound, SetDynamicBound, ResetGlobalBound, ResetDynamicBound,
                  SpaceBecomes, Around, nodeState, roundState
    <2>2. settings'.planning = settings.planning
      <3>1. IsSettings(settings)
        BY <2>1 DEF IInv
      <3>2. \/ settings' = settings
            \/ \E global, center :
                   settings' = [settings EXCEPT !.global = global, !.center = center]
        BY <1>8 DEF SetGlobalBound, SetDynamicBound, ResetGlobalBound, ResetDynamicBound,
                    SpaceBecomes, Around, nodeState
      <3> QED
        BY <3>1, <3>2 DEF IsSettings
    <2> QED
      BY <1>0, <1>3, <2>1, <2>2
  <1> QED
    BY <1>1, <1>2, <1>4, <1>5, <1>6, <1>7, <1>8 DEF Next, RoundStep

\* What an evaluation may conclude.
HonestAnswer ==
    (pc = "built" /\ (lowGain' > lowGain \/ route'.kind = "global")) =>
        \A v \in Ids(local) : Gain(local.vertex[v].place) = 0

\* Every step but the evaluation leaves a graph that waits for one.
LEMMA HonestAnswers == JudgeInv /\ IInv /\ [Next]_localVars => [HonestAnswer]_localVars
  <1> SUFFICES ASSUME JudgeInv, IInv, Next, pc = "built",
                      lowGain' > lowGain \/ route'.kind = "global"
               PROVE  \A v \in Ids(local) : Gain(local.vertex[v].place) = 0
    BY DEF HonestAnswer
  <1>1. Evaluate
    BY DEF Next, RoundStep, Boot, StartRound, BuildLoop, BuildEnd, Answer, StartSearch,
           SearchLoop, SearchEnd, SetGlobalBound, SetDynamicBound, ResetGlobalBound,
           ResetDynamicBound, Around
  <1>2. PICK r, S : /\ r = ShortestPaths(local, 0)
                    /\ local' = FullyEvaluated(local, r, S) /\ Judge(local', r)
    BY <1>1 DEF Evaluate
  <1> DEFINE h == local'
             barren == ~FrontierExists(h, r) \/ GoodLeaves(h, r) = {}
  <1>3. /\ Built(local) /\ local \in Graphs /\ local.idCount >= 1 /\ local.idCount \in Nat
        /\ Ids(local) = 0..local.idCount /\ 0 \in Ids(local)
    BY BuiltGraph DEF IInv, InRound, JudgeInv, Built
  <1>4. barren
    <2>1. /\ MaxLowGainIters \in Nat /\ MaxLowGainIters > 0
          /\ lowGain \in 0..(MaxLowGainIters - 1)
      BY RoundAssumption DEF JudgeInv
    <2>2. LET tries == Tries(barren) IN
          /\ lowGain' = IF tries >= MaxLowGainIters THEN 0 ELSE tries
          /\ route'.kind = "global" => tries >= MaxLowGainIters \/ GoodLeaves(h, r) = {}
      BY <1>2 DEF Judge, NoRoute
    <2> SUFFICES ASSUME ~barren
                 PROVE  FALSE
      OBVIOUS
    <2>3. GoodLeaves(h, r) # {}
      OBVIOUS
    <2>4. Tries(barren) = LargerOf(lowGain - 1, 0)
      BY DEF Tries
    <2> HIDE DEF barren, h
    <2>5. Tries(barren) < MaxLowGainIters /\ Tries(barren) <= lowGain
      BY <2>1, <2>4 DEF LargerOf
    <2> HIDE DEF Tries
    <2>6. Tries(barren) \in Nat
      BY <2>1, <2>4 DEF LargerOf
    <2> QED
      BY <2>1, <2>2, <2>3, <2>5, <2>6
  <1>5. Cardinality(Ids(local)) >= 2
    <2>1. Cardinality(Ids(local)) = local.idCount + 1
      BY <1>3, SoundGraph
    <2> QED
      BY <1>3, <2>1
  <1>6. \A v \in Ids(local) : r.distance[v] < Inf
    <2> DEFINE n == settings.planning.vertices
               m == local.idCount
    <2>1. n \in Nat /\ m \in Nat /\ m <= 2 * n /\ Roomy(n)
      BY <1>3 DEF JudgeInv, IInv, IsSettings, IsPlanning
    <2>2. PICK far \in 0..Inf : /\ \A p, q \in Places : Dist(p, q) <= far
                                /\ far * (2 * n + 1) < Inf
      BY <2>1 DEF Roomy
    <2> HIDE DEF n, m
    <2>3. far \in Nat /\ Inf \in Nat
      BY DEF Inf
    <2>4. far * (m + 1) < Inf
      <3> DEFINE a == m + 1
                 b == 2 * n + 1
      <3>1. a \in Nat /\ b \in Nat /\ b - a \in Nat
        BY <2>1
      <3> HIDE DEF a, b
      <3>2. far * (b - a) \in Nat /\ far * b = far * a + far * (b - a) /\ far * a \in Nat
        BY <2>3, <3>1
      <3>3. far * b < Inf
        BY <2>2 DEF b
      <3>4. far * a < Inf
        BY <2>3, <3>2, <3>3
      <3> QED
        BY <3>4 DEF a
    <2>5. \A p, q \in Places : Dist(p, q) <= far
      BY <2>2
    <2>6. local \in Graphs /\ Linked(local)
      BY <1>3 DEF Built
    <2> QED
      BY <1>2, <1>5, <2>3, <2>4, <2>5, <2>6, SearchReaches DEF m
  <1>7. PICK rank : IsTree(local, 0, r, rank)
    BY <1>2, <1>3, <1>5, SearchIsTree
  <1>8. \A v \in Ids(h) : Gain(h.vertex[v].place) = 0
    BY <1>2, <1>3, <1>4, <1>6, <1>7, NothingIsHidden
  <1>9. PICK T : h = EvaluatedIn(local, T)
    BY <1>2 DEF FullyEvaluated
  <1>10. Ids(h) = Ids(local) /\ \A v \in Ids(local) : h.vertex[v].place = local.vertex[v].place
    BY <1>3, <1>9, EvaluationKeepsEdges
  <1> QED
    BY <1>8, <1>10

-----------------------------------------------------------------------------
(* What is kept of each kind.                                              *)

\* The joining of poses leaves poses.
LEMMA JoinedPoses ==
    ASSUME NEW path \in Seq(Places), Len(path) > 0, NEW fenced
    PROVE  JoinShort(path, fenced) \in Seq(Places) /\ Len(JoinShort(path, fenced)) > 0
  <1> DEFINE n == Len(path)
             rounds == [round \in DOMAIN path |-> round]
             joinable(s) == { i \in 1..(Len(s) - 2) : Joinable(s, i, fenced) }
             next(s) == IF joinable(s) = {} THEN s ELSE RemoveAt(s, Min(joinable(s)) + 1)
             G == { s \in Seq(Places) : Len(s) > 0 }
             step == [q \in G \X (1..n) |-> next(q[1])]
             Folds(f) == f = [x \in SUBSET DOMAIN rounds |->
                                IF x = {} THEN path ELSE next(f[x \ {Max(x)}])]
  <1>1. n \in Nat /\ DOMAIN rounds = 1..n
    OBVIOUS
  <1>2. JoinShort(path, fenced) = (CHOOSE f : Folds(f))[DOMAIN rounds]
    BY DEF JoinShort, FoldLeft, MapThenFoldSet
  <1>3. ASSUME NEW s \in G
        PROVE  next(s) \in G
    <2>1. CASE joinable(s) = {}
      BY <2>1
    <2>2. CASE joinable(s) # {}
      <3> DEFINE S == joinable(s)
      <3>1. S \in SUBSET Nat /\ S # {}
        BY <2>2
      <3> HIDE DEF S
      <3>2. PICK k \in S : \A m \in S : k <= m
        BY <3>1, LeastNatural
      <3>3. Min(S) = k
        BY <3>1, <3>2, LeastIsMin
      <3>4. k \in 1..(Len(s) - 2) /\ Len(s) \in Nat
        BY <3>2 DEF S
      <3>5. k + 1 \in 1..Len(s) /\ Len(s) - 1 > 0
        BY <3>4
      <3>6. RemoveAt(s, k + 1) \in Seq(Places) /\ Len(RemoveAt(s, k + 1)) = Len(s) - 1
        BY <3>5, Removed
      <3> QED
        BY <2>2, <3>3, <3>5, <3>6 DEF S
    <2> QED
      BY <2>1, <2>2
  <1>4. path \in G
    OBVIOUS
  <1> HIDE DEF next, G, rounds, n
  <1>5. step \in [G \X (1..n) -> G]
    BY <1>3
  <1>6. PICK it \in [SUBSET (1..n) -> G] : IsFold(it, n, path, step)
    <2> HIDE DEF step
    <2> QED
      BY <1>1, <1>4, <1>5, FoldExists
  <1>7. Folds(it)
    <2> SUFFICES ASSUME NEW x \in SUBSET (1..n), x # {}
                 PROVE  step[<<it[x \ {Max(x)}], Max(x)>>] = next(it[x \ {Max(x)}])
      BY <1>1, <1>6 DEF IsFold
    <2>1. Max(x) \in 1..n /\ it[x \ {Max(x)}] \in G
      BY <1>1, MaxUpTo
    <2> QED
      BY <2>1
  <1>8. PICK f : Folds(f) /\ JoinShort(path, fenced) = f[1..n]
    <2> HIDE DEF Folds
    <2> QED
      BY <1>1, <1>2, <1>7
  <1>9. \A x \in SUBSET (1..n) : f[x] = IF x = {} THEN path ELSE next(f[x \ {Max(x)}])
    BY <1>1, <1>8
  <1> HIDE DEF Folds, step
  <1>10. \A m \in 1..n : f[1..(m - 1)] \in G => f[1..m] \in G
    <2> SUFFICES ASSUME NEW m \in 1..n, f[1..(m - 1)] \in G
                 PROVE  f[1..m] \in G
      OBVIOUS
    <2>1. m \in Nat /\ m > 0 /\ 1..m \in SUBSET (1..n)
      BY <1>1
    <2>2. 1..m # {} /\ Max(1..m) = m /\ (1..m) \ {Max(1..m)} = 1..(m - 1)
      BY <2>1, MaxOfFirst
    <2>3. f[1..m] = next(f[1..(m - 1)])
      BY <1>9, <2>1, <2>2
    <2> QED
      BY <1>3, <2>3
  <1>11. f[{}] \in G
    BY <1>4, <1>9
  <1>12. JoinShort(path, fenced) \in G
    BY <1>1, <1>8, <1>10, <1>11, FoldKeeps
  <1> QED
    BY <1>12 DEF G

\* So does the refinement, of a path that may meet obstacles too.
LEMMA RefinedPoses ==
    ASSUME NEW path \in Seq(Places), Len(path) > 0, NEW fenced,
           NEW o \in ImproveFreePath(path, fenced)
    PROVE  o.poses \in Seq(Places)
  <1> DEFINE joined == JoinShort(path, fenced)
             n == Len(joined) - 1
             seq == [i \in 1..(Len(joined) - 1) |-> i + 1]
             next(S, i) == UNION { RefinePose(joined, i, s, fenced) : s \in S }
             base == { [poses |-> <<joined[1]>>, ok |-> TRUE] }
             refined == FoldLeft(next, base, seq)
             R == [poses : Seq(Places), ok : BOOLEAN]
             G == SUBSET R
             step == [q \in G \X (1..n) |-> next(q[1], seq[q[2]])]
             Folds(f) == f = [x \in SUBSET DOMAIN seq |->
                                IF x = {} THEN base ELSE next(f[x \ {Max(x)}], seq[Max(x)])]
  <1>1. joined \in Seq(Places) /\ Len(joined) > 0
    BY JoinedPoses
  <1> HIDE DEF joined
  <1>2. joined \in Seq(Places) /\ Len(joined) \in Nat /\ Len(joined) > 0 /\ joined[1] \in Places
    BY <1>1
  <1>3. CASE Len(joined) <= 2
    <2>1. o = [poses |-> path, ok |-> FALSE]
      BY <1>3 DEF ImproveFreePath, joined
    <2> QED
      BY <2>1
  <1>4. CASE ~(Len(joined) <= 2)
    <2>1. o \in refined
      BY <1>4 DEF ImproveFreePath, joined
    <2>2. /\ n \in Nat /\ DOMAIN seq = 1..n /\ \A j \in 1..n : seq[j] = j + 1 /\ j + 1 \in 1..Len(joined)
      BY <1>2
    <2>3. refined = (CHOOSE f : Folds(f))[DOMAIN seq]
      BY DEF FoldLeft, MapThenFoldSet
    <2>4. ASSUME NEW S \in G, NEW j \in 1..n
          PROVE  next(S, seq[j]) \in G
      <3> SUFFICES ASSUME NEW s \in S, NEW t \in RefinePose(joined, seq[j], s, fenced)
                   PROVE  t \in R
        OBVIOUS
      <3>1. s \in R /\ joined[seq[j]] \in Places
        BY <1>2, <2>2
      <3>2. PICK p, ok : /\ t = [poses |-> Append(s.poses, p), ok |-> ok] /\ ok \in BOOLEAN
                         /\ \/ p = joined[seq[j]]
                            \/ p \in Places /\ Clear(joined, seq[j], Last(s.poses), p, fenced)
        BY <3>1, RefinedPose
      <3>3. p \in Places
        BY <3>1, <3>2
      <3>4. Append(s.poses, p) \in Seq(Places)
        BY <3>1, <3>3
      <3> QED
        BY <3>2, <3>4
    <2>5. base \in G
      BY <1>2
    <2> HIDE DEF next, base, G, seq, n, refined, R
    <2>6. step \in [G \X (1..n) -> G]
      BY <2>4
    <2>7. PICK it \in [SUBSET (1..n) -> G] : IsFold(it, n, base, step)
      <3> HIDE DEF step
      <3> QED
        BY <2>2, <2>5, <2>6, FoldExists
    <2>8. Folds(it)
      <3> SUFFICES ASSUME NEW x \in SUBSET (1..n), x # {}
                   PROVE  step[<<it[x \ {Max(x)}], Max(x)>>]
                              = next(it[x \ {Max(x)}], seq[Max(x)])
        BY <2>2, <2>7 DEF IsFold
      <3>1. Max(x) \in 1..n /\ it[x \ {Max(x)}] \in G
        BY <2>2, MaxUpTo
      <3> QED
        BY <3>1
    <2>9. PICK f : Folds(f) /\ refined = f[1..n]
      <3> HIDE DEF Folds
      <3> QED
        BY <2>2, <2>3, <2>8
    <2>10. \A x \in SUBSET (1..n) :
             f[x] = IF x = {} THEN base ELSE next(f[x \ {Max(x)}], seq[Max(x)])
      BY <2>2, <2>9
    <2> HIDE DEF Folds, step
    <2>11. \A m \in 1..n : f[1..(m - 1)] \in G => f[1..m] \in G
      <3> SUFFICES ASSUME NEW m \in 1..n, f[1..(m - 1)] \in G
                   PROVE  f[1..m] \in G
        OBVIOUS
      <3>1. m \in Nat /\ m > 0 /\ 1..m \in SUBSET (1..n)
        BY <2>2
      <3>2. 1..m # {} /\ Max(1..m) = m /\ (1..m) \ {Max(1..m)} = 1..(m - 1)
        BY <3>1, MaxOfFirst
      <3>3. f[1..m] = next(f[1..(m - 1)], seq[m])
        BY <2>10, <3>1, <3>2
      <3> QED
        BY <2>4, <3>3
    <2>12. f[{}] \in G
      BY <2>5, <2>10
    <2>13. f[1..n] \in G
      BY <2>2, <2>11, <2>12, FoldKeeps
    <2> QED
      BY <2>1, <2>9, <2>13 DEF G, R
  <1> QED
    BY <1>3, <1>4

\* The poses of a path of vertices.
LEMMA PosesArePlaces ==
    ASSUME NEW g \in Graphs, NEW path \in Seq(Ids(g))
    PROVE  PosesOf(g, path) \in Seq(Places) /\ Len(PosesOf(g, path)) = Len(path)
  <1> DEFINE n == Len(path)
             poses == PosesOf(g, path)
  <1>1. n \in Nat /\ DOMAIN path = 1..n /\ \A i \in 1..n : path[i] \in Ids(g)
    OBVIOUS
  <1>2. \A i \in 1..n : g.vertex[path[i]].place \in Places
    BY <1>1, SoundGraph
  <1>3. poses = [i \in 1..n |-> g.vertex[path[i]].place]
    BY <1>1 DEF PosesOf
  <1> HIDE DEF n, poses
  <1>4. poses \in Seq(Places) /\ Len(poses) = n
    BY <1>1, <1>2, <1>3
  <1> QED
    BY <1>4 DEF n, poses

\* What surrounds the node.
AroundInv ==
    /\ known \subseteq Places /\ robot \in Free /\ lastMark \in Free
    /\ queue \in Seq(Free) /\ Len(queue) <= QueueMax
    /\ prev \in [id : -1..(MaxVertices - 1), place : Places]
    /\ history \subseteq Free /\ closed \subseteq Places
    /\ pending \in BOOLEAN /\ loaded \in BOOLEAN /\ cut \in BOOLEAN

\* Places, sightings and flags stay what they are.
LEMMA AroundStays == AroundInv /\ [Next]_localVars => AroundInv'
  <1> SUFFICES ASSUME AroundInv, [Next]_localVars
               PROVE  AroundInv'
    OBVIOUS
  <1>1. ASSUME NEW p \in Places
        PROVE  StartupArea(p) \subseteq Places /\ View(p) \subseteq Places
    BY SpaceAssumption DEF StartupArea, View
  <1>2. robot \in Places /\ Free \subseteq Places
    BY SpaceAssumption DEF AroundInv
  <1>3. ASSUME known' = known \/ known' = known \cup StartupArea(robot), pending' \in BOOLEAN,
               UNCHANGED <<robot, queue, prev, lastMark, history, mapVars>>
        PROVE  AroundInv'
    BY <1>1, <1>2, <1>3 DEF AroundInv, mapVars
  <1>4. CASE \E mode \in Modes : StartRound(mode)
    BY <1>3, <1>4 DEF StartRound
  <1>5. CASE RoundStep
    <2>1. pending \in BOOLEAN
      BY DEF AroundInv
    <2> QED
      BY <1>3, <1>5, <2>1
         DEF RoundStep, BuildLoop, BuildEnd, Evaluate, Answer, robotVars, roundVars
  <1>6. CASE \/ UNCHANGED localVars
             \/ \E file \in Files : Boot(file)
             \/ \E source \in {robot} \cup SearchTargets, target \in SearchTargets :
                    StartSearch(source, target)
             \/ SearchLoop \/ SearchEnd
             \/ \E b \in Bounds : SetGlobalBound(b[1], b[2]) \/ SetDynamicBound(b[1], b[2])
             \/ ResetGlobalBound \/ ResetDynamicBound
    <2>1. UNCHANGED <<robotVars, roundVars, mapVars>>
      BY <1>6 DEF localVars, vars, Boot, StartSearch, SearchLoop, SearchEnd, SetGlobalBound,
                  SetDynamicBound, ResetGlobalBound, ResetDynamicBound, SpaceBecomes
    <2> QED
      BY <2>1 DEF AroundInv, robotVars, roundVars, mapVars
  <1>7. CASE \E p \in Free : SetState(p)
    <2>1. PICK p \in Free : SetState(p)
      BY <1>7
    <2>2. /\ robot' = p /\ UNCHANGED <<prev, lastMark, history, roundVars, mapVars>>
          /\ known' = known \cup View(p)
                            \cup (IF triggers < AugmentTimes THEN StartupArea(p) ELSE {})
          /\ queue' = Append(IF Len(queue) >= QueueMax THEN Tail(queue) ELSE queue, p)
      BY <2>1 DEF SetState
    <2>3. known' \subseteq Places
      BY <1>1, <1>2, <2>2 DEF AroundInv
    <2>4. queue \in Seq(Free) /\ Len(queue) <= QueueMax /\ QueueMax \in Nat \ {0}
      BY BoundAssumption DEF AroundInv
    <2>5. queue' \in Seq(Free) /\ Len(queue') <= QueueMax
      <3>1. CASE Len(queue) >= QueueMax
        <4>1. queue # <<>>
          BY <2>4, <3>1
        <4>2. Tail(queue) \in Seq(Free) /\ Len(Tail(queue)) = Len(queue) - 1
          BY <2>4, <4>1
        <4>3. queue' = Append(Tail(queue), p)
          BY <2>2, <3>1
        <4> QED
          BY <2>4, <4>2, <4>3
      <3>2. CASE ~(Len(queue) >= QueueMax)
        BY <2>2, <2>4, <3>2
      <3> QED
        BY <3>1, <3>2
    <2> QED
      BY <2>2, <2>3, <2>5 DEF AroundInv, roundVars, mapVars
  <1>8. CASE \E zone \in Zones : AddZone(zone, zone)
    <2>1. PICK zone \in Zones : AddZone(zone, zone)
      BY <1>8
    <2>2. zone \subseteq Places
      BY BoundAssumption
    <2>3. /\ closed' = closed \cup zone /\ cut' = (cut \/ graph' # graph)
          /\ UNCHANGED <<robotVars, roundVars, loaded>>
      BY <2>1 DEF AddZone
    <2>4. closed' \subseteq Places /\ cut' \in BOOLEAN
      BY <2>2, <2>3 DEF AroundInv
    <2> QED
      BY <2>3, <2>4 DEF AroundInv, robotVars, roundVars
  <1> QED
    BY <1>4, <1>5, <1>6, <1>7, <1>8 DEF Next, Around

\* The map and the local graph, and the report about it.
GraphsInv ==
    /\ graph \in Graphs /\ Fits(graph)
    /\ local \in Graphs /\ IsReport(rep, Ids(local))
    /\ pc \in {"building", "built"} => rep = NoReport

\* What is said of an answer that was given.
IsRoute(r) ==
    /\ r.kind \in {"none", "local", "short", "landing", "homing", "global", "search"}
    /\ r.poses \in Seq(Places)

\* An answer without a path.
LEMMA PathlessRoute ==
    /\ IsRoute(NoRoute)
    /\ \A kind \in {"none", "local", "short", "landing", "homing", "global", "search"} :
           IsRoute([NoRoute EXCEPT !.kind = kind])
  BY DEF IsRoute, NoRoute

\* The path ahead, and the map with it committed.
LEMMA ForwardIsKept ==
    ASSUME GraphsInv, NEW g \in Graphs, NEW leaf \in GoodLeaves(local, rep), Forward(g, leaf)
    PROVE  graph' \in Graphs /\ IsRoute(route')
  <1> DEFINE whole == ShortestPath(rep, leaf)
             path == Traversed(whole)
             poses == PosesOf(local, path)
             bare(p) == [i \in DOMAIN p |-> Vertex(p[i])]
             answer(p, refined) == [kind |-> "local", poses |-> p, refined |-> refined]
             outcomes == IF settings.switches.enhance THEN ImproveFreePath(poses, Fenced)
                         ELSE { [poses |-> poses, ok |-> FALSE] }
  <1>1. local \in Graphs /\ IsReport(rep, Ids(local)) /\ IsFiniteSet(Ids(local))
    BY SoundGraph DEF GraphsInv
  <1>2. whole \in Seq(Ids(local)) /\ Len(whole) > 0
    <2>1. whole \in Seq(Ids(local))
      BY <1>1, PathIsOfVertices
    <2>2. Len(whole) > 1
      BY DEF GoodLeaves, LongLeaves, LeafPath
    <2> HIDE DEF whole
    <2> QED
      BY <2>1, <2>2
  <1>3. \/ graph' = g /\ route' = [NoRoute EXCEPT !.kind = "short"]
        \/ \E o \in outcomes :
              \/ route' = answer(o.poses, TRUE) /\ graph' = CommitVerifiedPath(g, bare(o.poses))
              \/ /\ route' = answer(poses, FALSE)
                 /\ graph' = CommitVerifiedPath(g, PathVertices(local, path))
    BY DEF Forward
  <1> HIDE DEF whole
  <1>4. path \in Seq(Ids(local)) /\ Len(path) > 0
    <2>1. PICK n \in 1..Len(whole) : path = SubSeq(whole, 1, n)
      BY <1>2, TraversedIsPrefix
    <2> HIDE DEF path
    <2> QED
      BY <1>2, <2>1
  <1> HIDE DEF path
  <1>5. poses \in Seq(Places) /\ Len(poses) > 0
    BY <1>1, <1>4, PosesArePlaces
  <1> HIDE DEF poses
  <1>6. ASSUME NEW p \in Seq(Places), NEW refined
        PROVE  IsRoute(answer(p, refined))
    BY DEF IsRoute
  <1>7. ASSUME NEW p \in Seq(Vertices)
        PROVE  CommitVerifiedPath(g, p) \in Graphs
    BY CommittedGrows DEF Grown
  <1>8. CASE graph' = g /\ route' = [NoRoute EXCEPT !.kind = "short"]
    BY <1>8, PathlessRoute
  <1>9. ASSUME NEW o \in outcomes, route' = answer(o.poses, TRUE),
               graph' = CommitVerifiedPath(g, bare(o.poses))
        PROVE  graph' \in Graphs /\ IsRoute(route')
    <2>1. o.poses \in Seq(Places)
      <3>1. CASE settings.switches.enhance
        BY <1>5, <3>1, RefinedPoses
      <3>2. CASE ~settings.switches.enhance
        BY <1>5, <3>2
      <3> QED
        BY <3>1, <3>2
    <2> DEFINE p == o.poses
               n == Len(p)
    <2>2. n \in Nat /\ DOMAIN p = 1..n /\ \A i \in 1..n : p[i] \in Places
      BY <2>1
    <2>3. \A i \in 1..n : Vertex(p[i]) \in Vertices
      BY <2>2, NewVertex
    <2> HIDE DEF p, n, Vertices
    <2>4. bare(p) \in Seq(Vertices)
      BY <2>2, <2>3
    <2> HIDE DEF bare
    <2> QED
      BY <1>6, <1>7, <1>9, <2>1, <2>4 DEF p
  <1>10. ASSUME route' = answer(poses, FALSE),
                graph' = CommitVerifiedPath(g, PathVertices(local, path))
         PROVE  graph' \in Graphs /\ IsRoute(route')
    <2>1. PathVertices(local, path) \in Seq(Vertices)
      <3> HIDE DEF Vertices
      <3> QED
        BY <1>1, <1>4, VerticesOfPath
    <2> QED
      BY <1>5, <1>6, <1>7, <1>10, <2>1
  <1> HIDE DEF answer, bare, outcomes
  <1> QED
    BY <1>3, <1>8, <1>9, <1>10

\* The way home, from where the robot is tied to the map.
LEMMA HomewardIsKept ==
    ASSUME NEW g \in Graphs, NEW home \in Seq(Ids(g)), home # <<>>, Homeward(g, home)
    PROVE  graph' \in Graphs /\ IsRoute(route')
  <1> DEFINE poses == PosesOf(g, Reverse(home))
             n == Len(home)
  <1>1. n \in Nat /\ n > 0 /\ \A i \in 1..n : home[i] \in Ids(g)
    OBVIOUS
  <1>2. Reverse(home) = [i \in 1..n |-> home[(n - i) + 1]]
    BY DEF Reverse
  <1>3. Reverse(home) \in Seq(Ids(g)) /\ Len(Reverse(home)) = n
    <2> HIDE DEF n
    <2>1. \A i \in 1..n : (n - i) + 1 \in 1..n
      BY <1>1
    <2> QED
      BY <1>1, <1>2, <2>1
  <1>4. poses \in Seq(Places) /\ Len(poses) > 0
    BY <1>1, <1>3, PosesArePlaces
  <1>5. PICK o \in { [poses |-> poses, ok |-> FALSE] }
                       \cup (IF settings.switches.enhance
                             THEN ImproveFreePath(poses, Fenced) ELSE {}) :
           route' = [kind |-> "homing", poses |-> o.poses, refined |-> o.ok]
    BY DEF Homeward
  <1> HIDE DEF poses
  <1>6. o.poses \in Seq(Places)
    <2>1. CASE o = [poses |-> poses, ok |-> FALSE]
      BY <1>4, <2>1
    <2>2. CASE o \in ImproveFreePath(poses, Fenced)
      BY <1>4, <2>2, RefinedPoses
    <2> QED
      BY <1>5, <2>1, <2>2
  <1> QED
    BY <1>5, <1>6 DEF IsRoute, Homeward

\* getBestPath, whichever of them it answers.
LEMMA AnswerIsKept ==
    ASSUME GraphsInv, AroundInv, NEW leaf, NEW remaining, Answer(leaf, remaining)
    PROVE  graph' \in Graphs /\ Fits(graph') /\ IsRoute(route')
  <1> DEFINE homing == settings.switches.autoHoming
             tie == IF homing /\ Cardinality(Ids(graph)) > 1 THEN TieRobot(graph)
                    ELSE [graph |-> graph, id |-> -1]
             home == HomingPath(tie)
  <1>1. /\ leaf \in GoodLeaves(local, rep) /\ Fits(graph')
        /\ \/ graph' = graph /\ route' = [NoRoute EXCEPT !.kind = "landing"]
           \/ graph' = graph /\ route' = [NoRoute EXCEPT !.kind = "homing"]
           \/ home # <<>> /\ Homeward(tie.graph, home)
           \/ Forward(tie.graph, leaf)
    BY DEF Answer
  <1>2. graph \in Graphs /\ robot \in Places
    BY SpaceAssumption DEF GraphsInv, AroundInv
  <1>3. tie.graph \in Graphs /\ home \in Seq(Ids(tie.graph))
    <2>1. CASE homing /\ Cardinality(Ids(graph)) > 1
      <3>1. tie = TieRobot(graph)
        BY <2>1
      <3> HIDE DEF tie, homing
      <3>2. Ids(graph) # {}
        BY <2>1, FS_EmptySet
      <3>3. IsTie(graph, tie)
        BY <1>2, <3>1, <3>2, TiedRobotIsTie
      <3>4. tie.graph \in Graphs
        BY <3>3 DEF IsTie, Grown
      <3> DEFINE found == ShortestPath(ShortestPaths(tie.graph, 0), tie.id)
      <3>5. found \in Seq(Ids(tie.graph))
        BY <3>4, SearchReports, SoundGraph, PathIsOfVertices
      <3>6. home \in {found, <<>>}
        BY DEF HomingPath
      <3> HIDE DEF found, home
      <3>7. <<>> \in Seq(Ids(tie.graph))
        OBVIOUS
      <3> QED
        BY <3>4, <3>5, <3>6, <3>7
    <2>2. CASE ~(homing /\ Cardinality(Ids(graph)) > 1)
      <3>1. tie.graph = graph /\ tie.id = -1
        BY <2>2
      <3> HIDE DEF tie
      <3>2. home = <<>>
        BY <3>1 DEF HomingPath
      <3> QED
        BY <1>2, <3>1, <3>2
    <2> QED
      BY <2>1, <2>2
  <1> HIDE DEF tie, home
  <1> QED
    BY <1>1, <1>2, <1>3, ForwardIsKept, HomewardIsKept, PathlessRoute

\* The graphs stay sound, and the report is of the local graph.
LEMMA GraphsStay == GraphsInv /\ AroundInv /\ IInv /\ [Next]_localVars => GraphsInv'
  <1> SUFFICES ASSUME GraphsInv, AroundInv, IInv, [Next]_localVars
               PROVE  GraphsInv'
    OBVIOUS
  <1>0. IInv' /\ robot \in Places
    BY StepKeeps DEF IInv
  <1>1. CASE \/ UNCHANGED localVars
             \/ \E file \in Files : Boot(file)
             \/ \E source \in {robot} \cup SearchTargets, target \in SearchTargets :
                    StartSearch(source, target)
             \/ SearchLoop \/ SearchEnd
             \/ \E b \in Bounds : SetGlobalBound(b[1], b[2]) \/ SetDynamicBound(b[1], b[2])
             \/ ResetGlobalBound \/ ResetDynamicBound
    <2>1. /\ graph' = graph /\ local' = local /\ rep' = rep
          /\ pc' = pc \/ pc' \in {"idle", "shutdown", "searching"}
      BY <1>1 DEF localVars, vars, roundVars, roundState, Boot, StartSearch, SearchLoop, SearchEnd,
                  SetGlobalBound, SetDynamicBound, ResetGlobalBound, ResetDynamicBound, SpaceBecomes
    <2> QED
      BY <2>1 DEF GraphsInv, Fits
  <1>2. CASE \E mode \in Modes : StartRound(mode)
    <2>1. /\ graph' = ResetGraph /\ Fits(graph') /\ rep' = NoReport
          /\ local' = AddVertex(EmptyGraph, Vertex(robot))
      BY <1>2 DEF StartRound
    <2>2. graph' \in Graphs
      BY <1>0, <2>1, ResetGrows DEF GraphsInv, Grown
    <2>3. local' \in Graphs
      BY <1>0, <2>1, RootIsGraph
    <2>4. IsReport(rep', Ids(local'))
      BY <2>1, NoReportIsReport
    <2> QED
      BY <2>1, <2>2, <2>3, <2>4 DEF GraphsInv, Fits, IsReport, Ids
  <1>3. CASE BuildLoop
    <2>1. graph' = graph /\ rep' = rep /\ pc = "building" /\ pc' = "building"
      BY <1>3 DEF BuildLoop
    <2>2. rep' = NoReport
      BY <2>1 DEF GraphsInv
    <2>3. local' \in Graphs
      BY <1>0, <2>1 DEF IInv, InRound, Built
    <2>4. IsReport(rep', Ids(local'))
      BY <2>2, NoReportIsReport
    <2> QED
      BY <2>1, <2>2, <2>3, <2>4 DEF GraphsInv, Fits, IsReport, Ids
  <1>4. CASE BuildEnd
    <2>1. graph' = graph /\ local' = local /\ rep' = rep /\ pc = "building"
      BY <1>4 DEF BuildEnd
    <2> QED
      BY <2>1 DEF GraphsInv, Fits, IsReport, Ids
  <1>5. CASE Evaluate
    <2>1. graph' = graph /\ pc = "built"
      BY <1>5 DEF Evaluate
    <2>2. PICK S, r : /\ r = ShortestPaths(local, 0) /\ rep' = r
                      /\ local' = FullyEvaluated(local, r, S) /\ Judge(local', r)
      BY <1>5 DEF Evaluate
    <2>3. PICK T : local' = EvaluatedIn(local, T)
      BY <2>2 DEF FullyEvaluated
    <2>4. Built(local)
      BY <2>1 DEF IInv, InRound
    <2>5. Built(local') /\ Ids(local') = Ids(local)
      BY <2>3, <2>4, EvaluationKeepsEdges
    <2>6. IsReport(rep', Ids(local'))
      BY <2>2, <2>4, <2>5, SearchReports DEF Built
    <2>7. pc' \in {"idle", "evaluated"}
      BY <2>2 DEF Judge
    <2> QED
      BY <2>1, <2>5, <2>6, <2>7 DEF GraphsInv, Fits, IsReport, Ids, Built
  <1>6. CASE \E leaf \in Ids(local), remaining \in Budgets : Answer(leaf, remaining)
    <2>1. PICK leaf, remaining : Answer(leaf, remaining)
      BY <1>6
    <2>2. local' = local /\ rep' = rep /\ pc' = "idle"
      BY <2>1 DEF Answer, roundVars
    <2>3. graph' \in Graphs /\ Fits(graph')
      BY <2>1, AnswerIsKept
    <2> QED
      BY <2>2, <2>3 DEF GraphsInv, Fits, IsReport, Ids
  <1>7. CASE Around
    <2>1. pc' = pc
      BY <1>7 DEF Around, roundState
    <2>2. CASE \E p \in Free : SetState(p)
      <3>1. graph' = graph /\ local' = local /\ rep' = rep
        BY <2>2 DEF SetState, roundVars
      <3> QED
        BY <2>1, <3>1 DEF GraphsInv, Fits, IsReport, Ids
    <2>3. CASE \E zone \in Zones : AddZone(zone, zone)
      <3>1. PICK zone : AddZone(zone, zone)
        BY <2>3
      <3> DEFINE pairs == { p \in graph.neighbors :
                              graph.vertex[p[1]].place \in zone \cap closed' }
      <3>2. graph' = RemoveEdges(graph, pairs) /\ local' = local /\ rep' = rep
        BY <3>1 DEF AddZone, roundVars
      <3>3. pairs \in SUBSET graph.neighbors
        OBVIOUS
      <3> HIDE DEF pairs
      <3>4. graph' \in Graphs /\ Ids(graph') = Ids(graph)
        BY <3>2, <3>3, CutIsGraph DEF GraphsInv
      <3> QED
        BY <2>1, <3>2, <3>4 DEF GraphsInv, Fits, IsReport, Ids
    <2> QED
      BY <1>7, <2>2, <2>3 DEF Around
  <1> QED
    BY <1>1, <1>2, <1>3, <1>4, <1>5, <1>6, <1>7 DEF Next, RoundStep

\* What a round counts, and the answer that was given last.
KindsInv ==
    /\ pc \in {"boot", "shutdown", "idle", "building", "built", "evaluated", "searching"}
    /\ triggers \in 0..MaxTriggers
    /\ pc = "building" => triggers < MaxTriggers
    /\ count \in [loops : Nat, vertices : Nat \ {0}, edges : Nat, stop : BOOLEAN]
    /\ field.targets \subseteq Places
    /\ IsRoute(route)

\* A turn of the loop counts what it has added.
LEMMA LoopCounts ==
    ASSUME IInv, IInv', KindsInv, BuildLoop
    PROVE  KindsInv'
  <1>1. pc = "building" /\ pc' = "building" /\ triggers' = triggers /\ route' = route
    BY DEF BuildLoop
  <1>2. Built(local') /\ CountAgrees'
    BY <1>1 DEF IInv, InRound
  <1>3. local'.idCount \in Nat
    BY <1>2 DEF Built
  <1>4. count' \in [loops : Nat, vertices : Nat \ {0}, edges : Nat, stop : BOOLEAN]
    <2>1. /\ count' \in [loops : Nat, vertices : Nat, edges : Nat, stop : BOOLEAN]
          /\ count'.vertices = local'.idCount + 1
      BY <1>2 DEF CountAgrees
    <2> QED
      BY <1>3, <2>1
  <1>5. field'.targets \subseteq Places
    <2>1. field' \in {field, Field(field, robot, settings.local)}
      BY DEF BuildLoop
    <2>2. \/ Field(field, robot, settings.local) = field
          \/ Field(field, robot, settings.local)
                 = [at |-> <<robot>>, targets |-> DirectionField(robot, settings.local)]
      BY DEF Field
    <2>3. DirectionField(robot, settings.local) \subseteq Places
      BY DEF DirectionField
    <2> HIDE DEF Field, DirectionField
    <2>4. CASE field' = field
      BY <2>4 DEF KindsInv
    <2>5. CASE field' = [at |-> <<robot>>, targets |-> DirectionField(robot, settings.local)]
      BY <2>3, <2>5
    <2> QED
      BY <2>1, <2>2, <2>4, <2>5
  <1> QED
    BY <1>1, <1>4, <1>5 DEF KindsInv

\* What is counted stays a count, and what is answered an answer.
LEMMA KindsStay ==
    KindsInv /\ GraphsInv /\ AroundInv /\ SearchInv /\ IInv /\ [Next]_localVars => KindsInv'
  <1> SUFFICES ASSUME KindsInv, GraphsInv, AroundInv, SearchInv, IInv, [Next]_localVars
               PROVE  KindsInv'
    OBVIOUS
  <1> DEFINE kinds == {"none", "local", "short", "landing", "homing", "global", "search"}
             nodes == {"boot", "shutdown", "idle", "building", "built", "evaluated", "searching"}
  <1>0. IInv'
    BY StepKeeps
  <1>1. ASSUME UNCHANGED <<triggers, count, field>>, pc' \in nodes \ {"building"}, IsRoute(route')
        PROVE  KindsInv'
    BY <1>1 DEF KindsInv
  <1>2. IsRoute(NoRoute) /\ \A kind \in kinds : IsRoute([NoRoute EXCEPT !.kind = kind])
    BY PathlessRoute
  <1>3. IsRoute(route) /\ pc \in nodes
    BY DEF KindsInv
  <1>4. CASE UNCHANGED localVars
    BY <1>4 DEF localVars, vars, roundVars, roundState, KindsInv, IsRoute
  <1>5. CASE \/ \E file \in Files : Boot(file)
             \/ SearchLoop
             \/ \E b \in Bounds : SetGlobalBound(b[1], b[2]) \/ SetDynamicBound(b[1], b[2])
             \/ ResetGlobalBound \/ ResetDynamicBound \/ Around
    <2>1. /\ UNCHANGED <<triggers, count, field, route>>
          /\ pc' \in {"idle", "shutdown", "searching"}
      BY <1>5 DEF vars, roundVars, roundState, Boot, SearchLoop, SetGlobalBound, SetDynamicBound,
                  ResetGlobalBound, ResetDynamicBound, SpaceBecomes, Around, SetState, AddZone
    <2> QED
      BY <1>1, <1>3, <2>1
  <1>6. CASE \E mode \in Modes : StartRound(mode)
    <2>1. /\ pc' = "building" /\ triggers' = triggers /\ triggers < MaxTriggers
          /\ count' = NoCount /\ field' = field /\ route' = NoRoute
      BY <1>6 DEF StartRound
    <2>2. count' \in [loops : Nat, vertices : Nat \ {0}, edges : Nat, stop : BOOLEAN]
      BY <2>1 DEF NoCount
    <2> QED
      BY <1>2, <2>1, <2>2 DEF KindsInv
  <1>7. CASE BuildLoop
    BY <1>0, <1>7, LoopCounts
  <1>8. CASE BuildEnd
    <2>1. /\ pc = "building" /\ pc' \in {"built", "idle"} /\ triggers' = triggers + 1
          /\ count' = count /\ field' = field
          /\ route' = route \/ route' = [NoRoute EXCEPT !.kind = "global"]
      BY <1>8 DEF BuildEnd
    <2>2. IsRoute(route')
      BY <1>2, <1>3, <2>1
    <2>3. triggers' \in 0..MaxTriggers
      BY <2>1, BoundAssumption DEF KindsInv
    <2> QED
      BY <2>1, <2>2, <2>3 DEF KindsInv
  <1>9. CASE Evaluate
    <2>1. UNCHANGED <<triggers, count, field>> /\ \E g, r : Judge(g, r)
      BY <1>9 DEF Evaluate
    <2>2. /\ pc' \in {"idle", "evaluated"}
          /\ route' = NoRoute \/ route' = [NoRoute EXCEPT !.kind = "global"]
      BY <2>1 DEF Judge
    <2>3. IsRoute(route')
      BY <1>2, <2>2
    <2> QED
      BY <1>1, <2>1, <2>2, <2>3
  <1>10. CASE \E leaf \in Ids(local), remaining \in Budgets : Answer(leaf, remaining)
    <2>1. PICK leaf, remaining : Answer(leaf, remaining)
      BY <1>10
    <2>2. UNCHANGED <<triggers, count, field>> /\ pc' = "idle"
      BY <2>1 DEF Answer, roundVars
    <2>3. IsRoute(route')
      BY <2>1, AnswerIsKept
    <2> QED
      BY <1>1, <2>2, <2>3
  <1>11. CASE \E source \in {robot} \cup SearchTargets, target \in SearchTargets :
                  StartSearch(source, target)
    <2>1. PICK source \in {robot} \cup SearchTargets, target \in SearchTargets :
             StartSearch(source, target)
      BY <1>11
    <2>2. source \in Places /\ target \in Places
      BY SearchAssumption DEF IInv
    <2>3. /\ UNCHANGED <<triggers, count, field>> /\ pc' \in {"idle", "searching"}
          /\ \/ route' = NoRoute
             \/ route' = [NoRoute EXCEPT !.kind = "search", !.poses = <<source, target>>]
      BY <2>1 DEF StartSearch, roundVars
    <2>4. <<source, target>> \in Seq(Places)
      BY <2>2
    <2>5. IsRoute([NoRoute EXCEPT !.kind = "search", !.poses = <<source, target>>])
      BY <2>4 DEF IsRoute, NoRoute
    <2> QED
      BY <1>1, <1>2, <2>3, <2>5
  <1>12. CASE SearchEnd
    <2>1. UNCHANGED <<triggers, count, field>> /\ pc = "searching" /\ pc' = "idle"
      BY <1>12 DEF SearchEnd, vars, roundVars
    <2>2. PICK end \in IF tree.near = {} THEN { [graph |-> EmptyGraph, id |-> -1] }
                       ELSE { Destination(tree.graph) } :
             route' = IF end.id = -1 THEN NoRoute
                      ELSE [NoRoute EXCEPT !.kind = "search", !.poses =
                               PosesOf(end.graph,
                                       ShortestPath(ShortestPaths(end.graph, 0), end.id))]
      BY <1>12 DEF SearchEnd
    <2>3. CASE end.id = -1
      BY <1>1, <1>2, <2>1, <2>2, <2>3
    <2>4. CASE end.id # -1
      <3> DEFINE r == ShortestPaths(end.graph, 0)
                 path == ShortestPath(r, end.id)
                 poses == PosesOf(end.graph, path)
      <3>1. tree.near # {} /\ end = Destination(tree.graph)
        BY <2>2, <2>4
      <3>2. Built(end.graph) /\ EdgesFree(end.graph) /\ Leads(end.graph, 0, r, path, end.id)
        BY <2>1, <3>1, DestinationIsReached
      <3>3. route' = [NoRoute EXCEPT !.kind = "search", !.poses = poses]
        BY <2>2, <2>4
      <3> HIDE DEF r, path, poses
      <3>4. poses \in Seq(Places)
        BY <3>2, PosesFollow DEF poses, Leads, FromRoot
      <3>5. IsRoute(route')
        BY <3>3, <3>4 DEF IsRoute, NoRoute
      <3> QED
        BY <1>1, <2>1, <3>5
    <2> QED
      BY <2>3, <2>4
  <1> QED
    BY <1>4, <1>5, <1>6, <1>7, <1>8, <1>9, <1>10, <1>11, <1>12 DEF Next, RoundStep

\* Everything is of its kind when the node starts.
LEMMA KindsStart == Init => GraphsInv /\ AroundInv /\ KindsInv
  <1> SUFFICES ASSUME Init
               PROVE  GraphsInv /\ AroundInv /\ KindsInv
    OBVIOUS
  <1>1. /\ known = View(Home) /\ robot = Home /\ queue = <<Home>> /\ prev = NoVertex
        /\ lastMark = Home /\ history = {} /\ triggers = 0 /\ graph = EmptyGraph
        /\ local = EmptyGraph /\ rep = NoReport /\ pending = FALSE /\ closed = {}
        /\ loaded = FALSE /\ cut = FALSE
    BY DEF Init, MapInit
  <1>2. Home \in Free /\ Home \in Places /\ View(Home) \subseteq Places
    BY SpaceAssumption DEF View
  <1>3. /\ QueueMax \in Nat \ {0} /\ MaxVertices \in Nat \ {0} /\ MaxTriggers \in Nat
    BY BoundAssumption
  <1>4. GraphsInv
    <2>1. EmptyGraph \in Graphs /\ Ids(EmptyGraph) = {}
      BY EmptyIsSound
    <2>2. Fits(EmptyGraph)
      BY <1>3, <2>1, FS_EmptySet DEF Fits
    <2> QED
      BY <1>1, <2>1, <2>2, NoReportIsReport DEF GraphsInv
  <1>5. AroundInv
    <2>1. queue \in Seq(Free) /\ Len(queue) <= QueueMax
      BY <1>1, <1>2, <1>3
    <2>2. prev \in [id : -1..(MaxVertices - 1), place : Places]
      BY <1>1, <1>2, <1>3 DEF NoVertex
    <2> QED
      BY <1>1, <1>2, <2>1, <2>2 DEF AroundInv
  <1>6. KindsInv
    <2>1. pc = "boot" /\ count = NoCount /\ route = NoRoute /\ field = [at |-> <<>>, targets |-> {}]
      BY DEF Init
    <2> QED
      BY <1>1, <1>3, <2>1, PathlessRoute DEF KindsInv, NoCount
  <1> QED
    BY <1>4, <1>5, <1>6

-----------------------------------------------------------------------------
(* The theorems.                                                           *)

\* The loop of buildGraph ends within its limits, and its counters are those
\* of the graph it builds: no edge is missed, whatever it counts twice.
THEOREM BuildInLimits == Spec => []BuildStaysInLimits
<1>1. IInv => BuildStaysInLimits
  <2> SUFFICES ASSUME IInv, pc = "building"
               PROVE  /\ count.loops <= settings.planning.loops
                      /\ count.vertices <= LargerOf(limits.vertices, 1)
                      /\ count.vertices = Cardinality(Ids(local))
                      /\ Cardinality(local.edges) <= count.edges
    BY DEF BuildStaysInLimits
  <2>1. CountAgrees /\ Built(local)
    BY DEF IInv, InRound
  <2>2. Ids(local) = 0..local.idCount /\ local.idCount \in Nat
    BY <2>1, BuiltGraph
  <2>3. Cardinality(0..local.idCount) = local.idCount + 1
    BY <2>2, FS_Interval
  <2> QED
    BY <2>1, <2>2, <2>3 DEF CountAgrees
<1> QED
  BY InitHolds, StepKeeps, <1>1, PTL DEF Spec

\* What a round builds may be driven in both directions: every edge of the
\* local graph is known to be free and crosses no zone that is closed.
THEOREM LocalGraphCanBeDriven == Spec => []LocalEdgesAreFree
<1>1. IInv => LocalEdgesAreFree
  BY DEF IInv, LocalEdgesAreFree, EdgesFree, Drivable, Passes
<1> QED
  BY InitHolds, StepKeeps, <1>1, PTL DEF Spec

\* Until it is answered, the graph of a round has dense ids, and its three
\* records hold the same edges in both directions, to vertices it has: what
\* shortest paths index by id and walk along is there.
THEOREM LocalGraphIsConsistent == Spec => [](InRound => DenseIds(local) /\ EdgeRecordsAgree(local))
<1>1. IInv => (InRound => DenseIds(local) /\ EdgeRecordsAgree(local))
  BY BuiltGraph DEF IInv, InStep
<1> QED
  BY InitHolds, StepKeeps, <1>1, PTL DEF Spec

\* Whatever file the node was started with, what a round or a search draws
\* from is there, and is of the bounds and the deviation the axis has now:
\* every change of an axis is followed by a reset.
THEOREM SamplersStayCurrent == Spec => []DrawsAreCurrent
<1>1. DrawsInv /\ [Next]_localVars => DrawsInv'
  BY DrawsKept
<1>2. DrawsInv => DrawsAreCurrent
  BY DEF DrawsInv, DrawsAreCurrent, DrawableSampler
<1> QED
  BY DrawsStart, <1>1, <1>2, PTL DEF Spec

\* In a space that is a cuboid, as the services set it, the graph of a round
\* is safe whole: its edges may be driven, and no vertex has been drawn out of
\* the space the robot is in.
THEOREM LocalGraphStaysSafe == Spec => [](settings.global.type = "kCuboid" => LocalGraphIsSafe)
<1>1. IInv /\ SpaceInv /\ [Next]_localVars => (IInv /\ SpaceInv)'
  BY StepKeeps, SpaceKept
<1>2. IInv /\ SpaceInv => (settings.global.type = "kCuboid" => LocalGraphIsSafe)
  BY DEF IInv, SpaceInv, VerticesInside, LocalGraphIsSafe, LocalEdgesAreFree, LocalVerticesAreInside,
         EdgesFree, Drivable, Passes
<1> QED
  BY InitHolds, SpaceStarts, <1>1, <1>2, PTL DEF Spec

\* Whatever a search finds begins at its source and can be followed.
THEOREM SearchPathsAreSound == Spec => SearchPathIsSound
<1>1. Init => SearchInv
  BY DEF Init, SearchInv
<1>2. SearchInv /\ IInv /\ [Next]_localVars => SearchInv'
  BY SearchStays
<1>3. SearchInv /\ IInv /\ [Next]_localVars => [SearchAnswer]_localVars
  BY SearchAnswers
<1>4. Spec => [][SearchAnswer]_localVars
  BY InitHolds, StepKeeps, <1>1, <1>2, <1>3, PTL DEF Spec
<1> QED
  BY <1>4 DEF SearchPathIsSound, SearchAnswer

\* The path of a round begins at the robot and can be driven; refined, it is
\* still clear of what is known and of the zones.
THEOREM LocalPathsAreSafe == Spec => LocalPathIsSafe
<1>1. Init => RoundInv
  BY DEF Init, RoundInv, InRound
<1>2. RoundInv /\ IInv /\ [Next]_localVars => RoundInv'
  BY RoundStays
<1>3. RoundInv /\ IInv /\ [Next]_localVars => [LocalAnswer]_localVars
  BY LocalAnswers
<1>4. Spec => [][LocalAnswer]_localVars
  BY InitHolds, StepKeeps, <1>1, <1>2, <1>3, PTL DEF Spec
<1> QED
  BY <1>4 DEF LocalPathIsSafe, LocalAnswer

\* Looking at a shortlist first hides nothing: a round that counts as one of low
\* gain, or that hands over to the global planner, has no vertex that shows
\* anything.
THEOREM EvaluationStaysHonest == Spec => EvaluationIsHonest
<1>1. Init => JudgeInv
  BY RoundAssumption DEF Init, JudgeInv
<1>2. JudgeInv /\ IInv /\ [Next]_localVars => JudgeInv'
  BY JudgeStays
<1>3. JudgeInv /\ IInv /\ [Next]_localVars => [HonestAnswer]_localVars
  BY HonestAnswers
<1>4. Spec => [][HonestAnswer]_localVars
  BY InitHolds, StepKeeps, <1>1, <1>2, <1>3, PTL DEF Spec
<1> QED
  BY <1>4 DEF EvaluationIsHonest, HonestAnswer

\* Everything the node keeps stays of its kind: its map and the graph of the
\* round, what it counts, its limits, and the last answer, whose poses are
\* places whichever refinement or search they come from.
THEOREM LocalTypesHold == Spec => []LocalTypeOK
<1> DEFINE Kinds == GraphsInv /\ AroundInv /\ KindsInv
           Inv == Kinds /\ SearchInv /\ JudgeInv /\ IInv
<1>1. Init => Inv
  <2>1. Init => SearchInv /\ JudgeInv
    BY RoundAssumption DEF Init, SearchInv, JudgeInv
  <2> QED
    BY <2>1, KindsStart, InitHolds
<1>2. Inv /\ [Next]_localVars => Inv'
  BY GraphsStay, AroundStays, KindsStay, SearchStays, JudgeStays, StepKeeps
<1>3. Inv => LocalTypeOK
  <2> SUFFICES ASSUME GraphsInv, AroundInv, KindsInv, JudgeInv, IInv
               PROVE  LocalTypeOK
    OBVIOUS
  <2>1. ASSUME NEW g \in {graph, local}, NEW v \in Ids(g)
        PROVE  g.vertex[v] \in [place : Places, type : Types, frontier : BOOLEAN, gain : Nat]
    <3>1. g \in Graphs
      BY DEF GraphsInv
    <3> QED
      BY <3>1, SoundGraph DEF Vertices
  <2>2. Cardinality(Ids(graph)) <= MaxVertices
    BY DEF GraphsInv, Fits
  <2>3. {pending, loaded, cut} \subseteq BOOLEAN /\ triggers \in 0..MaxTriggers
    BY DEF AroundInv, KindsInv
  <2>4. TypeOK
    BY <2>1, <2>2, <2>3 DEF TypeOK, AroundInv
  <2> QED
    BY <2>4 DEF LocalTypeOK, KindsInv, JudgeInv, IInv, IsLimits, IsRoute
<1> QED
  BY <1>1, <1>2, <1>3, PTL DEF Spec

=============================================================================
