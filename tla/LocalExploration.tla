-------------------------- MODULE LocalExploration --------------------------
(***************************************************************************)
(* A round of LocalExplorationPlanner, step by step: the node reads its    *)
(* parameters; a request resets the planner, buildGraph samples vertices   *)
(* one by one until it has enough or has tried long enough, evaluateGraph  *)
(* looks for frontiers, in a shortlist first, and getBestPath refines the  *)
(* best path and commits it.  The search service grows a graph of its own  *)
(* between two poses with a second sampler.                                *)
(*                                                                         *)
(* The node runs one handler at a time: while a round or a search is on,   *)
(* only its own steps are taken.  In between the robot moves, zones are    *)
(* closed and the global space is changed.                                 *)
(***************************************************************************)
EXTENDS Sampling, PathRefinement

CONSTANTS
    Files,           \* bound: parameter files the node may be started with
    Modes,           \* bound: bound modes of the requests
    Bounds,          \* bound: corners <<min, max>> of bounds the services set
    Budgets,         \* bound: remaining times
    SpareTime,       \* kTimeDelta, in cells of travel
    FineTopK,        \* fine_gain_top_k
    MinLength,       \* kLenMinMin: paths that are not longer are dropped
    TraverseMax,     \* traverse_length_max
    MaxLowGainIters, \* max_num_low_gain_iters
    SearchTargets,   \* bound: poses the search service is asked for
    SearchRounds,    \* bound: rounds after which a search is still asked for
    ReachRadius,     \* reached_target_radius
    SearchPaths,     \* num_paths_to_target_max
    SearchLoops,     \* num_loops_max of a search
    SearchCutoff,    \* num_loops_cutoff of a search
    SearchVertices,  \* num_vertices_max of a search
    SearchEdges      \* num_edges_max of a search

\* The budgets of every file count something.
ASSUME FilesAssumption ==
    \A file \in Files :
        LET planning == Planning(Block(file, "PlanningParams")) IN
        {planning.vertices, planning.edges, planning.cutoff, planning.loops} \subseteq Nat

\* What an axis reads has a range, where it draws from one, and a deviation
\* that does not vanish when it is scaled to that range; an axis of a search
\* does not change its distribution.
ASSUME SamplersAssumption ==
    \A file \in { f \in Files : Loads(f) } :
        LET read == Settings(file)
            axis(name, i) ==
                AxisParams(Sampler(file[name])[i], i, read.global,
                           IF name = "SamplerForSearching" THEN read.search ELSE read.local)
            range(name, i) == axis(name, i).max - axis(name, i).min
        IN  \A name \in {"SamplerForExploration", "SamplerForSearching"}, i \in {1, 2} :
                /\ {axis(name, i).min, axis(name, i).max, axis(name, i).initStd} \subseteq Int
                /\ axis(name, i).pdf \in {"kUniform", "kNormalUniform"} => range(name, i) >= 0
                /\ axis(name, i).pdf \notin {"kUniform", "kConst"} =>
                       \A j \in {1, 2} : /\ axis(name, i).initStd * range(name, i) >= range(name, j)
                                         /\ range(name, i) > 0
                /\ name = "SamplerForSearching" => axis(name, i).pdf # "kNormalUniform"

\* Positions are of the plane, and what lies between two of them lies between
\* them on each axis.
ASSUME PlaneAssumption ==
    /\ Places \subseteq Int \X Int
    /\ \A p, q \in Places : \A r \in Between(p, q), k \in {1, 2} :
           \/ p[k] <= r[k] /\ r[k] <= q[k]
           \/ q[k] <= r[k] /\ r[k] <= p[k]
    /\ \A b \in Bounds : b[1] \in Int \X Int /\ b[2] \in Int \X Int
    /\ \A file \in { f \in Files : Loads(f) } :
           Settings(file).global.min \in Int \X Int /\ Settings(file).global.max \in Int \X Int

\* No path of a search is as long as the largest double, which stands for none:
\* a search ends when its graph has so many vertices.
ASSUME SearchAssumption ==
    /\ SearchTargets \subseteq Places /\ SearchVertices \in Nat
    /\ \E far \in 0..Inf :
           /\ \A p, q \in Places : Dist(p, q) <= far
           /\ far * (SearchVertices + 3) < Inf

\* Nor is one of a round, whose graph may have 169 hundredths of the vertices in
\* the file; a planner that gives up after so many rounds tries one.
ASSUME RoundAssumption ==
    /\ MaxLowGainIters \in Nat \ {0}
    /\ \A file \in { f \in Files : Loads(f) } : \E far \in 0..Inf :
           /\ \A p, q \in Places : Dist(p, q) <= far
           /\ far * (2 * Settings(file).planning.vertices + 1) < Inf

VARIABLES
    pc,          \* where the node is in a round or a search
    settings,    \* what loadParams has read
    samplers,    \* random_sampler_ and random_sampler_to_search_
    limits,      \* planning_num_vertices_max_ and planning_num_edges_max_
    field,       \* passable_direction_candidates_ and where they are from
    count,       \* of buildGraph: loop_count, num_vertices, num_edges; stop
    lowGain,     \* num_low_gain_iters_
    route,       \* history: the last answer, of a round or a search
    tree         \* of a search: its graph, its ends and what it has reached

roundState == <<pc, limits, field, count, lowGain, route>>
nodeState == <<settings, samplers, tree>>
localVars == <<vars, roundState, nodeState>>

\* kind is what is answered: none, local, short, landing, homing, global or
\* search.
NoRoute == [kind |-> "none", poses |-> <<>>, refined |-> FALSE]
NoTree == [graph |-> EmptyGraph, source |-> Home, target |-> Home, near |-> {},
           loops |-> 0, edges |-> 0, stop |-> FALSE]
NoCount == [loops |-> 0, vertices |-> 1, edges |-> 0, stop |-> FALSE]
Fenced == settings.switches.geofence

-----------------------------------------------------------------------------
(* Start.                                                                  *)

\* The constructor: without its parameters the node shuts down.
Boot(file) ==
    /\ pc = "boot"
    /\ pc' = IF Loads(file) THEN "idle" ELSE "shutdown"
    /\ IF ~Loads(file) THEN UNCHANGED <<settings, samplers, limits>>
       ELSE /\ settings' = Settings(file)
            /\ samplers' =
                 [explore |-> InitialSampler(Sampler(file["SamplerForExploration"]),
                                             settings'.global, settings'.local),
                  search |-> SetParams(Sampler(file["SamplerForSearching"]),
                                       settings'.global, settings'.search)]
            /\ limits' = Limits(settings'.planning, "kExtendedBound", limits)
    /\ UNCHANGED <<vars, field, count, lowGain, route, tree>>

-----------------------------------------------------------------------------
(* buildGraph.                                                             *)

\* setBoundMode, reset and the start of buildGraph.
StartRound(mode) ==
    /\ pc = "idle" /\ triggers < MaxTriggers
    /\ pc' = "building"
    /\ limits' = Limits(settings.planning, mode, limits)
    /\ graph' = ResetGraph /\ Fits(graph')
    /\ local' = AddVertex(EmptyGraph, Vertex(robot)) /\ rep' = NoReport
    /\ pending' = FALSE
    /\ known' = IF BoxFree(robot) THEN known ELSE known \cup StartupArea(robot)
    /\ samplers' = [samplers EXCEPT !.explore = ChangePDF(Reset(@), "kNormal")]
    /\ count' = NoCount
    /\ route' = NoRoute
    /\ UNCHANGED <<robot, queue, prev, lastMark, history, triggers, mapVars, bounds,
                   field, lowGain, settings, tree>>

\* use_edge_limit: not when an axis changes its distribution.
WithinEdges == Changes(samplers.explore) \/ count.edges < limits.edges

\* Fault: one loop and one vertex more.
GoesOnLonger ==
    /\ ~count.stop
    /\ count.loops <= settings.planning.loops
    /\ count.vertices <= limits.vertices
    /\ WithinEdges

GoesOn ==
    /\ ~count.stop
    /\ count.loops < settings.planning.loops
    /\ count.vertices < limits.vertices
    /\ WithinEdges

\* Half way an axis of both distributions becomes uniform.
LoopSampler ==
    IF count.vertices = limits.vertices \div 2 THEN ChangePDF(samplers.explore, "kUniform")
    ELSE samplers.explore

\* Fault: a try counts when it has given a sample.
MissedUncounted(c) == c

\* The counters after a try without a sample.
Missed(c) == [c EXCEPT !.loops = @ + 1]

\* The counters after a sample was tried; a graph that has only its root
\* after so many tries is given up.
Expanded(c, added, links) ==
    [loops |-> c.loops + 1, vertices |-> c.vertices + added, edges |-> c.edges + links,
     stop |-> c.loops + 1 >= settings.planning.cutoff /\ c.vertices + added = 1]

\* What expandGraph reports: the edge to the nearest vertex and those in
\* range, of which it may be one.
EdgesAdded(g) == 1 + Cardinality(LinksInRange(g, g.idCount))

TrySample(p) ==
    IF CanExpand(local, p)
    THEN \E g \in {ExpandGraph(local, p, "kUnvisited")} :
             local' = g /\ count' = Expanded(count, 1, EdgesAdded(g))
    ELSE local' = local /\ count' = Expanded(count, 0, 0)

\* One turn of the loop; without a sample it goes round without the test.
BuildLoop ==
    /\ pc = "building" /\ GoesOn
    /\ samplers' = [samplers EXCEPT !.explore = LoopSampler]
    /\ field' = IF Guided(settings.switches) THEN Field(field, robot, settings.local) ELSE field
    /\ \E sample \in SampleVertex(settings,
                         ExplorationDraws(settings, samplers'.explore, field', robot),
                         robot, TRUE) :
           IF sample = <<>> THEN local' = local /\ count' = Missed(count)
           ELSE TrySample(sample[1])
    /\ UNCHANGED <<robotVars, graph, triggers, rep, pending, mapVars, bounds,
                   pc, limits, lowGain, route, settings, tree>>

\* With vertices the graph is evaluated; with only the root the space around
\* the robot is taken for free and the global planner is asked.
BuildEnd ==
    /\ pc = "building" /\ ~GoesOn
    /\ triggers' = triggers + 1
    /\ IF Cardinality(Ids(local)) > 1
       THEN pc' = "built" /\ UNCHANGED <<known, route>>
       ELSE /\ pc' = "idle" /\ known' = known \cup StartupArea(robot)
            /\ route' = [NoRoute EXCEPT !.kind = "global"]
    /\ UNCHANGED <<robot, queue, prev, lastMark, history, graph, local, rep, pending, mapVars,
                   bounds, limits, field, count, lowGain, nodeState>>

-----------------------------------------------------------------------------
(* evaluateGraph.                                                          *)

\* shortlistVerticesForFineGain: so many, of every direction if that many are
\* enough; 2 of 5 at least.  All when evaluation is forced, or few.
Shortlists(g) ==
    LET total == Cardinality(Ids(g))
        desired == LargerOf(FineTopK, (2 * total + 4) \div 5)
        bearing(v) == Bearing(robot, g.vertex[v].place)
        away(S) == { bearing(v) : v \in { u \in S : g.vertex[u].place # robot } }
    IN  IF ~settings.switches.fineGain \/ desired <= 0 \/ desired >= total THEN { Ids(g) }
        ELSE { S \in kSubset(desired, Ids(g)) :
                 Cardinality(away(Ids(g))) <= desired => away(S) = away(Ids(g)) }

\* computeExplorationGain of the vertices in S: the others show nothing.
EvaluatedIn(g, S) ==
    LET skipped(v) == [v EXCEPT !.gain = 0, !.frontier = FALSE,
                                !.type = IF @ = "kFrontier" THEN "kUnvisited" ELSE @]
        labelled == Labelled(g)
    IN  [g EXCEPT !.vertex = [v \in Ids(g) |-> IF v \in S THEN labelled.vertex[v] ELSE skipped(@[v])]]

\* Fault: what the shortlist shows is taken for all.
FullyEvaluatedNever(g, r, S) == EvaluatedIn(g, S)

\* A shortlist without a frontier is not believed.
FullyEvaluated(g, r, S) ==
    IF FrontierExists(EvaluatedIn(g, S), r) THEN EvaluatedIn(g, S) ELSE EvaluatedIn(g, Ids(g))

\* Fault: the counter has no floor.
TriesUnbounded(barren) == IF barren THEN lowGain + 1 ELSE lowGain - 1

\* num_low_gain_iters_ after a round.
Tries(barren) == IF barren THEN lowGain + 1 ELSE LargerOf(lowGain - 1, 0)

\* CONSEC_LOW_GAIN, NO_GAIN or OK.
Judge(g, r) ==
    LET tries == Tries(~FrontierExists(g, r) \/ GoodLeaves(g, r) = {})
    IN  /\ lowGain' = IF tries >= MaxLowGainIters THEN 0 ELSE tries
        /\ IF tries >= MaxLowGainIters \/ GoodLeaves(g, r) = {}
           THEN pc' = "idle" /\ route' = [NoRoute EXCEPT !.kind = "global"]
           ELSE pc' = "evaluated" /\ route' = NoRoute

Evaluate ==
    /\ pc = "built"
    /\ \E r \in {ShortestPaths(local, 0)} : \E S \in Shortlists(local) :
       \E g \in {FullyEvaluated(local, r, S)} :
           local' = g /\ rep' = r /\ Judge(g, r)
    /\ pending' = TRUE
    /\ UNCHANGED <<robotVars, graph, triggers, mapVars, bounds, limits, field, count, nodeState>>

-----------------------------------------------------------------------------
(* getBestPath.                                                            *)

PathLength(g, path) ==
    MapThenSumSet(LAMBDA i : VertexDist(g, path[i], path[i + 1]), 1..(Len(path) - 1))
PosesOf(g, path) == [i \in DOMAIN path |-> g.vertex[path[i]].place]

\* As far as the robot may go at once: to the first pose beyond it.
Traversed(path) ==
    LET far == { i \in DOMAIN path : PathLength(local, SubSeq(path, 1, i)) > TraverseMax }
    IN  IF far = {} THEN path ELSE SubSeq(path, 1, Min(far))

\* The path ahead to a leaf, refined or not, and the map with it committed.
Forward(g, leaf) ==
    LET whole == ShortestPath(rep, leaf)
        path == Traversed(whole)
        poses == PosesOf(local, path)
        answer(p, refined) == [kind |-> "local", poses |-> p, refined |-> refined]
        bare(p) == [i \in DOMAIN p |-> Vertex(p[i])]
        outcomes == IF settings.switches.enhance THEN ImproveFreePath(poses, Fenced)
                    ELSE { [poses |-> poses, ok |-> FALSE] }
    IN  IF PathLength(local, whole) <= MinLength
        THEN graph' = g /\ route' = [NoRoute EXCEPT !.kind = "short"]
        ELSE \E o \in outcomes :
                 IF o.ok
                 THEN route' = answer(o.poses, TRUE) /\ graph' = CommitVerifiedPath(g, bare(o.poses))
                 ELSE /\ route' = answer(poses, FALSE)
                      /\ graph' = CommitVerifiedPath(g, PathVertices(local, path))

\* Time to return: home along the map, when there is a way, refined or not.
Homeward(g, home) ==
    /\ graph' = g
    /\ \E o \in { [poses |-> PosesOf(g, Reverse(home)), ok |-> FALSE] }
                  \cup (IF settings.switches.enhance
                        THEN ImproveFreePath(PosesOf(g, Reverse(home)), Fenced) ELSE {}) :
           route' = [kind |-> "homing", poses |-> o.poses, refined |-> o.ok]

\* getBestPath: out of time, time to return, or on.
Answer(leaf, remaining) ==
    LET homing == settings.switches.autoHoming
        tie == IF homing /\ Cardinality(Ids(graph)) > 1 THEN TieRobot(graph)
               ELSE [graph |-> graph, id |-> -1]
        home == HomingPath(tie)
    IN  /\ pc = "evaluated" /\ leaf \in GoodLeaves(local, rep)
        /\ pc' = "idle"
        /\ IF remaining <= 0 /\ settings.switches.autoLanding
           THEN graph' = graph /\ route' = [NoRoute EXCEPT !.kind = "landing"]
           ELSE IF remaining <= 0 /\ homing
           THEN graph' = graph /\ route' = [NoRoute EXCEPT !.kind = "homing"]
           ELSE IF home # <<>> /\ PathLength(tie.graph, home) > remaining - SpareTime
           THEN Homeward(tie.graph, home)
           ELSE Forward(tie.graph, leaf)
        /\ Fits(graph')
        /\ UNCHANGED <<robotVars, roundVars, mapVars, bounds, limits, field, count, lowGain,
                       nodeState>>

-----------------------------------------------------------------------------
(* search.                                                                 *)

\* Fault: the straight path is not looked at.
StraightUnseen(source, target) == TRUE

\* The straight path, through unknown space and zones.
Straight(source, target) == PathFree(source, target, FALSE)

\* Bound: requests, of which none matters after the last round.
Asked == triggers < MaxTriggers /\ queries < MaxQueries /\ queries' = queries + 1

\* findPathToConnect, before it samples.
StartSearch(source, target) ==
    /\ pc = "idle" /\ Asked /\ triggers <= SearchRounds
    /\ IF Straight(source, target)
       THEN /\ route' = [NoRoute EXCEPT !.kind = "search", !.poses = <<source, target>>]
            /\ UNCHANGED <<pc, tree, samplers>>
       ELSE IF ~BoxFree(source)
       THEN route' = NoRoute /\ UNCHANGED <<pc, tree, samplers>>
       ELSE /\ pc' = "searching"
            /\ samplers' = [samplers EXCEPT !.search = Reset(@)]
            /\ tree' = [NoTree EXCEPT !.graph = AddVertex(EmptyGraph, Vertex(source)),
                                      !.source = source, !.target = target]
            /\ route' = NoRoute
    /\ UNCHANGED <<moves, robotVars, roundVars, graph, mapVars, limits, field, count, lowGain,
                   settings>>

\* A turn of the loop that has a sample.  The sample is what is compared with
\* the target, and the vertex may be short of it.
Searched(p) ==
    LET expands == CanExpand(tree.graph, p)
        g == IF expands THEN ExpandGraph(tree.graph, p, "kUnvisited") ELSE tree.graph
        near == IF expands /\ Dist(p, tree.target) < ReachRadius
                THEN tree.near \cup {g.idCount} ELSE tree.near
        edges == IF expands THEN tree.edges + EdgesAdded(g) ELSE tree.edges
    IN  [tree EXCEPT !.graph = g, !.near = near, !.loops = @ + 1, !.edges = edges,
                     !.stop = \/ Cardinality(near) > SearchPaths
                              \/ tree.loops >= SearchCutoff /\ Cardinality(Ids(g)) <= 1
                              \/ tree.loops > SearchLoops
                              \/ Cardinality(Ids(g)) - 1 > SearchVertices
                              \/ edges > SearchEdges]

\* A turn without one is not counted: it leaves everything as it is.
SearchLoop ==
    /\ pc = "searching" /\ ~tree.stop
    /\ \E sample \in SampleVertex(settings, Draws(samplers.search, tree.source),
                                  tree.source, FALSE) :
           sample # <<>> /\ tree' = Searched(sample[1])
    /\ UNCHANGED <<vars, roundState, settings, samplers>>

\* The vertex the path leads to, in the graph with the target when it can be
\* tied; otherwise the nearest along the graph of those that came near.
Destination(g) ==
    LET tied == BoxFree(tree.target) /\ CanExpand(g, tree.target)
        grown == ExpandGraph(g, tree.target, "kUnvisited")
        r == ShortestPaths(g, 0)
        best == CHOOSE v \in tree.near :
                    \A u \in tree.near : ShortestDistance(r, v) <= ShortestDistance(r, u)
    IN  IF tied THEN [graph |-> grown, id |-> grown.idCount] ELSE [graph |-> g, id |-> best]

SearchEnd ==
    /\ pc = "searching" /\ tree.stop
    /\ pc' = "idle"
    /\ \E end \in IF tree.near = {} THEN { [graph |-> EmptyGraph, id |-> -1] }
                  ELSE { Destination(tree.graph) } :
           route' = IF end.id = -1 THEN NoRoute
                    ELSE [NoRoute EXCEPT !.kind = "search", !.poses =
                             PosesOf(end.graph, ShortestPath(ShortestPaths(end.graph, 0), end.id))]
    /\ tree' = NoTree
    /\ UNCHANGED <<vars, limits, field, count, lowGain, settings, samplers>>

-----------------------------------------------------------------------------
(* The global space.                                                       *)

Cuboid(min, max) == [type |-> "kCuboid", min |-> min, max |-> max, radius |-> 0]
SpaceBecomes(space, center) ==
    /\ settings' = [settings EXCEPT !.global = space, !.center = center]
    /\ UNCHANGED <<moves, robotVars, roundVars, graph, mapVars, roundState, samplers, tree>>

\* setGlobalBound: refused when the robot is outside; the centre that a
\* dynamic bound has set is not touched.
SetGlobalBound(min, max) ==
    /\ pc = "idle" /\ Asked
    /\ InsideSpace(Cuboid(min, max), <<0, 0>>, robot)
    /\ SpaceBecomes([settings.global EXCEPT !.min = min, !.max = max], settings.center)
ResetGlobalBound ==
    /\ pc = "idle" /\ Asked
    /\ SpaceBecomes([settings.global EXCEPT !.min = settings.default.min,
                                            !.max = settings.default.max], settings.center)

\* The box from the corner, whose sides go to the front and the left; it is
\* kept around its centre.
Half(min, max) == [k \in DOMAIN max |-> (max[k] - min[k]) \div 2]
SetDynamicBound(min, max) ==
    /\ pc = "idle" /\ Asked
    /\ \E half \in {Half(min, max)} :
           SpaceBecomes([settings.global EXCEPT !.min = [k \in DOMAIN half |-> -half[k]],
                                                !.max = half],
                        [k \in DOMAIN half |-> min[k] + half[k]])

\* The default corners, around half their difference.
ResetDynamicBound ==
    /\ pc = "idle" /\ Asked
    /\ SpaceBecomes([settings.global EXCEPT !.min = settings.default.min,
                                            !.max = settings.default.max],
                    Half(settings.default.min, settings.default.max))

-----------------------------------------------------------------------------
Init ==
    /\ MapInit
    /\ pc = "boot"
    /\ settings = <<>> /\ samplers = <<>>
    /\ limits = [vertices |-> 0, edges |-> 0]
    /\ field = [at |-> <<>>, targets |-> {}]
    /\ count = NoCount /\ lowGain = 0
    /\ route = NoRoute /\ tree = NoTree

\* A round in progress.
RoundStep == BuildLoop \/ BuildEnd \/ Evaluate
                \/ \E leaf \in Ids(local), remaining \in Budgets : Answer(leaf, remaining)

\* What the rest of the node does that a round depends on.  Zones are closed
\* where they are looked at.  Bound: not after the last round.
Around ==
    /\ pc = "idle" /\ triggers < MaxTriggers
    /\ \/ \E p \in Free : SetState(p)
       \/ Fenced /\ \E zone \in Zones : AddZone(zone, zone)
    /\ UNCHANGED <<roundState, nodeState>>

Next ==
    \/ \E file \in Files : Boot(file)
    \/ \E mode \in Modes : StartRound(mode)
    \/ RoundStep
    \/ \E source \in {robot} \cup SearchTargets, target \in SearchTargets : StartSearch(source, target)
    \/ SearchLoop
    \/ SearchEnd
    \/ \E b \in Bounds : SetGlobalBound(b[1], b[2]) \/ SetDynamicBound(b[1], b[2])
    \/ ResetGlobalBound
    \/ ResetDynamicBound
    \/ Around

Spec == Init /\ [][Next]_localVars /\ WF_localVars(RoundStep)

-----------------------------------------------------------------------------
(* Properties.                                                             *)

LocalTypeOK ==
    /\ TypeOK
    /\ pc \in {"boot", "shutdown", "idle", "building", "built", "evaluated", "searching"}
    /\ lowGain \in 0..(MaxLowGainIters - 1)
    /\ count \in [loops : Nat, vertices : Nat \ {0}, edges : Nat, stop : BOOLEAN]
    /\ limits \in [vertices : Nat, edges : Nat]
    /\ route.kind \in {"none", "local", "short", "landing", "homing", "global", "search"}
    /\ route.poses \in Seq(Places) /\ field.targets \subseteq Places

\* Whatever file the node was started with and however often the axes have
\* changed their distribution, what a round or a search draws from exists and
\* is of the bounds and deviation the axis has now.
DrawsAreCurrent ==
    /\ pc = "building" => \A i \in {1, 2} : Drawable(samplers.explore[i])
    /\ pc = "searching" => \A i \in {1, 2} : Drawable(samplers.search[i])

\* The loop of buildGraph ends within its limits, and its counters are those
\* of the graph; edges may be counted twice and are never missed.
BuildStaysInLimits ==
    pc = "building" =>
        /\ count.loops <= settings.planning.loops
        /\ count.vertices <= LargerOf(limits.vertices, 1)
        /\ count.vertices = Cardinality(Ids(local))
        /\ Cardinality(local.edges) <= count.edges

InRound == pc \in {"building", "built", "evaluated"}

\* The local graph of a round can be driven: every edge is known to be free
\* and crosses no zone that was closed before the round.
LocalEdgesAreFree ==
    LET place(v) == local.vertex[v].place IN
    InRound => \A v, u \in Ids(local) : {v, u} \in local.edges =>
                   PathFree(place(v), place(u), TRUE) /\ Passes(place(v), place(u), Fenced)

\* No vertex has been drawn out of the space the robot is in.
LocalVerticesAreInside ==
    LET inside(p) == InsideSpace(settings.global, settings.center, p) IN
    InRound /\ inside(robot) => \A v \in Ids(local) : inside(local.vertex[v].place)

\* What a round may drive along: both of these.
LocalGraphIsSafe == LocalEdgesAreFree /\ LocalVerticesAreInside

\* Looking at a shortlist first hides nothing: a round that counts as one of
\* low gain, or that hands over to the global planner, has no vertex that
\* shows anything.
EvaluationIsHonest ==
    [][ (pc = "built" /\ (lowGain' > lowGain \/ route'.kind = "global")) =>
            \A v \in Ids(local) : Gain(local.vertex[v].place) = 0 ]_localVars

\* A path that is sent to be driven begins where the robot is, and none of
\* its segments crosses a known obstacle or, where zones are respected, one
\* of them; refined or not, since a pose is kept unchecked only where the
\* pose before it left the way free.  Not refined, it is known to be free.
LocalPathIsSafe ==
    [][ (pc = "evaluated" /\ route'.kind = "local") =>
            /\ Head(route'.poses) = robot
            /\ \A i \in 1..(Len(route'.poses) - 1) :
                   /\ PathFree(route'.poses[i], route'.poses[i + 1], ~route'.refined)
                   /\ Passes(route'.poses[i], route'.poses[i + 1], Fenced) ]_localVars

\* An answer of the search begins at its source, and a robot can follow it as
\* far as is known.
SearchPathIsSound ==
    [][ (route'.kind = "search" /\ route' # route) =>
            /\ route'.poses # <<>>
            /\ pc = "searching" => Head(route'.poses) = tree.source
            /\ \A i \in 1..(Len(route'.poses) - 1) :
                   PathFree(route'.poses[i], route'.poses[i + 1], FALSE) ]_localVars

\* A round that was started ends: with a path, or with the global planner.
RoundEnds == InRound ~> pc = "idle"

=============================================================================
