------------------------ MODULE GlobalRepositioning ------------------------
(***************************************************************************)
(* The two planners on the cognitive map.  A round of local exploration    *)
(* builds and evaluates the local graph and commits its best path; when it *)
(* finds nothing, or little for several rounds, GlobalRepositioningPlanner *)
(* plans along the map to a frontier, chosen one by one or by the branch   *)
(* of the map it lies in.  A frontier chosen automatically is recorded and *)
(* local rounds are refused until the robot is near it.                    *)
(*                                                                         *)
(* Scores keep their order and their zeros: gains are counted in cells,    *)
(* the decay with distance is an integer quotient.  The averages that the  *)
(* choice between the two modes weighs are left open.                      *)
(***************************************************************************)
EXTENDS CognitiveMap

CONSTANTS
    ReachRange,          \* distance within which a target counts as reached, 5.0
    MaxLowGainIters,     \* max_num_low_gain_iters
    GoHome,              \* go_home_if_fully_explored
    AutoHoming,          \* auto_homing_enable
    RegionCount,         \* branch_repositioning_region_count
    EntryTolerance,      \* branch_entry_distance_tolerance
    SpareTime,           \* kTimeDelta, in cells of travel
    Budgets,             \* bound: remaining times a planner may find
    Batch,               \* graph_building_mode is kBatch, not kBasic
    MaxSamples           \* bound: vertices a planning round samples

\* A planner with no patience at all takes the first round for a barren one.
ASSUME PlannerAssumption ==
    /\ MaxLowGainIters \in Nat \ {0} /\ Budgets \subseteq Int /\ SpareTime \in Int

\* No path along the map is as long as the largest double, which the search
\* takes for none: the space has a diameter, and a map its number of vertices.
ASSUME ReachAssumption ==
    /\ MaxSamples \in Nat
    /\ \E far \in 0..Inf :
           /\ \A p, q \in Places : Dist(p, q) <= far
           /\ far * (MaxVertices + MaxSamples + 1) < Inf

VARIABLES
    target,      \* current_global_vertex_id_
    ongoing,     \* global_exploration_ongoing_
    trig,        \* auto_global_planner_trig_
    lowGain,     \* num_low_gain_iters_
    cacheReady,  \* branch.cache_ready
    homing,      \* homing_engaged_
    stranded,    \* in the middle of a call: the round found no vertex but the root
    answer       \* history: what the last handler answered, if it was a planner

globalVars == <<target, ongoing, trig, lowGain, cacheReady, homing>>
allVars == <<vars, globalVars, stranded, answer>>

Statuses == {"none", "kForward", "kRepositioning", "kHoming"}
NoAnswer == [status |-> "none", path |-> <<>>, goal |-> -1, auto |-> FALSE,
             hurried |-> FALSE, remaining |-> 0]

PlannerTypeOK ==
    /\ TypeOK
    /\ target \in 0..(MaxVertices - 1)
    /\ {ongoing, trig, cacheReady, homing} \subseteq BOOLEAN
    /\ lowGain \in 0..MaxLowGainIters
    /\ answer.status \in Statuses

-----------------------------------------------------------------------------
(* Scoring frontiers.                                                      *)

\* exp(-0.01 d): it falls with the distance and is nothing for the largest double.
Decay(d) == IF d >= Inf THEN 0 ELSE 60 \div (1 + d)

\* isRemainingTimeSufficient.
TimeSufficient(cost, remaining) == remaining - cost >= SpareTime

\* refreshGlobalFrontiers of some of the frontiers: the graph after it.
RefreshGlobalFrontiers(g, ids) ==
    [g EXCEPT !.vertex = [v \in Ids(g) |->
        IF v \notin ids \/ @[v].type # "kFrontier" THEN @[v]
        ELSE IF Gain(@[v].place) > 0 THEN Evaluated(@[v])
        ELSE [Evaluated(@[v]) EXCEPT !.type = "kUnvisited"]]]
FrontierIds(g) == { v \in Ids(g) : g.vertex[v].type = "kFrontier" }

\* What reaching the frontier and, with auto_homing_enable, returning costs.
TimeCost(here, home, v) ==
    ShortestDistance(here, v) + (IF AutoHoming THEN ShortestDistance(home, v) ELSE 0)

\* Fault: the way home is not counted.
CandidatesOneWay(here, home, ids, ignoreTime, remaining) ==
    { v \in ids : ignoreTime \/ TimeSufficient(ShortestDistance(here, v), remaining) }

\* collectFrontierCandidates.  The distance of a vertex without a path is
\* finite, and only the time check keeps it out.
Candidates(here, home, ids, ignoreTime, remaining) ==
    { v \in ids : ignoreTime \/ TimeSufficient(TimeCost(here, home, v), remaining) }

\* scoreFrontierCandidate.
Score(g, here, home, v, ignoreTime, remaining) ==
    g.vertex[v].gain * Decay(ShortestDistance(here, v))
        * (IF ignoreTime THEN 1 ELSE remaining - TimeCost(here, home, v))

\* applyTargetHysteresis: the recorded target stays while the best is not
\* better by global_frontier_stickiness_ratio, 1.15.
Sticky(score, ids, best, underway) ==
    IF /\ underway /\ target \in ids \ {best} /\ score[target] > 0
       /\ 20 * score[best] <= 23 * score[target]
    THEN target ELSE best

\* The first of the frontiers with the highest score.
BestOf(score, ids) ==
    CHOOSE v \in ids : \A u \in ids : score[u] < score[v] \/ (score[u] = score[v] /\ v <= u)

-----------------------------------------------------------------------------
(* Branches.                                                               *)

\* getTopologicalMapDegree.
Degree(g, v) == Cardinality({ u \in Ids(g) : <<v, u>> \in g.edgeMap })

\* findBranchRegionEntry: up the way home to the first junction.
Entry(g, home, frontier) ==
    LET up[n \in Nat, v \in Ids(g)] ==
            IF n = 0 \/ Degree(g, v) >= 3 \/ ParentID(home, v) = v THEN v
            ELSE up[n - 1, ParentID(home, v)]
    IN  up[Cardinality(Ids(g)), frontier]

\* aggregateRegionGain: the best of the branch and a quarter of the others.
RegionGain(score, ids) ==
    LET best == score[BestOf(score, ids)] IN
    4 * best + MapThenSumSet(LAMBDA v : score[v], ids) - best

\* buildScoredBranchRegions and applyNearestBranchEntryConstraint: the
\* entries of branches in the order of their scores, near ones only.
Regions(g, here, home, score, ids) ==
    LET worth == { v \in ids : score[v] > 0 }
        entries == { Entry(g, home, v) : v \in worth }
        distance(e) == ShortestDistance(here, e)
        near == { e \in entries : \A f \in entries : distance(e) <= distance(f) + EntryTolerance }
        merit(e) == RegionGain(score, { v \in worth : Entry(g, home, v) = e }) * Decay(distance(e))
    IN  SetToSortSeq(near, LAMBDA e, f : merit(e) > merit(f) \/ (merit(e) = merit(f) /\ e < f))

\* The frontiers of the best region_count branches.
InBestRegions(g, here, home, score, ids) ==
    LET first(regions) == { regions[i] : i \in { j \in DOMAIN regions : j <= RegionCount } }
        of(entries) == { v \in ids : score[v] > 0 /\ Entry(g, home, v) \in entries }
    IN  of(first(Regions(g, here, home, score, ids)))

-----------------------------------------------------------------------------
(* Choosing a target: [graph, goal, cache], the goal -1 when there is none. *)

\* The scores of some frontiers.
Scores(g, here, home, ids, q) ==
    [v \in ids |-> Score(g, here, home, v, q.ignoreTime, q.remaining)]
Affordable(here, home, ids, q) == Candidates(here, home, ids, q.ignoreTime, q.remaining)

\* Fault: the frontiers are taken as the map remembers them.
PointTargetCached(g, here, home, ids, q, underway) ==
    LET best(candidates) ==
            IF candidates = {} THEN -1
            ELSE BestOf(Scores(g, here, home, candidates, q), candidates)
    IN  [graph |-> g, goal |-> best(Affordable(here, home, ids, q))]

\* evaluatePointGlobalFrontiers.
PointTarget(g, here, home, ids, q, underway) ==
    LET best(score, candidates) ==
            IF candidates = {} THEN -1
            ELSE Sticky(score, candidates, BestOf(score, candidates), underway)
        choose(fresh, candidates) ==
            [graph |-> fresh, goal |-> best(Scores(fresh, here, home, candidates, q), candidates)]
        among(fresh) ==
            choose(fresh, Affordable(here, home, ids \cap FrontierIds(fresh), q))
    IN  among(RefreshGlobalFrontiers(g, ids))

\* The branch of selectGlobalFrontierTarget that filters by regions: frontiers
\* are preselected with the gains they had, and those alone are refreshed.
RegionTarget(g, here, home, ids, q, underway) ==
    LET best(score, candidates, final) ==
            IF final = {} THEN -1 ELSE Sticky(score, candidates, BestOf(score, final), underway)
        scored(fresh, candidates, score) ==
            [graph |-> fresh,
             goal |-> best(score, candidates,
                           InBestRegions(fresh, here, home, score, candidates))]
        among(fresh, candidates) ==
            scored(fresh, candidates, Scores(fresh, here, home, candidates, q))
        verify(fresh, chosen) ==
            among(fresh, Affordable(here, home, chosen \cap FrontierIds(fresh), q))
        preselect(first) ==
            InBestRegions(g, here, home, Scores(g, here, home, first, q), first)
        refresh(chosen) == verify(RefreshGlobalFrontiers(g, chosen), chosen)
    IN  refresh(preselect(Affordable(here, home, ids, q)))

\* selectGlobalFrontierTarget; without a frontier by region, by points.  The
\* frontiers are those the map had before.
SelectTarget(g, here, home, ids, q, underway, byRegion) ==
    LET otherwise(region) ==
            IF region.goal # -1 THEN region
            ELSE PointTarget(region.graph, here, home, ids, q, underway)
    IN  otherwise(IF byRegion THEN RegionTarget(g, here, home, ids, q, underway)
                  ELSE [graph |-> g, goal |-> -1])

-----------------------------------------------------------------------------
(* GlobalRepositioningPlanner::plan, from the state s of the planner and    *)
(* with the question q: the vertex asked for (0: choose a frontier),        *)
(* not_check_frontier, ignore_time, the time that remains, and whether the  *)
(* scores of the two modes say kRegion.                                     *)

State == [graph |-> graph, target |-> target, ongoing |-> ongoing, trig |-> trig,
          lowGain |-> lowGain, cacheReady |-> cacheReady, homing |-> homing,
          answer |-> NoAnswer]
Automatic(remaining, byRegion) ==
    [id |-> 0, notCheck |-> FALSE, ignoreTime |-> FALSE,
     remaining |-> remaining, byRegion |-> byRegion]

Unanswered == [NoAnswer EXCEPT !.status = "kRepositioning"]

PlanRefused(s, q) ==
    \/ Cardinality(Ids(s.graph)) <= 1
    \/ q.id \notin Ids(s.graph)
    \/ ~q.ignoreTime /\ q.remaining <= 0

\* Nothing left to explore: the way home, or another try at local exploration.
NoFrontier(s) ==
    LET goHome(tie) ==
            [s EXCEPT !.graph = tie.graph, !.homing = TRUE,
                      !.answer = [NoAnswer EXCEPT !.status = "kHoming", !.goal = 0,
                                                  !.path = Reverse(HomingPath(tie))]]
    IN  IF GoHome THEN goHome(TieRobot(s.graph))
        ELSE [s EXCEPT !.lowGain = 0, !.answer = [NoAnswer EXCEPT !.status = "kHoming"]]

\* validateManualGlobalTarget: time that is ignored costs nothing, and still
\* there must be enough of it.
ValidateManual(here, home, q) ==
    TimeSufficient(IF q.ignoreTime THEN 0 ELSE TimeCost(here, home, q.id), q.remaining)

\* A target: it is recorded when the planner was triggered, then the path is
\* sought.
Pursue(s, q, goal, here) ==
    LET path == ShortestPath(here, goal)
        recorded == IF s.trig THEN [s EXCEPT !.target = goal, !.ongoing = TRUE] ELSE s
    IN  [recorded EXCEPT !.answer =
            IF path = <<>> THEN Unanswered
            ELSE [status |-> "kRepositioning", path |-> path, goal |-> goal,
                  auto |-> q.id = 0, hurried |-> ~q.ignoreTime,
                  remaining |-> q.remaining]]

\* Fault: what selection returns is recorded before it is tested.
PursueChoiceUntested(s, q, here, choice) ==
    Pursue([s EXCEPT !.graph = choice.graph], q, choice.goal, here)

\* What selectGlobalFrontierTarget returned; by either way it has cached gains.
PursueChoice(s, q, here, choice) ==
    IF choice.goal = -1
    THEN [s EXCEPT !.graph = choice.graph, !.answer = Unanswered]
    ELSE Pursue([s EXCEPT !.graph = choice.graph, !.cacheReady = TRUE], q, choice.goal, here)

\* From a position tied to the map at vertex id.
PlanFrom(s, q, id) ==
    LET plan(here, home) ==
            IF q.id = 0
            THEN PursueChoice(s, q, here, SelectTarget(s.graph, here, home, FrontierIds(s.graph),
                                              q, s.ongoing, q.byRegion /\ s.cacheReady))
            ELSE IF ValidateManual(here, home, q) THEN Pursue(s, q, q.id, here)
            ELSE [s EXCEPT !.answer = Unanswered]
    IN  plan(ShortestPaths(s.graph, id), ShortestPaths(s.graph, 0))

Plan(s, q) ==
    IF PlanRefused(s, q) THEN [s EXCEPT !.answer = Unanswered]
    ELSE IF ~q.notCheck /\ FrontierIds(s.graph) = {} THEN NoFrontier(s)
    ELSE LET from(tie) ==
                 IF tie.id = -1 THEN [s EXCEPT !.answer = Unanswered]
                 ELSE PlanFrom([s EXCEPT !.graph = tie.graph], q, tie.id)
         IN  from(Anchor(s.graph, robot))

-----------------------------------------------------------------------------
(* The handlers.                                                           *)

\* The state of the planner becomes s.
Becomes(s) ==
    /\ graph' = s.graph /\ target' = s.target /\ ongoing' = s.ongoing /\ trig' = s.trig
    /\ lowGain' = s.lowGain /\ cacheReady' = s.cacheReady /\ homing' = s.homing
    /\ answer' = s.answer
    /\ Fits(graph')

\* Vertices that sampling may give: cells known to be free, in any number.
Samples ==
    { SetToSeq(S) : S \in UNION { kSubset(n, { p \in Places \ {robot} : BoxFree(p) })
                                  : n \in 0..MaxSamples } }

BuildGraph(samples) ==
    IF Batch THEN BatchGraph(robot, samples) ELSE BasicGraph(robot, samples)

\* After reset(); s.trig is FALSE.
Fresh == [State EXCEPT !.graph = ResetGraph, !.trig = FALSE]
RootOnly == AddVertex(EmptyGraph, Vertex(robot))

OnTheWay(s) == s.ongoing /\ Dist(robot, s.graph.vertex[s.target].place) > ReachRange
\* Fault: the flag outlives the graph it is about.
ExploreRefusedPending ==
    \E s \in {Fresh} :
        /\ OnTheWay(s)
        /\ Becomes([s EXCEPT !.answer = [NoAnswer EXCEPT !.status = "kForward"]])
        /\ local' = RootOnly /\ rep' = NoReport
        /\ UNCHANGED <<triggers, pending, robotVars, mapVars, bounds, stranded>>

\* A round is refused while the robot is on its way to a recorded target.
ExploreRefused ==
    \E s \in {Fresh} :
        /\ OnTheWay(s)
        /\ Becomes([s EXCEPT !.answer = [NoAnswer EXCEPT !.status = "kForward"]])
        /\ local' = RootOnly /\ rep' = NoReport /\ pending' = FALSE
        /\ UNCHANGED <<triggers, robotVars, mapVars, bounds, stranded>>

\* buildGraph finds no vertex but the root: the space around the robot is
\* taken for free, and the same call goes on with the global planner.
ExploreStranded(samples) ==
    \E s \in {Fresh} :
        /\ ~OnTheWay(s)
        /\ Cardinality(Ids(BuildGraph(samples))) = 1
        /\ Becomes([s EXCEPT !.ongoing = FALSE])
        /\ known' = known \cup StartupArea(robot)
        /\ stranded' = TRUE
        /\ triggers < MaxTriggers /\ triggers' = triggers + 1
        /\ local' = RootOnly /\ rep' = NoReport /\ pending' = FALSE
        /\ UNCHANGED <<robot, queue, prev, lastMark, history, mapVars, bounds>>
PlanStranded(remaining, byRegion) ==
    /\ stranded /\ stranded' = FALSE
    /\ Becomes(Plan(State, Automatic(remaining, byRegion)))
    /\ UNCHANGED <<robotVars, roundVars, mapVars, bounds>>

\* Fault: every round counts.
LowGainEveryRound(s, g, r) == s.lowGain + 1

\* Fault: the counter falls below nothing.
LowGainNoFloor(s, g, r) ==
    IF ~FrontierExists(g, r) \/ GoodLeaves(g, r) = {} THEN s.lowGain + 1
    ELSE s.lowGain - 1

\* The low-gain counter: it rises on a round that shows nothing.
LowGain(s, g, r) ==
    IF ~FrontierExists(g, r) \/ GoodLeaves(g, r) = {} THEN s.lowGain + 1
    ELSE LargerOf(s.lowGain - 1, 0)

\* CONSEC_LOW_GAIN: the planner is triggered, and its target will be kept.
ConsecLowGain(s, remaining, byRegion) ==
    /\ s.lowGain >= MaxLowGainIters
    /\ Becomes(Plan([s EXCEPT !.lowGain = 0, !.trig = TRUE], Automatic(remaining, byRegion)))

\* NO_GAIN: the planner is asked as well, without the trigger.
NoGain(s, g, r, remaining, byRegion) ==
    /\ s.lowGain < MaxLowGainIters /\ GoodLeaves(g, r) = {}
    /\ Becomes(Plan(s, Automatic(remaining, byRegion)))

\* The length of a path along a graph.
Steps(path) == 1..(Len(path) - 1)
Length(g, path) == MapThenSumSet(LAMBDA i : VertexDist(g, path[i], path[i + 1]), Steps(path))

\* getBestPath with auto_homing_enable: out of time, time to return, or on.
HomingDue(g, path, remaining) ==
    path # <<>> /\ Length(g, path) > remaining - SpareTime

BestPath(s, path, remaining) ==
    LET forward == [NoAnswer EXCEPT !.status = "kForward"]
        decide(g, home) ==
            IF HomingDue(g, home, remaining)
            THEN [s EXCEPT !.graph = g, !.homing = TRUE,
                           !.answer = [NoAnswer EXCEPT !.status = "kHoming", !.goal = 0,
                                           !.path = Reverse(home), !.hurried = TRUE]]
            ELSE [s EXCEPT !.graph = CommitVerifiedPath(g, path), !.answer = forward]
        return(tie) == decide(tie.graph, HomingPath(tie))
    IN  IF ~AutoHoming THEN decide(s.graph, <<>>)
        ELSE IF remaining <= 0
        THEN [s EXCEPT !.answer = [NoAnswer EXCEPT !.status = "kHoming", !.hurried = TRUE]]
        ELSE IF Cardinality(Ids(s.graph)) <= 1 THEN decide(s.graph, <<>>)
        ELSE return(TieRobot(s.graph))

\* A path to a leaf; the corridor may refine it, and the poses of a refined
\* path carry no types.
Forward(s, g, r, remaining, refined) ==
    /\ s.lowGain < MaxLowGainIters
    /\ \E leaf \in GoodLeaves(g, r) :
           LET path == PathVertices(g, LeafPath(r, leaf))
               bare == [i \in DOMAIN path |-> Vertex(path[i].place)]
           IN  Becomes(BestPath(s, IF refined THEN bare ELSE path, remaining))

\* A round with a local graph, evaluated; its frontiers are to be added.
Explore(samples) ==
    /\ triggers < MaxTriggers /\ triggers' = triggers + 1
    /\ \E s \in {Fresh} : \E g \in {Labelled(BuildGraph(samples))} :
       \E r \in {ShortestPaths(g, 0)} :
       \E t \in {[s EXCEPT !.ongoing = FALSE, !.lowGain = LowGain(s, g, r)]} :
           /\ ~OnTheWay(s)
           /\ Cardinality(Ids(g)) > 1
           /\ \E remaining \in Budgets : \E open \in BOOLEAN :
                  \/ ConsecLowGain(t, remaining, open)
                  \/ NoGain(t, g, r, remaining, open)
                  \/ Forward(t, g, r, remaining, open)
           /\ local' = g /\ rep' = r /\ pending' = TRUE
    /\ UNCHANGED <<robotVars, mapVars, bounds, stranded>>

\* getGlobalExplorationPath and checkGlobalExplorationStatus of the behaviour
\* tree, and the planner_global service: with what trigger was left.
GlobalPlanner(q) ==
    /\ queries < MaxQueries /\ queries' = queries + 1
    /\ Becomes(Plan(State, q))
    /\ UNCHANGED <<robotVars, roundVars, mapVars, moves, stranded>>

\* stopMsgCallback.
Stop ==
    /\ ongoing \/ trig
    /\ ongoing' = FALSE /\ trig' = FALSE
    /\ answer' = NoAnswer
    /\ UNCHANGED <<vars, target, lowGain, cacheReady, homing, stranded>>

Init ==
    /\ MapInit
    /\ target = 0 /\ ongoing = FALSE /\ trig = FALSE
    /\ lowGain = 0 /\ cacheReady = FALSE /\ homing = FALSE
    /\ stranded = FALSE /\ answer = NoAnswer

Rounds ==
    \/ ExploreRefused
    \/ \E samples \in Samples : ExploreStranded(samples) \/ Explore(samples)
Queries ==
    \E remaining \in Budgets : \E byRegion \in BOOLEAN :
        \/ GlobalPlanner(Automatic(remaining, byRegion))
        \/ \E id \in Ids(graph) : \E notCheck, ignoreTime \in BOOLEAN :
               GlobalPlanner([id |-> id, notCheck |-> notCheck, ignoreTime |-> ignoreTime,
                              remaining |-> remaining, byRegion |-> byRegion])

\* Bound: a behaviour is followed to its first load.
Next ==
    /\ ~loaded
    /\ \/ ~stranded /\ (Rounds \/ Queries \/ Stop)
       \/ \E remaining \in Budgets : \E byRegion \in BOOLEAN : PlanStranded(remaining, byRegion)
       \/ ~stranded /\ Upkeep /\ answer' = NoAnswer /\ UNCHANGED <<globalVars, stranded>>

Spec == Init /\ [][Next]_allVars

-----------------------------------------------------------------------------
\* A vertex that stands for a place on the graph: it is there, or as far from
\* a neighbour towards it as an edge may be long.
StandsFor(g, v, place) ==
    \/ g.vertex[v].place = place
    \/ \E u \in Ids(g) : /\ {u, v} \in g.edges /\ Dist(g.vertex[u].place, place) > EdgeMax
                         /\ g.vertex[v].place = Truncated(g.vertex[u].place, place)

\* A path along the map leads over edges that are there, from a vertex that
\* stands for the robot, to the goal; a frontier chosen by the planner is one
\* still, and shows something, however old what the map knew of it was.
PlannedPathIsSound ==
    answer.path # <<>> =>
        /\ \A i \in Steps(answer.path) : {answer.path[i], answer.path[i + 1]} \in graph.edges
        /\ StandsFor(graph, Head(answer.path), robot)
        /\ Last(answer.path) = answer.goal
        /\ answer.auto => /\ graph.vertex[answer.goal].type = "kFrontier"
                          /\ Gain(graph.vertex[answer.goal].place) > 0

\* Where the time counts, a path the planner chose leaves enough of it to
\* follow it, to come home along the map afterwards, and to spare.
TimeSuffices ==
    answer.path # <<>> /\ answer.hurried /\ answer.status = "kRepositioning" =>
        LET home == ShortestPath(ShortestPaths(graph, 0), answer.goal) IN
        answer.remaining - Length(graph, answer.path)
            - (IF AutoHoming THEN Length(graph, home) ELSE 0) >= SpareTime

\* While rounds are refused for a target, the target is a vertex of the map
\* and there is a path to it, until a zone cuts the map.
RefusalEnds ==
    ongoing /\ ~loaded => /\ target \in Ids(graph)
                          /\ cut \/ ShortestPath(ShortestPaths(graph, 0), target) # <<>>

\* A round that answers that there is nothing left to explore, with time left,
\* leaves nothing: no frontier on the map, and none that is still to be added.
ExploredMeansExplored ==
    [][ triggers' # triggers /\ answer'.status = "kHoming" /\ ~answer'.hurried =>
            \A g \in {graph', local'} : FrontierIds(g) = {} ]_allVars
=============================================================================
