# TLA+ models of SubtPlanner

SubtPlanner explores underground spaces with an aerial or ground robot. This
directory holds TLA+ modules of its control logic, of its cognitive map and of
the planners on it, the TLC configurations that check them on small instances,
and theorems about them that TLAPS checks for every value of the constants.
Paths below are relative to the repository root; most lie in `src/`.

## The system

Two ROS nodes and a map:

| component | code | state it keeps |
|---|---|---|
| control interface ("execution bridge") | `planning_core/planner_control_interface` | pending requests, mode, `run_en_`, `exe_path_en_`, `bound_mode_`, `current_path_`, revisit timing |
| path executor | `planning_core/pci_general`, `pci_manager.h` | `pci_status_`, `force_stop_`, `executing_path_`, `path_waypoint_ind_` |
| exploration manager: tree and leaves | `exploration_manager/src/exploration_manager_ros.cpp`, `exploration_state_nodes.cpp`, `configs/**.xml` | the running child of each memory node, failure counters of the leaves |
| coordinator | `exploration_manager/src/exploration_coordinator.cpp` | `bt_states_`, `in_srv_req_`, `out_srv_res_`, the older mode machine |
| local exploration | `local_exploration` | local graph and its report, low-gain counter, `auto_global_planner_trig_`, `global_exploration_ongoing_`, limits, the queue of odometry, the global space |
| local sampling | `local_exploration/src/local_exploration_sampling.cpp` | distributions of each axis, the field of passable directions |
| global repositioning | `global_repositioning` | target, cached gains, branch statistics, `dead_zone` (read by nothing that runs) |
| cognitive graph | `cognitive_map/cognitive_graph_model` | vertices by id, the id counter, edges in three records, k-d tree |
| voxel map | `cognitive_map/voxel_map` | occupancy (adapter over Voxblox) |
| geofence manager | `planning_core/planner_common/src/geofence_manager.cpp` | areas and the id counter |
| parameters | `planning_core/planner_common/src/params.cpp` | switches, budgets and spaces, read once |
| trajectory helpers | `planning_core/planner_common/src/trajectory.cpp` | none |
| behaviour-tree runtime | `third_party/behavior_tree_runtime` (vendored) | node status, child index |
| visualisation, panel, simulation, scripts | `visualization`, `simulation`, `scripts` | none that the planner reads |

How they interact. The operator (RViz panel, mission scripts) calls services of
the control interface, which only record a request. Its loop `run()` serves one
request per turn, 20 times a second, by priority, when the executor is
ready. Serving most requests means calling the exploration manager and handing
the path it returns to the executor. `planner_srv` ticks the behaviour tree
once; its leaves call the coordinator, which calls the local and the global
planner and writes one shared reply. Both planners, three timers and half a
dozen services write the cognitive map: the local planner builds a graph of its
own in each round and commits paths of it, the global planner searches the map
for a frontier, and the timers lay the track of the robot, add frontiers that
rounds left behind and sample near unvisited vertices. A stop is a service of
the control interface and a topic two subscribers of the other node listen to.

What is hard about it:

* **Nested callbacks.** Both nodes are single-threaded, so there is no data
  race; but `executePath` sleeps and calls `ros::spinOnce()` in the middle of a
  hand-over (`pci_general.cpp:449`). Any service, the timer, a path file and
  even another hand-over run there, and the interrupted function goes on with
  what it decided before.
* **State spread over calls.** The reply, the exhausted flag, the ongoing
  global target and the retry counters survive a call; who
  resets them is spread over several classes.
* **One map, many writers.** Ids, edges in three records, types of vertices and
  the report of a local graph are written by ten handlers in any order, some of
  them late; zones cut the map and a saved map replaces it.
* **What is cached.** Gains of frontiers, the choice of a shortlist, the
  distributions of the sampler and the field of directions are made at one time
  and used at another.
* **Stops.** A stop is at once a flag, a request with priority three, a force
  stop in the executor and two topic callbacks.
* **Retries.** Leaves that fail stay the running child of the tree and are
  retried on the next call; an executor error triggers the planner again.

`PROJECT.json` lists each of these at its line under `hazards`, with the
properties that would catch it or the reason why none does.

## Modules

| module | models | run by |
|---|---|---|
| `PathExecutor` | the executor: two-part hand-over, refusal, timer, stall, force stop, take-off | through `PlannerControl` |
| `PlannerControl` | control interface, EXTENDS `PathExecutor` | `control_*` |
| `ExplorationTree` | behaviour tree, leaves, coordinator handlers, outcomes of the planners | `tree_*` |
| `Geofence` | geofence manager and the three handlers that change it | `geofence_*` |
| `CognitiveGraph` | the graph as a value, with its operations, saving and loading | through the next ones |
| `CognitiveMap` | everything that writes the cognitive map but the planners | through the next ones |
| `PlaceMap` | abstract specification: what the map promises to those who keep ids | `repositioning`, `MapKeepsPromise` |
| `GlobalRepositioning` | both planners on the map, EXTENDS `CognitiveMap` | `repositioning`, `repositioning_track`, `repositioning_far` |
| `Parameters` | what the node reads at its start | `local_rounds` |
| `Sampling` | distributions and `sampleVertex`, EXTENDS `CognitiveMap`, `Parameters` | `local_rounds` |
| `PathRefinement` | `improveFreePath`, EXTENDS `CognitiveMap` | `local_rounds` |
| `LocalExploration` | a local round step by step and the search service, EXTENDS `Sampling`, `PathRefinement` | `local_rounds` |
| `MCRepositioning`, `MCFarDrive`, `MCLocalExploration` | the grids, zones, saved maps and parameter files of the map runs | |
| `PlannerControl_proofs`, `ExplorationTree_proofs`, `Geofence_proofs`, `CognitiveGraph_proofs`, `LocalExploration_proofs`, `GlobalRepositioning_proofs` | theorems | TLAPS |
| `FoldLemmas`, `CognitiveMap_proofs` | what folds and recursive functions keep; that every handler of the map keeps it sound | through the proofs |

The three families share no variables: the control interface sees the planner
as a reply, the tree sees the planners as outcomes with flags, and the map
models see a request as one call. Where they meet the same code is modelled at
two levels: `BestPath` of `ExplorationTree` is the outcome of what
`GlobalRepositioning` and `LocalExploration` compute.

### PathExecutor and PlannerControl

One step is one stretch of the control thread between two points where the
ROS callback queue is served. `pc` says where the thread is: `boot` (the
`spinOnce` loops of `init`), `loop` (the top of `run()`), `plan` (inside a
`planner_srv` call), `exec` (in the spin of a hand-over), `spin` (the `spinOnce`
at the end of a turn). Operator calls and timer ticks are enabled only where
the code spins (`Spinning`). `call` is the suspended hand-over with the local
variables it resumes with; path files nest on top of it and `files` counts them.

* `Suspend` is the first half of `executePath`, `CommitPath` and `RefusePath`
  the second, with everything the caller does after the return (`ResumeCall`).
* The branches of `run()` are `ServeHoming`, `ServeInit`, `ServeStop`,
  `ServeTrigger`, `ServeSearch`, `ServeGlobal`, `ServeGate`, `ServeWaypoint`,
  `RecoverFromError` and `QuietTurn`; `Chosen` is the if/else chain.
* `runPlanner` is `RunPlanner` and one `Plan` step for each reply:
  `PlanUnused`, `PlanExecuted`, `PlanPhaseDone`, `PlanEnded`, a failed call
  (`NextLevel`). The planner may reply anything its interface allows.
* A path is its number of poses and the caller that supplied it. The operator's
  services are `Trigger`, `RequestPath`, `RequestMotion`, `GoToWaypoint`,
  `SetGoal` and `StopPlanner`; `FollowFile` is the path-file topic.
* `ops` and `lastStop` are history. `lastStop` is "clean" when the stop found no
  hand-over suspended and "inFlight" otherwise; an operator call clears it.

### ExplorationTree

One step is one leaf. `node` is the leaf that runs next, `idle` between calls.
The memory of the runtime's sequences and of `KeepRunningUntilFailure` comes to
one variable: `stage`, the child of `lge_homing` that resumes on the next tick
(`local`, `global` or `homing`). `HomingCheck` is ticked first in every call,
because the fallback above it is reactive; when it succeeds the fallback halts
the exploration subtree (`HaltExploration` resets `stage`).

The planners' searches are nondeterministic here, their control is not:
`GlobalPlan` has every way `plan()` ends (no graph, invalid anchor, no frontier
left with or without going home, no feasible frontier, frontier selected with or
without a path) with the flags each leaves behind.
`target` is the selected frontier with its distance (`near` or `far`, the 5 m
test), `trig` and `frontiers` the flags that reach the next call,
`res` the shared reply. `decided` and `planned` are history of one call.

Left out because nothing reads them: `homing_triggered`,
`global_exp_exhausted`, and `bound_mode` of the request, which every call
overwrites. Fixed to what every shipped configuration sets: no opening
traversal, no automatic landing. `plan()` for an explicit vertex spins before it
reads anything, so callbacks nested there are the same as callbacks before it.

### Geofence

Polygons are rectangles of grid cells (unions are sets of cells): enough for
areas to be apart, touching, overlapping, nested and chained. `MergeFirst` is
one turn of the two nested loops up to their restart, with the removal by id as it
is written; `Merge` folds it over the areas, because each turn leaves one less. `zones` is history: the zones
the operator added and did not remove.

### CognitiveGraph, CognitiveMap and PlaceMap

`CognitiveGraph` has no variables: a graph is a record with the id counter, the
vertices under their ids, and the edges three times, as the code keeps them
(`edges`, the boost graph; `edgeMap`, `edge_map_`; `neighbors`). Each operation
writes the records the code writes and reads the one the code reads: shortest
paths use the first, `removeEdge` and the zones the third, the degree of a
junction the second. A shortest path among several of one length is one of them,
the same each time. The largest double that stands for "no path" is `Inf`.

`CognitiveMap` puts two such graphs, the map (`graph`) and the graph of the last
round (`local` with its report `rep`), into a space of cells of which the robot
knows some. `PathFree` is `getPathStatus`, with and without
`stop_at_unknown_voxel`; `Gain` counts the unknown cells in view. `Tie` is the
one idea behind anchors, homing queries and committed paths: the vertex that is
there, a link that nothing checks, or `expandGraph`. One action is one handler,
because the node runs one at a time: odometry, three timers, markers, homing
queries, waypoints, zones, saved maps. Odometry only fills a queue; the timer
lays it out later. The track begins at the nearest vertex of the map
(`TrackStart`), which may be far: `getNearestVertexInRange` hands it out before it
compares the range, and the timer does not look at the result. The edge that ties
the first vertex of the track to it has any length and nothing checks it.
While the timer lays a vertex it borrows the ranges of connection and gives back
`edge_length_max` for all three, not what they were; `RangeAssumption` says that
they were that. `pending` is `add_frontiers_to_global_graph_`: the frontiers
of a round are added by the timer or by the reset of the next round.

`PlaceMap` is the abstract specification: numbered places and links. A place
keeps its number and where it is, numbers are dense, a link goes only with a zone
one of its ends is in, until a saved map replaces all of it. Everyone who keeps an
id of the map (the target, the track, a path along it) relies on that and on
nothing else. `KeepsPromise` is the refinement, with the ids of the graph for
numbers and one of its three records for the links.

### GlobalRepositioning

The two planners, one action for each call, on the map. `Explore` is a whole
round: reset, build, label, evaluate with the low-gain counter, and one of its
three ends (`Forward`, `NoGain`, `ConsecLowGain`); `ExploreRefused` the round that
is refused while the robot is on its way to a recorded target, and
`ExploreStranded` one that finds nothing but the root. `Plan` is
`GlobalRepositioningPlanner::plan`: refused, no frontier left (home, or another
try), a manual target, or a choice among frontiers by points (`PointTarget`) or by
branches (`RegionTarget`) with `Sticky` hysteresis, the entry of a branch found up
the way home and the rule that near entries go first. `Pursue` records the target
before the path is sought, as the code does.

### Parameters, Sampling, PathRefinement, LocalExploration

`Parameters` says what a file means: a record of blocks, each a record of the keys
it has. A missing key has a default, switches something off, or makes the node
shut down; `Settings` is what the rest reads. `Sampling` keeps for each axis the
distribution named and the one built, and which of its parameters the built one
has; a draw is any value the built one can give. `SampleVertex` is what may come
of one try: nothing, or a cell that passed every test. `PathRefinement` is
`improveFreePath` with any corridor, since the corridor is a numerical search:
what the refinement promises must not depend on it.

`LocalExploration` opens the round that `GlobalRepositioning` takes in one step:
`pc` goes from `boot` through `building` (one step for each turn of the loop of
`buildGraph`), `built`, `evaluated` back to `idle`. `count` has the counters of
the loop as the code counts them. `Shortlists` and `FullyEvaluated` are the
evaluation of a part with its second pass; `Answer` is `getBestPath`: landing,
homing, or a path, truncated, refined and committed. The search service grows its
own graph (`tree`) with the second sampler, and the services of the global space
change it between rounds.

## Runs

| run | configuration | shows |
|---|---|---|
| `control_requests` | paths of up to 2 poses, 2 operator calls, 1 path file, reconnection and stall detection on, fairness | the invariants of the control interface; stops are answered, triggers served or withdrawn, a last stop settles |
| `control_stop` | the same without fairness or reconnection | finding: the stall recovery triggers the planner after a stop |
| `control_gate` | the same | finding: a gate request survives a stop |
| `geofence_zones` | a 3 x 2 grid, up to 2 configured areas, 4 ids | ids stay unique, zones in force are closed, nothing else is |
| `geofence_merge` | the same | finding: merging two configured areas loses one |
| `tree_tick` | one tolerated failure (the code has 3), all eight configurations, fairness | replies are consistent, flags do not leak, retries end |
| `tree_fallback` | the same without fairness | finding: a way home keeps an old fallback flag |
| `tree_retrigger` | with fairness | finding: an unreached frontier is never planned to again |
| `repositioning` | a corridor with a side room on a 4 x 2 grid; 2 rounds, 1 odometry message, 1 query, marker, zone or load, 5 vertices, remaining times 0 and 2 | the cognitive map stays whole under all its writers, the planners' targets and paths are sound, and the map implements `PlaceMap` |
| `repositioning_track` | the same corridor; 3 odometry messages of which only the last is kept, 1 round, 7 vertices, no queries, markers, zones or loads | home stays reachable when the track begins at a vertex two or three cells away, farther than an edge may be, or around a corner |
| `repositioning_far` | a corridor of four cells with a bend, 3 odometry messages, ties of at most 2 cells | finding: an unchecked edge of a committed path is filled with a vertex in an obstacle |
| `local_rounds` | a 3 x 2 grid, nine parameter files of which two run and seven are refused, two bound modes, 2 rounds, 1 odometry message, 1 service call, fairness of a round | a round stays in its limits, is honest about gain, answers a path that can be driven, and ends |

### Properties

Control interface:

* `WaypointIndexInRange`: a running executor's index is inside the path. The
  path, its index and the status are written by both halves of a hand-over, by
  the timer, by a stop and by nested files.
* `FollowedPathIsRecorded`: with no hand-over suspended, a path the planner or a
  goal asked for is followed only while `current_path_` holds it; the stall
  recovery and the next planning root rely on that.
* `QuietAfterStop`: after a stop outside a hand-over the planner is not asked,
  and nothing but holding the pose (and a gate request, see the finding) moves
  the robot, until the next operator call.
* `NoPlanUnderPendingStop`: not even a homing request, which is served first,
  reaches the planner while a stop waits.
* `ManualGlobalPathIsTimed`: a repositioning path that runs for the operator is
  timed although the timing can be ended by a stop inside its own hand-over.
* `StopIsAnswered`, `TriggerIsServed`, `StopSettles`: liveness of the same.

Exploration tree:

* `ExhaustionIsConsumed`: the exhausted flag is acted on in its own tick, and a
  good local path is never discarded.
* `HomeOnlyWhenDecided`: every tick searches a way home and leaves it in the
  reply, whatever it decides; the bridge executes a path whatever its status.
  So no reply may lead home unless that call decided it.
* `RepositioningIsFlagged`: paths and the fallback flag of a reply agree.
* `SearchIsGivenUp`, `HomingIsGivenUp`: a failing leaf is retried once a call,
  and the retries end.

Geofence: `IdsAreUnique`, `ZonesAreRespected`, `NothingElseIsClosed`.

Cognitive map and repositioning:

* `IdsAreDense`, `EdgesAgree`: what scans and removals rely on, in both graphs.
* `HomeIsReachable`: until a zone cuts the map, every vertex has a way home and so
  has the robot whenever its position can be tied to the map. In `repositioning` its
  fault is a vertex of the track whose edge is left to `expandGraphEdges`; in
  `repositioning_track` an edge that is added only when the vertex is in range,
  which shows only where the map is far.
* `PendingFrontiersAreReachable`: while frontiers wait to be added, their graph
  and its report are still there and agree.
* `SavedMapIsSound`: whatever the map has become can be saved and loaded.
* `VisitedStaysVisited`: of five handlers that write types, none makes a visited
  vertex a goal again.
* `KeepsPromise`: the refinement of `PlaceMap`.
* `PlannedPathIsSound`, `TimeSuffices`: a path leads over edges that are there from
  the robot to a target that shows something when it is chosen, and leaves the time
  to come home.
* `RefusalEnds`: rounds are refused only for a target that exists and has a way to
  it. This is the part of `tree_retrigger` the planners do get right.
* `ExploredMeansExplored`: a round that says everything is explored leaves no
  frontier on the map and none that is still to be added.

Local rounds:

* `DrawsAreCurrent`: whatever file the node read and however often axes changed,
  a draw is from a distribution that was built, with the parameters of now.
* `BuildStaysInLimits`: the counters are those of the graph, and the loop respects
  them although edges may be counted twice.
* `LocalGraphIsSafe`: every edge of the graph of a round is known to be free and
  crosses no zone, and no vertex was drawn out of the space.
* `EvaluationIsHonest`: a round counted as one of low gain, or handed to the global
  planner, has no vertex at all that shows anything, the unlisted ones included.
* `LocalPathIsSafe`: after truncation, joining and refinement the answer still
  begins at the robot, and crosses no known obstacle and no zone.
* `SearchPathIsSound`: the same of the search, from its source.
* `RoundEnds`: liveness, under fairness of a round's own steps.

Every property has a mutant in `PROJECT.json`: a definition of the model
replaced by a plausible fault, defined just before it, that makes TLC report
that property.

### Bounds and why they are enough

* `MaxWaypoints = 2`. The executor tells a first, a last and a middle waypoint
  apart only by the comparison of the index with the length; two poses are the
  shortest path it accepts and have a first and a last. The theorems hold for
  every length.
* `MaxOps`, `MaxFiles`. Each hazard needs at most a request, a stop inside its
  hand-over and one more call; three calls and one file nested in a
  hand-over produce them all. The theorems hold for every value. Two calls keep
  the liveness graph small and include a trigger followed by a stop.
* `MaxTries = 1`. The counter is compared with the limit only: below it, at it,
  past it. The model stops counting one past the limit, because no guard tells
  larger values apart (a counter stays past it until a success).
* The grid of the geofence has rectangles that are apart, that touch at a corner
  or a side, that overlap, contain each other and chain; four ids allow two
  configured areas, their union and a zone, or four zones.
* The two grids of the map models have free cells, obstacles, a junction and cells
  out of sight of the start. Ranges of the code keep their order and are counted in
  cells; two that are closer than a cell fall together (the 0.5 m and 0 m of
  "already there").
* Two rounds: the first leaves frontiers, low gain or a target behind, the second
  meets them. One move lets the robot be away from the root, one query puts a
  marker, a zone, a homing vertex or a saved map between them. Five vertices of the
  map hold home, a committed path, a frontier and a tie. Longer behaviours repeat
  these: no counter but the low-gain one lives longer than two rounds, and its limit
  is 2.
* Three moves with a queue of one, in `repositioning_track`: the timer that lays the
  track may be late, and of the queue only the newest state is left. So the first
  state it lays out is up to three cells from the only vertex of the map, past
  `OdomDist` (one) and past `EdgeMax` (two), and beyond the obstacle between home and
  the side room. With the single move of `repositioning` the nearest vertex is
  always in range.
* A behaviour of `repositioning` is followed to its first load of a saved map:
  after it the ids kept elsewhere point into freed memory, and the code has no
  defined behaviour left.
* Remaining times: none, so little that only the near can be afforded, and (local
  rounds) plenty.

No symmetry is used. Deadlock is checked in every run but the three of
`GlobalRepositioning` and `local_rounds`: there a behaviour may come to its end, at the bounds above, at a
load, and after the shutdown that a bad parameter file causes.

### Fairness

`PlannerControl!FairSpec` is `WF(Thread)` and `SF(Timer)`. The thread never
blocks for good: `run()` is a 20 Hz loop, sleeps are bounded, and a planner
call returns (a call to a dead server fails). The timer is due every 50 ms but
is served only inside spins, which come and go; a spin may return before the
timer is due, but not every spin, so the timer is strongly fair. Operators are
never assumed to act.

`ExplorationTree!FairSpec` is `WF(Tick)`: a tick is one function call. Nothing
makes the bridge call again, so the two liveness properties have the premise
`CallsGoOn`: in automatic mode `run()` calls the planner on every turn that
finds the executor ready. The planners' choices get no fairness: a search may
fail for ever, and the properties hold because of the counters.

`LocalExploration!Spec` has `WF(RoundStep)`: a round is one call of a
single-threaded node, which runs its own statements to the end and waits for
nobody. Which sample a try gives is not fair: `RoundEnds` holds when every try
fails, because failed tries are counted. The loop of the search counts only tries
that succeed and gets neither fairness nor a liveness property: it may not end.

## Theorems

`PlannerControl_proofs` proves, for every path length, every number of operator
calls and files, and either value of the two parameters, the six invariants of
`control_requests`. None but the typing is inductive. `IInv` adds

* `ThreadInv`: the thread is in `exec` exactly when a call is suspended, files
  are suspended only where the code spins, and the planner is asked only by a
  ready executor;
* `RecordInv`: while a call is suspended only a file's path can be running:
  this is what makes the gap between the two halves of a hand-over harmless;
* `QuietInv`: what a clean stop leaves behind (manual mode, no `run_en_`, no
  request but a gate, no recorded path, and what may be running).

`TimedInv`, for `ManualGlobalPathIsTimed`, is proved on top of `IInv`, with one
step for each action that can start a path or end a timing.

`ExplorationTree_proofs` proves the four invariants of `tree_tick` for every
number of tolerated failures. `IInv` says at each leaf what the flags and the
partial reply are worth: the exhausted flag is only up between the two local
leaves and the global one (`ExhaustedInv`), a way home in a partial reply is
tolerated until the leaf that must overwrite it (`DecidedInv`), and the flag
agrees with the path from the leaves that check it on (`FlagInv`). Lemmas state
what `GlobalPlan` and the local planner can return.

`Geofence_proofs` proves the four invariants of `geofence_zones` for every grid,
every number of areas and any id an operator may ask to remove. The zones are
inductive only with what the merge leaves behind: ids below the counter and
distinct (`Lists`), every area a zone in force or covered by what is configured
(`OthersAreConfigured`), and no square in two configured areas
(`OthersAreApart`), so that removing one opens no square of another.
`RemovalKeepsList`, `MergeFirstKeeps` and `MergeMerges` say what a removal, a turn
of the merge and all its turns do; that the turns suffice is proved from the length
of the list, which each shortens.

`CognitiveGraph_proofs` is about the operations of the graph and no
specification. `AddVertexAdds`, `AddVertexInStep`, `AddEdgesAdds` and
`AddEdgesInStep` say what a graph becomes as it grows. `RemovalKeepsRecords`:
whatever edges a zone cuts, the three records lose the same ones in both
directions. `SavedGraphLoads`: a graph with dense ids and records in step that is
saved and loaded has its ids, its counter, its edges and its places again; the
type of a vertex is not in the message and is not claimed.

`FoldLemmas` makes the model's folds and recursive functions usable in proofs.
The library's induction rules take an operator as a parameter, which no installed
prover instantiates. So the induction is on a set of numbers instead: a set that
holds 0 and, with each number below a bound, the next one holds all up to the bound
(`UpTo`, from a least element of the rest). A recursive function is shown to exist
from its beginnings, size by size (`SetFoldExists`, `IterationExists`), and then a
set that contains the start and is closed under the step contains the result
(`FoldKeeps`, `FoldStays`, `SetFoldKeeps`). What is proved this way is what the result
keeps. The one value that is proved is that of a sum: a function from each set to a
number, one step of the fold at a time, is the sum (`SumsTo`, `SumExists`,
`SumUnfolds`), and the differences of a sequence sum to last minus first
(`Telescope`).

`CognitiveMap_proofs` says of every operator that writes a graph that it stays
sound (`Graphs`: finite, ids from 0 to the counter, the three records of the edges
in step, edges between vertices of it). `Grown(g)` is the set of sound graphs
with the vertices of `g` where they were, visited ones still visited, and all its
edges. Every growing operator leads from `g` into `Grown(g)`: ties
(`TieIsTie`), interpolation and committed paths (`InterpolatedGrows`,
`CommittedGrows`), frontiers (`FrontiersGrow`), seeds, types and refreshed gains.
`ClustersAreVertices` says that the clusters of frontiers consist of vertices of
their graph; `CutIsGraph`, `BatchIsGraph` and `LoadedIsGraph` are the three operators that
do not grow their graph. The second half is the search. `SearchIsTree` says that a
finished report is a tree of shortest distances (`IsTree`): the start has distance 0,
every vertex with a parent hangs on it by an edge that is exactly the difference of
their distances, no edge is a short cut, and parents lead back to the source without
a cycle. The last needs a rank, because two vertices may be at the same place: the
search orders them by distance and then by the number of edges. Which vertices it
reaches is a matter of the graph being in one piece, `Linked`: a set that holds the
root and is closed under edges is all of it. That form needs no path to be named, so
each operator can be shown to keep it on its own (it is part of `Grown`; a graph built
in a batch has it from the spreading of `kept`, `SpreadStaysJoint`, `JointIsLinked`),
and `LinkedIsReachable`, `SearchReaches` and `PathsReach` turn it into a path for every
vertex. `PathLeads` is what
a caller of `PathFrom` gets: the path copied out of the report starts where the
search did, ends at the vertex asked for, takes an edge of the graph at every step,
and each edge is the difference of the distances at its ends (`Leads`).

`GlobalRepositioning_proofs` is the specification of the run `repositioning`, for
every space, every set of saved maps and zones and every bound. `IInv` is
`RobotInv` and `ZoneInv` (where they may be), `RoundInv` (the local graph is
sound and its report is about it), `MapInv` (the map is sound and fits its
bound), `TrackInv` (the last vertex of the track is on the map until a load) and
`PlannerInv` (so is the target of an ongoing repositioning). There is a lemma for
each handler. The planners, which are functions from one state to the next, are
proved first as such: `PlanFollows` and `BestPathFollows` say of every branch of
`plan()` and of `getBestPath` what it may leave. Besides `IInv'` each lemma gives
`MapStep`: a step of any handler lets the map grow, or cuts it at closed zones,
or opens zones and leaves it, or loads another.

What the planners answer is one more invariant, `AnswerInv`, kept by the same lemmas.
A path is stated along the map first (`Along`: from one vertex to another, an edge at
every step); it stays one when the map grows and when it is turned round
(`AlongGrown`, `AlongReversed`). A path of a report is one, and its edges sum to the
distance of the report (`FoundPath`, `PathLength`). Between the search and the
answer the planner may tie clusters to the map, so the distances of an old report are
only bounds: on the grown map a shortest path is no longer than on the old one
(`GrowthShortens`, `GrownPathLength`), which is what makes the time check of `plan()`
an upper bound of what the answer costs. `Justified` says of an answer that its path
is `Along` the map, from a vertex that stands for the robot to the goal, that a goal
chosen by the planner is a frontier that shows something, and that, where time counts,
what is left covers the path and the way home from its end. `PursuitIsJustified`,
`HomewardIsJustified`, `ChoiceIsJustified`, `PlanIsJustified` and `BestPathIsJustified`
follow the branches of `plan()` and of `getBestPath`; every other handler discards
the answer.

From `IInv` and `MapStep` follow

* `IdsStayDense`, `EdgesStayAgreed`, `SavedMapStaysSound` and the typing;
* `VisitedPlacesStayVisited`, the action property;
* `AnswersAreJustified`, and from it `PathsAreSound` and `TimeStaysEnough`: a planned
  path runs along edges of the map, from a vertex that stands for the robot to where
  it is sent, and an answer that does not lead home leaves time to return;
* `MapStaysLinked` (the edges of the track are those of the code, the far one at its
  beginning included), and from it `HomeStaysReachable` and `RefusalCanEnd`: until a zone
  cuts it the map is in one piece, so the search finds a way home from every vertex
  and from the robot, and a way to the target that rounds are refused for (which
  exists, `TargetStaysOnMap`, also on a map that was cut);
* `PendingStaysReachable`: the same for the local graph whose frontiers are still to
  be added. `PendingInv` adds that the graph and the report kept are those of one
  round;
* `ExploredIsExplored`: a round that says all is explored, and not because of the time,
  leaves no frontier on the map and none in its local graph. It rests on the
  round having shown nothing: a vertex of type `kFrontier` shows something in every new
  graph (`LabelsAreTrue`), lies on the path of a leaf and would make that leaf a good one
  (`BarrenIsExplored`, from `LeavesCover` and `GainOfPath`). Only a round without gain
  raises the counter to its limit, which is where the limit must be at least one. Of
  `plan()` it says that every branch but one answers something else or hurries
  (`PlanConcludes`, `BestPathConcludes`), and that in that one, which ties the robot to
  the map, no vertex gets a label (`TiedUnlabelled`);
* `MapKeepsPromise`: the map implements `PlaceMap`, step by step. It begins empty;
  growth is `Grow`, a cut is `Cut`, opened zones are `Open`, a load is `Restore`.

`LocalExploration_proofs` rests on `CognitiveMap_proofs`, because a local graph is
grown by the same operators, and proves for every space, set of files and bound:

* `BuildInLimits`: the loop of `buildGraph` stays within its limits and counts its
  graph. `PathAssumption` is what the counting of edges in both directions rests on: a
  straight path is the same from either end.
* `LocalGraphIsConsistent`: for as long as its round is on, the local graph has what
  `IdsAreDense` and `EdgesAgree` ask of a graph.
* `LocalGraphCanBeDriven`: every edge of it can be driven.
* `LocalGraphStaysSafe`: in a cuboid space also every vertex is in the space. A vertex
  need not be a point that was drawn: an edge too long is cut short, and the cut end
  is never compared with the bounds. It is in the space because it lies between two
  points that are, and a cuboid is convex (`CuboidIsConvex`, `TruncatedIsBetween`,
  `LoopStaysInside`). All files the repository ships give a cuboid as the
  global space; in a cylinder or a
  sphere TLC checks the same on a grid.
* `SamplersStayCurrent`: what a round or a search draws from has the range and the
  deviation it was set to, whatever file was read.
* `SearchPathsAreSound`: what a search answers begins at its source and no segment of
  it meets a known obstacle. `SearchInv` adds what the search keeps: a graph grown
  from the source, with edges that can be driven and no more vertices than allowed, and
  the vertices near the target among its ids. By `DestinationIsReached` the end that is
  chosen can be reached: the graph is in one piece and no way along it adds up to `Inf`.
* `LocalPathsAreSafe`: the path of a round begins at the robot, meets no known obstacle
  and, where zones are respected, crosses none, refined or not. `RoundInv` adds that the
  local graph is rooted at the robot and that, once evaluated, its report is a tree of
  shortest paths in it. A path to a leaf follows edges, and so does the part of it the
  robot traverses (`PrefixFromRoot`). The refinement is a fold over the poses that works
  on whatever it has made so far. What it keeps is `Courses` (safe from pose to pose)
  when poses are left out, and `Refinings` when they are moved: the poses up to this one
  are a course, and the way from this one to the next, which is not moved yet, is safe
  too. The second half is why a pose may be kept unchecked.
* `EvaluationStaysHonest`: a round that counts as one of low gain, or that hands over to
  the global planner, has no vertex that shows anything. The code judges a round by the
  paths of leaves only, and looks at a shortlist of vertices first. Neither hides
  anything (`NothingIsHidden`): every vertex is on the path of a leaf beyond the root
  (`LeavesCover`: of the vertices it is on the way to, one that was settled last is
  nobody's parent), the path of a leaf shows a sum of naturals (`GainOfPath`), and a
  shortlist without a frontier is not believed. `JudgeInv` adds that no round is so large
  that the search misses a vertex, and that the counter stays below the number of rounds
  that ends it, so that a round with a gain never reaches it.
* `LocalTypesHold`: the typing. `GraphsInv` adds that the map and the local graph are
  sound, that the map fits its bound, and that a report is about the local graph or
  says nothing. An answer
  commits its path, refined or not, and `ForwardIsKept`, `HomewardIsKept` and
  `AnswerIsKept` follow every branch of `getBestPath` to a sound map and to poses that are
  places; `JoinedPoses` and `RefinedPoses` say that of the two folds of the refinement,
  whether or not the path meets an obstacle. `AroundInv` and `KindsInv` are the rest.

None is inductive. `IInv` adds that the local graph is `Built` (sound, in one piece,
with a vertex) and that settings, once read, count. `SpaceInv` adds the space and
its corners. `DrawsInv` adds to what is drawn that both samplers are `Ready`: a reset
of any axis would leave something to draw (`ResetIsDrawable`), and every operation on
an axis ends in one. The lemmas are about the
operators: `ExpandGraphAdds` that an expansion adds one vertex and only edges that
can be driven, `EvaluationKeepsEdges` that evaluation changes neither,
`SetParamsDraws` and `LoadedSamplers` what `setParams` makes of a file.

The proofs assume only the named assumptions on the constants, which TLC
evaluates:

* `ExecutorAssumption`, `ControlAssumption`, `TreeAssumption`, `GridAssumption`,
  `BoundAssumption`, `PlannerAssumption`, `FilesAssumption`: numbers are numbers,
  markers and zones lie in the space, and the planner tries at least one round before it
  gives up (`max_num_low_gain_iters`: the default is 3, the files shipped say 7).
* `RangeAssumption`: `nearest_range` and `nearest_range_max` are `edge_length_max`, as in
  every file the repository ships. With another file the first vertex of a track would
  change them for the rest of the mission (`local_exploration_planner.cpp:871-872`).
* `SpaceAssumption`: the space is finite (a bounded part of it at the resolution of
  the voxels), distance is symmetric and tells places apart, and a segment lies in
  the space.
* `PathAssumption`: a segment is the same from either end and has a point at every
  distance, which drawing short relies on.
* `ReachAssumption`: no way along a map within its bound is as long as `Inf`, the number
  that stands for "no path" (the code's largest double, which no sum of edges of a
  bounded space comes near).
* `SavedMapAssumption`: a saved map is what `saveGraph` writes, ids from 0 and edges
  between them. The file is not checked by `loadGraph`, so another file is a case the
  theorems do not cover.

* `PlaneAssumption`: a position has two coordinates that are whole numbers, the bounds
  of a file and of the services too, and what lies between two positions lies between
  them on each axis.
* `SamplersAssumption`: an axis that draws from a range has one, a deviation does not
  vanish when it is scaled to its range (the model divides whole numbers where the code
  divides floating ones), and no axis of a search is of the kind that switches from one distribution to another
  (`kNormalUniform`): only a round makes the switch, so a search would draw from a
  distribution that was never built. `Boot` of the model, like the code, checks none of
  the three; the files the repository ships have them.
* `SearchAssumption`: the same as `ReachAssumption` for the graph of a search, which has
  its own limit on vertices; the targets asked for lie in the space.
* `RoundAssumption`: the same for the graph of a round, whose limit comes from the file
  and is raised by at most 169 hundredths; and there, too, at
  least one round is tried.

Model-checked only:

* Liveness (`StopIsAnswered`, `TriggerIsServed`, `StopSettles`, `SearchIsGivenUp`,
  `HomingIsGivenUp`, `RoundEnds`): fairness and ENABLED are out of the prover's
  reach here.
* `LocalGraphIsSafe` in spaces that are no cuboid.

## Findings

1. `planner_control_interface.cpp:651`: after an executor error the code does
   not wait for the operator, it triggers the planner again; a stop inside a
   hand-over ends there.
2. `planner_control_interface.cpp:241`: `resetPlanner` does not cancel a
   pending gate request: it is served after the stop that came later.
3. `geofence_manager.cpp:130`: the second removal of a merge uses an index the
   first one shifted.
4. `planner_srv.srv:33`: the fallback flag of the reply is stale after a homing
   decision.
5. `local_exploration_graph.cpp:460`: a frontier not reached is announced to
   retrigger repositioning, and only makes local planning fail.
6. `local_exploration_integration.cpp:1332`: a committed path that starts far from
   the map is tied by a vertex drawn short; the edge from there to the second vertex
   is not checked, and filled with vertices.

Met while modelling, in the models as the code has them, and without a run that
states a promise: a waypoint query whose position cannot be tied prints the id of
a null vertex (`GlobalPath`); a semantic marker beyond a bend adds nothing
(`Semantics`); a missing sampling mode is compared under the name of the
distribution (`AxisLoads`); the reset of a dynamic bound moves the centre
(`ResetDynamicBound`); cutting edges around a zone searches from an uninitialised
centre (`AddZone`); the range asked of `getNearestVertexInRange` has no effect where
the track begins, so an edge of any length, through an obstacle too, may tie it
(`TrackStart`); laying a vertex resets two ranges to a third
(`RangeAssumption`); a map loaded during a mission leaves target and track behind
(`LoadGraph`).

## Not modelled

* Composition of the two nodes. The order in which a stop and a homing request
  that cross reach the two nodes is not modelled; each side has both callbacks in
  any order. The product of the two state spaces is past what TLC checks in
  minutes with bounds at which anything happens.
* The behaviour-tree runtime itself. It is third-party; the loaded tree is fixed
  and its memory is the variable `stage`.
* The older `planner_srv` handler of the coordinator with its mode machine and its
  compartment counter: every launch file maps the planner server to the behaviour
  tree's node, so nothing calls it.
* Opening traversal and compartment transition: off in every shipped
  configuration, and in no loaded tree.
* Dead zones. `markDeadZoneRegion` has no caller, so `latest_vertex_id` stays -1 and
  `tryPrependDeadZoneEscapeManeuver` returns before it does anything; the flag
  `escape_pending` is set and cleared and changes nothing.
* Local exploration: `kAdaptiveExploration`, leafs-only and clustered gain, surface
  options, the rotation of the space, the robot boxes of the bound modes (the limits
  they set are modelled), TSP and grid ordering and path smoothing that nothing
  calls, weights and headings of the gain.
* Obstacles hidden in the space that `augmentFreeStartupArea` declares free.
* The averages that the automatic choice between points and regions weighs: either
  choice is taken at any time. The orientation search of a region
  (`repositioning_region.cpp`) is a numerical genetic search without discrete state.
* Continuous geometry: interpolation, headings, corridors, the distance field and
  meshes of the voxel map. They decide which outcome happens; every outcome is in
  the models.
* Of the control interface: interactive markers, pose filtering, forwarding of
  geofence and homing-position calls, published statistics.
* Visualisation, the panel, simulation and scripts. They read what the planner
  publishes, or call services that are operator actions here.
* Launch wiring. In `urban_corridor.launch` the operator's homing request is
  remapped to a service that does not set `homing_required`; the models have
  both ends, not the remapping.
