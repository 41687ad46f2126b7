--------------------------- MODULE ExplorationTree ---------------------------
(***************************************************************************)
(* The exploration manager: the behaviour tree that answers each           *)
(* planner_srv call, over the coordinator's handlers and the planners they *)
(* call.  The tree is the MainTree of every configuration:                 *)
(*                                                                         *)
(*   Sequence(ReactiveFallback(HomingCheck,                                *)
(*                             Sequence(lge_homing, AlwaysFailure)),       *)
(*            Homing)                                                      *)
(*                                                                         *)
(* A call ticks it once.  One step here is one leaf of the tree; "stage"   *)
(* is the child at which lge_homing resumes in the next tick.              *)
(*                                                                         *)
(* A path is abstracted to what it leads to.  The planners' searches are   *)
(* nondeterministic: what is kept of them is every way they can end and    *)
(* the flags they leave behind for the next call.  The node is single-     *)
(* threaded and a tick does not spin, so other callbacks run only when it  *)
(* is idle.                                                                *)
(***************************************************************************)
EXTENDS Naturals

CONSTANT MaxTries    \* max_global_planner_tries_ and max_homing_tries_

ASSUME TreeAssumption == MaxTries \in Nat

VARIABLES
    config,           \* the planning parameters that choose between branches
    node,             \* the leaf to run next, "idle" between two calls
    stage,            \* where lge_homing resumes: its running child
    failed,           \* the failure counters of the leaves that retry
    exhausted,        \* bt_states_.local_exp_exhausted
    homingRequired,   \* bt_states_.homing_required
    res,              \* out_srv_res_
    trig,             \* auto_global_planner_trig_
    target,           \* the selected frontier while global_exploration_ongoing_
    frontiers,        \* the cognitive map has a frontier vertex
    decided,          \* history: going home was decided for this call
    planned           \* history: plan() built a path in this call

treeVars == <<stage, failed, homingRequired>>
planVars == <<trig, target, frontiers>>
vars == <<config, node, treeVars, exhausted, res, planVars, decided, planned>>

Leaves == {"HomingCheck", "LocalExploration", "LocalExpExhaustedCheck",
           "GlobalExploration", "GlobalExpExhaustedCheck", "SubHoming", "MainHoming"}
Retriers == {"GlobalExploration", "SubHoming", "MainHoming"}
Stages == {"local", "global", "homing"}
Targets == {"none", "near", "far"}    \* far: more than 5 m away
StatusCodes == {"kForward", "kHoming", "kRepositioning", "kAutoCustomPath",
                "kManualCustomPath"}
Paths == {"none", "local", "global", "home"}
Configs == [autoGlobal : BOOLEAN, autoHoming : BOOLEAN, goHome : BOOLEAN]

TypeOK ==
    /\ config \in Configs
    /\ node \in Leaves \cup {"idle"}
    /\ stage \in Stages
    /\ failed \in [Retriers -> 0..MaxTries + 1]
    /\ exhausted \in BOOLEAN
    /\ homingRequired \in BOOLEAN
    /\ res \in [status : StatusCodes, path : Paths, fallback : BOOLEAN]
    /\ trig \in BOOLEAN
    /\ target \in Targets
    /\ frontiers \in BOOLEAN
    /\ decided \in BOOLEAN
    /\ planned \in BOOLEAN

Reply(st, path, fallback) == [status |-> st, path |-> path, fallback |-> fallback]

\* out_srv_res_ is zeroed when it is built, and 0 is kForward.
Init ==
    /\ config \in Configs
    /\ node = "idle"
    /\ stage = "local"
    /\ failed = [r \in Retriers |-> 0]
    /\ exhausted = FALSE
    /\ homingRequired = FALSE
    /\ res = Reply("kForward", "none", FALSE)
    /\ trig = FALSE
    /\ target = "none"
    /\ frontiers = FALSE
    /\ decided = FALSE
    /\ planned = FALSE

-----------------------------------------------------------------------------
(* The callbacks that reach the idle node.                                 *)

\* planner_srv: the tree is ticked, from HomingCheck on.
PlannerService ==
    /\ node = "idle"
    /\ node' = "HomingCheck"
    /\ decided' = FALSE
    /\ planned' = FALSE
    /\ UNCHANGED <<config, treeVars, exhausted, res, planVars>>

\* planner_homing of the exploration manager.
HomingService ==
    /\ node = "idle"
    /\ homingRequired' = TRUE
    /\ UNCHANGED <<config, node, stage, failed, exhausted, res, planVars, decided, planned>>

\* The stop request reaches two subscribers: the coordinator and the planner.
CoordinatorStop ==
    /\ node = "idle"
    /\ homingRequired' = FALSE
    /\ UNCHANGED <<config, node, stage, failed, exhausted, res, planVars, decided, planned>>

PlannerStop ==
    /\ node = "idle"
    /\ target' = "none"
    /\ trig' = FALSE
    /\ UNCHANGED <<config, node, treeVars, exhausted, res, frontiers, decided, planned>>

\* The robot moves, and timers add frontiers to the map or visit them.
Drift ==
    /\ node = "idle"
    /\ frontiers' \in BOOLEAN
    /\ target' \in IF target = "none" THEN {"none"} ELSE {"near", "far"}
    /\ UNCHANGED <<config, node, treeVars, exhausted, res, trig, decided, planned>>

-----------------------------------------------------------------------------
(* GlobalRepositioningPlanner::plan.                                       *)

\* How plan() ends when the selected frontier was tgt and the trigger t:
\* nothing to go to (frontiers may have expired), no frontier left, or one
\* selected, with or without a path to it.  An escape from a dead zone is never
\* put before the path: that takes a vertex marked by markDeadZoneRegion, which
\* nothing calls.
GlobalPlan(tgt, t, st, path) ==
    \/ /\ st = "kRepositioning" /\ path = "none"
       /\ frontiers' \in {frontiers, FALSE} /\ target' = tgt
    \/ /\ ~frontiers
       /\ st = "kHoming"
       /\ path = "none" \/ (config.goHome /\ path = "home")
       /\ frontiers' = frontiers /\ target' = tgt
    \/ /\ frontiers
       /\ st = "kRepositioning"
       /\ target' \in IF t THEN {"near", "far"} ELSE {tgt}
       /\ path \in {"none", "global"}
       /\ frontiers' = frontiers

\* History of one call: what its plan() calls decided and built.
Record(st, path) ==
    /\ decided' = (decided \/ st = "kHoming")
    /\ planned' = (planned \/ path # "none")

\* globalPlannerServiceCallback: the operator asks for a frontier or for any
\* vertex; the path goes to the operator, the flags stay here.
GlobalService ==
    /\ node = "idle"
    /\ \/ \E st \in StatusCodes, path \in Paths : GlobalPlan(target, trig, st, path)
       \/ target' \in (IF trig THEN {"near", "far"} ELSE {target}) /\ UNCHANGED frontiers
    /\ UNCHANGED <<config, node, treeVars, exhausted, res, trig, decided, planned>>

-----------------------------------------------------------------------------
(* The leaves.                                                             *)

\* homingRequired: the way home is searched, and it is required when it takes
\* the time that is left.  Either way what was found stays in the reply.
HomingRequired(required, path) ==
    /\ path = "home" \/ (path = "none" /\ ~required)
    /\ res' = Reply("kHoming", path, res.fallback)

HaltExploration == node' = "MainHoming" /\ stage' = "local" /\ decided' = TRUE

\* The reactive child: it succeeds on the mission's request or on the time
\* that is left, and then halts lge_homing.
HomingCheck ==
    /\ node = "HomingCheck"
    /\ \/ homingRequired /\ res' = res /\ HaltExploration
       \/ ~homingRequired /\ HomingRequired(TRUE, "home") /\ HaltExploration
       \/ /\ ~homingRequired
          /\ node' = CASE stage = "local"  -> "LocalExploration"
                       [] stage = "global" -> "GlobalExploration"
                       [] stage = "homing" -> "SubHoming"
          /\ \E path \in {"none", "home"} : HomingRequired(FALSE, path)
          /\ decided' = (stage = "homing")
          /\ UNCHANGED stage
    /\ UNCHANGED <<config, failed, homingRequired, exhausted, planVars, planned>>

\* Fault: the flag of the last reply is not reset, and counts.
LocalResultKeepsFlag(st, path, fallback, ok) ==
    LET flag == fallback \/ res.fallback
    IN  /\ res' = Reply(st, path, flag)
        /\ exhausted' = (exhausted \/ (ok /\ (st # "kForward" \/ flag)))
        /\ Record(st, path)

\* getExplorationPath: the outcome and whether it counts as exhausted.
LocalResult(st, path, fallback, ok) ==
    /\ res' = Reply(st, path, fallback)
    /\ exhausted' = (exhausted \/ (ok /\ (st # "kForward" \/ fallback)))
    /\ Record(st, path)

\* The selected frontier is not reached yet: the graph is not built.
BuildRefused ==
    /\ target = "far"
    /\ LocalResult("kForward", "none", FALSE, FALSE)
    /\ trig' = FALSE
    /\ UNCHANGED <<target, frontiers>>

\* getBestPath: a local path, none, or the way home when time runs out.
BestPath ==
    /\ target # "far"
    /\ \/ \E path \in {"local", "none"} : LocalResult("kForward", path, FALSE, TRUE)
       \/ /\ config.autoHoming
          /\ \E path \in {"home", "none"} : LocalResult("kHoming", path, FALSE, TRUE)
    /\ trig' = FALSE
    /\ target' = "none"
    /\ UNCHANGED frontiers

\* No feasible vertex, no gain or a low gain: the global planner runs.  A low
\* gain for several rounds sets the trigger t.
LocalFallback ==
    /\ target # "far"
    /\ config.autoGlobal
    /\ \E t \in BOOLEAN, st \in StatusCodes, path \in Paths :
          /\ trig' = t
          /\ GlobalPlan("none", t, st, path)
          /\ LocalResult(st, path, path # "none", path # "none" \/ st = "kHoming")

\* The same without auto_global_planner_enable.
LocalGivesUp ==
    /\ target # "far"
    /\ ~config.autoGlobal
    /\ \/ LocalResult("kForward", "none", FALSE, FALSE)
       \/ LocalResult("kAutoCustomPath", "none", FALSE, TRUE)
    /\ trig' = FALSE
    /\ target' = "none"
    /\ UNCHANGED frontiers

LocalExploration ==
    /\ node = "LocalExploration"
    /\ BuildRefused \/ BestPath \/ LocalFallback \/ LocalGivesUp
    /\ node' = "LocalExpExhaustedCheck"
    /\ UNCHANGED <<config, treeVars>>

\* Not exhausted: the inner loop is left running and the tick ends.
LocalExpExhaustedCheck ==
    /\ node = "LocalExpExhaustedCheck"
    /\ IF exhausted THEN node' = "GlobalExploration" /\ stage' = "global"
                    ELSE node' = "idle" /\ stage' = "local"
    /\ UNCHANGED <<config, failed, homingRequired, exhausted, res, planVars, decided, planned>>

\* Fault: a success takes back one failure, like a low-gain round, but
\* without its check for zero.
SucceedsOnce(r) == failed' = [failed EXCEPT ![r] = @ - 1]

\* Fault: a failure is not counted.
FailsUncounted(r) == r \in Retriers /\ failed' = failed

\* A leaf that retries: MaxTries failures are tolerated, and the counter,
\* compared with MaxTries only, is not told apart beyond it.
Fails(r) == failed' = [failed EXCEPT ![r] = IF @ > MaxTries THEN @ ELSE @ + 1]
Succeeds(r) == failed' = [failed EXCEPT ![r] = 0]
GivesUp(r) == failed[r] >= MaxTries

\* Fault: a plan without a path leaves the last path in the reply.
GlobalReplyKeepsPath(st, path) ==
    res' = Reply(st, IF path = "none" THEN res.path ELSE path, path # "none")

\* Fault: the flag is computed before the path is stored.
GlobalReplyFlagsFirst(st, path) == res' = Reply(st, path, res.path # "none")

GlobalReply(st, path) == res' = Reply(st, path, path # "none")

\* getGlobalExplorationPath, and what the leaf makes of its outcome.
GlobalExploration ==
    /\ node = "GlobalExploration"
    /\ exhausted' = FALSE
    /\ \E st \in StatusCodes, path \in Paths :
          /\ GlobalPlan(target, trig, st, path)
          /\ Record(st, path)
          /\ \/ /\ st = "kHoming" \/ path # "none"
                /\ Succeeds("GlobalExploration")
                /\ GlobalReply(st, path)
                /\ node' = "GlobalExpExhaustedCheck"
             \/ /\ st # "kHoming" /\ path = "none"
                /\ Fails("GlobalExploration")
                /\ IF GivesUp("GlobalExploration")
                      THEN GlobalReply("kManualCustomPath", path)
                           /\ node' = "GlobalExpExhaustedCheck"
                      ELSE GlobalReply(st, path) /\ node' = "idle"
    /\ UNCHANGED <<config, stage, homingRequired, trig>>

\* checkGlobalExplorationStatus plans once more; only its status is used.
GlobalExpExhaustedCheck ==
    /\ node = "GlobalExpExhaustedCheck"
    /\ \E st \in StatusCodes, path \in Paths :
          /\ GlobalPlan(target, trig, st, path)
          /\ Record(st, path)
          /\ IF st = "kHoming"
                THEN node' = "SubHoming" /\ stage' = "homing" /\ res' = res
                ELSE /\ node' = "idle" /\ stage' = "local"
                     /\ res' = [res EXCEPT !.status = "kAutoCustomPath"]
    /\ UNCHANGED <<config, failed, homingRequired, exhausted, trig>>

\* Fault: a failure resets the counter.
HomingForgets(r) ==
    /\ Succeeds(r)
    /\ \/ res' = [res EXCEPT !.path = "home", !.status = "kHoming"]
       \/ res' = [res EXCEPT !.path = "none",
                             !.status = IF GivesUp(r) THEN "kManualCustomPath" ELSE "kForward"]

\* getHomingPath.
Homing(r) ==
    \/ /\ res' = [res EXCEPT !.path = "home", !.status = "kHoming"]
       /\ Succeeds(r)
    \/ /\ res' = [res EXCEPT !.path = "none",
                             !.status = IF GivesUp(r) THEN "kManualCustomPath" ELSE "kForward"]
       /\ Fails(r)

\* The Homing of lge_homing: resumed in the next tick until it succeeds or
\* gives up.
SubHoming ==
    /\ node = "SubHoming"
    /\ Homing("SubHoming")
    /\ stage' = IF res'.status = "kForward" THEN "homing" ELSE "local"
    /\ node' = "idle"
    /\ UNCHANGED <<config, homingRequired, exhausted, planVars, decided, planned>>

\* The Homing of MainTree.
MainHoming ==
    /\ node = "MainHoming"
    /\ Homing("MainHoming")
    /\ node' = "idle"
    /\ UNCHANGED <<config, stage, homingRequired, exhausted, planVars, decided, planned>>

-----------------------------------------------------------------------------
Tick ==
    \/ HomingCheck \/ LocalExploration \/ LocalExpExhaustedCheck
    \/ GlobalExploration \/ GlobalExpExhaustedCheck \/ SubHoming \/ MainHoming

Callbacks ==
    \/ PlannerService \/ HomingService \/ CoordinatorStop \/ PlannerStop
    \/ GlobalService \/ Drift

Next == Tick \/ Callbacks

Spec == Init /\ [][Next]_vars

\* A tick is one function call: it goes on by itself.
FairSpec == Spec /\ WF_vars(Tick)

\* The control interface in automatic mode keeps calling.
CallsGoOn == []<>(node = "HomingCheck")

-----------------------------------------------------------------------------
(* Properties.                                                             *)

\* An exhausted local graph is acted on in the tick that found it so: the
\* flag never reaches another call, where it would discard a good path.
ExhaustionIsConsumed ==
    /\ node \in {"idle", "HomingCheck", "LocalExploration"} => ~exhausted
    /\ node = "GlobalExploration" => res.path # "local"

\* Every tick probes for a way home and leaves it in the reply, which the
\* bridge executes whatever its status: a reply leads home only when some
\* leaf decided to go home.
HomeOnlyWhenDecided == node = "idle" /\ res.path = "home" => decided

\* A reply that leads to a frontier carries the fallback flag the bridge
\* needs to run it as a global path, and one along the local graph does not.
RepositioningIsFlagged ==
    node = "idle" =>
        /\ res.path = "global" => res.fallback
        /\ res.path = "local" => ~res.fallback

\* While the bridge keeps calling, a search for a frontier that fails ends:
\* the leaf succeeds, gives up or is halted.
SearchIsGivenUp == CallsGoOn => (stage = "global" ~> stage # "global")

\* The same for the way home: its retries do not go on for ever.
HomingIsGivenUp == CallsGoOn => (stage = "homing" ~> stage # "homing")

\* planner_srv says of the flag that it is true when the path was produced by
\* the global planner: so not in a call in which that planner built none.
FallbackIsGlobal == node = "idle" /\ ~planned => ~res.fallback

\* The planner says that a selected frontier which has not been reached
\* triggers global repositioning again.  Reaching it, a stop and a way home
\* are ways out too.
UnreachedIsRetriggered ==
    CallsGoOn =>
        (node = "LocalExploration" /\ target = "far"
            ~> node \in {"GlobalExploration", "MainHoming"} \/ target # "far")

=============================================================================
