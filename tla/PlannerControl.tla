--------------------------- MODULE PlannerControl ---------------------------
(***************************************************************************)
(* PlannerControlInterface: the 20 Hz control loop that serves the         *)
(* operator's requests, calls the planner and hands paths to the executor. *)
(*                                                                         *)
(* One thread runs the loop, every service callback and the execution      *)
(* timer; callbacks run only inside ros::spinOnce().  The loop spins once  *)
(* per turn (pc = "spin") and, what is easily missed, executePath spins    *)
(* once more before it commits its path (pc = "exec", the call suspended   *)
(* in "call").  A path file handled in either spin spins again ("files").  *)
(* While the planner service runs (pc = "plan") nothing else does.         *)
(***************************************************************************)
EXTENDS PathExecutor

CONSTANTS
    MaxOps,        \* bound: operator calls in a behaviour
    MaxFiles       \* bound: path files being handled at the same time

ASSUME ControlAssumption == MaxOps \in Nat /\ MaxFiles \in Nat

VARIABLES
    pc,            \* where the control thread is
    level,         \* ind, the bounding-box level of the current runPlanner
    call,          \* the executePath suspended in its spinOnce
    files,         \* pathFollowingCallbacks suspended in their executePath
    mode,          \* trigger_mode_
    runEn,         \* run_en_
    exeEn,         \* exe_path_en_
    stopReq,       \* stop_planner_request_
    requests,      \* the other request flags that are set
    withChecking,  \* go_to_waypoint_with_checking_
    haveGoal,      \* received_first_waypoint_to_go_
    gateDone,      \* passing_gate_success_
    curPath,       \* whose path current_path_ is; "pose" is a refused path
    revisit,       \* global_revisit_active_
    prevStatus,    \* previous_pci_status_
    ops,           \* operator calls so far
    lastStop       \* history: how the last stop call found the executor

controlVars == <<pc, level, call, files, mode, runEn, exeEn, stopReq, requests,
                 withChecking, haveGoal, gateDone, curPath, revisit, prevStatus,
                 ops, lastStop>>
modeVars == <<mode, runEn, exeEn>>
goalVars == <<withChecking, haveGoal>>
historyVars == <<ops, lastStop>>
vars == <<executorVars, controlVars>>

kBBoxLevel == 3
Requests == {"homing", "init", "search", "global", "gate", "waypoint"}
Modes == {"kManual", "kAuto"}
\* The callers whose path the control loop keeps in current_path_.
Recorded == {"plan", "search", "global", "nav"}
NoCall == [kind |-> "none", manual |-> FALSE]
Calls == {NoCall} \cup [kind : Callers \ {"file"}, manual : BOOLEAN]

\* planner_srv response statuses.
Replies == {"kForward", "kBackward", "kHoming", "kRepositioning",
            "kAutoCustomPath", "kManualCustomPath"}

TypeOK ==
    /\ ExecutorTypeOK
    /\ pc \in {"boot", "loop", "plan", "exec", "spin"}
    /\ level \in 0..(kBBoxLevel - 1)
    /\ call \in Calls
    /\ files \in 0..MaxFiles
    /\ mode \in Modes
    /\ runEn \in BOOLEAN
    /\ exeEn \in BOOLEAN
    /\ stopReq \in BOOLEAN
    /\ requests \in SUBSET Requests
    /\ withChecking \in BOOLEAN
    /\ haveGoal \in BOOLEAN
    /\ gateDone \in BOOLEAN
    /\ curPath \in Recorded \cup {"none", "pose"}
    /\ revisit \in BOOLEAN
    /\ prevStatus \in Statuses
    /\ ops \in 0..MaxOps
    /\ lastStop \in {"none", "clean", "inFlight"}

\* init() waits for the first odometry message, spinning; the trigger mode
\* has been read from the parameter server.
Init ==
    /\ ExecutorInit
    /\ pc = "boot"
    /\ level = 0
    /\ call = NoCall
    /\ files = 0
    /\ mode \in Modes
    /\ runEn = FALSE
    /\ exeEn = TRUE
    /\ stopReq = FALSE
    /\ requests = {}
    /\ withChecking = FALSE
    /\ haveGoal = FALSE
    /\ gateDone = FALSE
    /\ curPath = "none"
    /\ revisit = FALSE
    /\ prevStatus = "kReady"
    /\ ops = 0
    /\ lastStop = "none"

Spinning == pc \in {"boot", "exec", "spin"}
Idle == call = NoCall /\ files = 0

-----------------------------------------------------------------------------
(* Pieces of handlers.                                                     *)

\* Two faults of a reset: the path, or the trigger mode, is kept.
ResetPlannerKeepsPath ==
    /\ mode' = "kManual"
    /\ requests' = requests \cap {"gate"}
    /\ withChecking' = FALSE
    /\ curPath' = curPath

ResetPlannerKeepsMode ==
    /\ mode' = mode
    /\ requests' = requests \cap {"gate"}
    /\ withChecking' = FALSE
    /\ curPath' = "none"

\* resetPlanner, but for run_en_, which its callers may set again.
\* passing_gate_request_ and stop_planner_request_ are not touched.
ResetPlanner ==
    /\ mode' = "kManual"
    /\ requests' = requests \cap {"gate"}
    /\ withChecking' = FALSE
    /\ curPath' = "none"

\* run: a revisit ends when the executor is first seen to leave kRunning.
RevisitEnds == prevStatus = "kRunning" /\ status # "kRunning"
Observe == pc = "loop" /\ prevStatus' = status

\* executePath suspends in its spinOnce, as the caller "kind".
Suspend(kind, manual) ==
    /\ pc' = "exec"
    /\ call' = [kind |-> kind, manual |-> manual]

\* What an operator call leaves alone: everything the loop owns.
OperatorCall ==
    /\ Spinning
    /\ ops < MaxOps
    /\ ops' = ops + 1
    /\ UNCHANGED <<pc, level, call, gateDone, prevStatus>>

\* Fault: the path is kept by runPlanner alone.
KeepPlansOnly(kind, path) == curPath' = IF kind = "plan" THEN path ELSE curPath

\* The caller keeps the path executePath handed back, or does not.
Keep(kind, path) == curPath' = IF kind \in Recorded THEN path ELSE curPath

\* Fault: the repositioning handler forgets the timing.
BeginsRevisitOnce(kind) == kind = "global"

\* runGlobalPlanner and runGlobalRepositioning begin the revisit timing once
\* executePath is back, whether or not it took the path.
BeginsRevisit(kind) == kind \in {"global", "nav"}

\* Fault: the check of stop_planner_request_ is dropped.
RunPlannerDespiteStop ==
    /\ level' = 0
    /\ pc' = "plan"

\* runPlanner is entered, and left at once while a stop is pending.
RunPlanner ==
    /\ level' = 0
    /\ pc' = IF stopReq THEN "spin" ELSE "plan"

-----------------------------------------------------------------------------
(* Operator calls.                                                         *)

\* triggerCallback: refused while the executor is in error.
Trigger(setAuto, exe) ==
    /\ OperatorCall
    /\ status # "kError"
    /\ mode' = IF setAuto THEN "kAuto" ELSE "kManual"
    /\ runEn' = TRUE
    /\ exeEn' = exe
    /\ lastStop' = "none"
    /\ UNCHANGED <<executorVars, files, stopReq, requests, goalVars, curPath,
                   revisit>>

\* homingCallback, searchCallback, globalPlannerCallback set exe_path_en_
\* too, the one flag every later request is executed by.
RequestPath(what, exe) ==
    /\ OperatorCall
    /\ requests' = requests \cup {what}
    /\ exeEn' = exe
    /\ lastStop' = "none"
    /\ UNCHANGED <<executorVars, files, mode, runEn, stopReq, goalVars, curPath,
                   revisit>>

\* initializationCallback, and passingGateCallback until a gate was passed.
RequestMotion(what) ==
    /\ OperatorCall
    /\ what = "gate" => ~gateDone
    /\ requests' = requests \cup {what}
    /\ lastStop' = "none"
    /\ UNCHANGED <<executorVars, files, modeVars, stopReq, goalVars, curPath, revisit>>

\* goToWaypointCallback and rotate180DegCallback (unchecked), or
\* stdSrvGoToWaypointCallback, refused before a goal was ever set.
GoToWaypoint(checking) ==
    /\ OperatorCall
    /\ checking => haveGoal
    /\ requests' = requests \cup {"waypoint"}
    /\ withChecking' = checking
    /\ lastStop' = "none"
    /\ UNCHANGED <<executorVars, files, modeVars, stopReq, haveGoal, curPath, revisit>>

\* setGoal stores the goal; it requests nothing.
SetGoal ==
    /\ OperatorCall
    /\ haveGoal' = TRUE
    /\ withChecking' = TRUE
    /\ UNCHANGED <<executorVars, files, modeVars, stopReq, requests, curPath, revisit,
                   lastStop>>

\* stopPlannerCallback.
StopPlanner ==
    /\ OperatorCall
    /\ StopPCI
    /\ stopReq' = TRUE
    /\ ResetPlanner
    /\ runEn' = FALSE
    /\ revisit' = FALSE
    /\ status' = "kReady"
    /\ lastStop' = IF Idle THEN "clean" ELSE "inFlight"
    /\ UNCHANGED <<wpIdx, execLen, execKind, files, exeEn, haveGoal>>

\* pathFollowingCallback on a readable file of two waypoints or more.
FollowFile ==
    /\ OperatorCall
    /\ files < MaxFiles
    /\ files' = files + 1
    /\ lastStop' = "none"
    /\ UNCHANGED <<executorVars, modeVars, stopReq, requests, goalVars, curPath, revisit>>

Operator ==
    \/ \E setAuto, exe \in BOOLEAN : Trigger(setAuto, exe)
    \/ \E what \in {"homing", "search", "global"}, exe \in BOOLEAN :
          RequestPath(what, exe)
    \/ \E what \in {"init", "gate"} : RequestMotion(what)
    \/ \E checking \in BOOLEAN : GoToWaypoint(checking)
    \/ SetGoal
    \/ StopPlanner
    \/ FollowFile

-----------------------------------------------------------------------------
(* The rest of the executor's work inside a spin.                          *)

Timer ==
    /\ Spinning
    /\ TimerTick
    /\ UNCHANGED controlVars

\* The innermost suspended call is a file's: its executePath goes on.
ResumeFile ==
    /\ files > 0
    /\ files' = files - 1
    /\ CommitPath("file") \/ RefusePath(FALSE)
    /\ UNCHANGED <<pc, level, call, modeVars, stopReq, requests, goalVars, gateDone,
                   curPath, revisit, prevStatus, historyVars>>

\* The loop's own executePath goes on, and then its caller.
ResumeCall ==
    /\ pc = "exec"
    /\ files = 0
    /\ \/ CommitPath(call.kind) /\ Keep(call.kind, call.kind)
       \/ RefusePath(call.manual) /\ Keep(call.kind, "pose")
    /\ revisit' = (revisit \/ BeginsRevisit(call.kind))
    /\ pc' = "spin"
    /\ call' = NoCall
    /\ UNCHANGED <<level, files, modeVars, stopReq, requests, goalVars, gateDone,
                   prevStatus, historyVars>>

\* The first odometry message has come: initialize() and run().
Boot ==
    /\ pc = "boot"
    /\ files = 0
    /\ InitializePCI
    /\ pc' = "loop"
    /\ UNCHANGED <<level, call, files, modeVars, stopReq, requests, goalVars, gateDone,
                   curPath, revisit, prevStatus, historyVars>>

\* The spinOnce at the end of a turn returns.
EndTurn ==
    /\ pc = "spin"
    /\ files = 0
    /\ pc' = "loop"
    /\ UNCHANGED <<executorVars, level, call, files, modeVars, stopReq, requests,
                   goalVars, gateDone, curPath, revisit, prevStatus, historyVars>>


-----------------------------------------------------------------------------
(* A turn of the loop that finds the executor ready: the highest pending   *)
(* priority is served.  A path service may fail, find nothing, or return a *)
(* path; executePath refuses a path of one pose before it spins, and its   *)
(* caller then keeps an empty path.                                        *)

Turn(begins) ==
    /\ Observe
    /\ status = "kReady"
    /\ revisit' = (begins \/ (revisit /\ ~RevisitEnds))

\* Fault: a single trigger is forgotten.
TriggeredByMode == mode = "kAuto"

Triggered == mode = "kAuto" \/ runEn

\* Fault: a stop has no priority over the planner.
NotUrgentButStop == requests \cap {"homing", "init"} = {}

NotUrgent == requests \cap {"homing", "init"} = {} /\ ~stopReq
\* "what" is what is left to serve once those above it are not pending.
Chosen(what, above) ==
    /\ NotUrgent
    /\ ~Triggered
    /\ requests \cap above = {}
    /\ what \in requests
    /\ requests' = requests \ {what}

\* runHoming: the planner is told to go home and then asked for a path; a
\* pending stop makes runPlanner return at once.
ServeHoming ==
    /\ Turn(FALSE)
    /\ "homing" \in requests
    /\ requests' = requests \ {"homing"}
    /\ mode' = "kAuto"
    /\ \/ RunPlanner
       \/ pc' = "spin" /\ UNCHANGED level      \* the homing service failed
    /\ UNCHANGED <<executorVars, call, files, runEn, exeEn, stopReq, goalVars,
                   gateDone, curPath, historyVars>>

ServeInit ==
    /\ Turn(FALSE)
    /\ "homing" \notin requests
    /\ "init" \in requests
    /\ requests' = requests \ {"init"}
    /\ InitMotion
    /\ pc' = "spin"
    /\ UNCHANGED <<level, call, files, modeVars, stopReq, goalVars, gateDone,
                   curPath, historyVars>>

ServeStop ==
    /\ Turn(FALSE)
    /\ requests \cap {"homing", "init"} = {}
    /\ stopReq
    /\ stopReq' = FALSE
    /\ Suspend("halt", TRUE)
    /\ UNCHANGED <<executorVars, level, files, modeVars, requests, goalVars,
                   gateDone, curPath, historyVars>>

ServeTrigger ==
    /\ Turn(FALSE)
    /\ NotUrgent
    /\ Triggered
    /\ runEn' = FALSE
    /\ RunPlanner
    /\ UNCHANGED <<executorVars, call, files, mode, exeEn, stopReq, requests,
                   goalVars, gateDone, curPath, historyVars>>

\* runSearch.
ServeSearch ==
    /\ Turn(FALSE)
    /\ Chosen("search", {})
    /\ \/ exeEn /\ Suspend("search", FALSE) /\ UNCHANGED curPath
       \/ exeEn /\ pc' = "spin" /\ curPath' = "none" /\ UNCHANGED call
       \/ pc' = "spin" /\ UNCHANGED <<curPath, call>>
    /\ UNCHANGED <<executorVars, level, files, modeVars, stopReq, goalVars,
                   gateDone, historyVars>>

\* runGlobalPlanner.
ServeGlobal ==
    /\ Chosen("global", {"search"})
    /\ \/ Turn(FALSE) /\ exeEn /\ Suspend("global", FALSE) /\ UNCHANGED curPath
       \/ Turn(TRUE) /\ exeEn /\ pc' = "spin" /\ curPath' = "none" /\ UNCHANGED call
       \/ Turn(FALSE) /\ pc' = "spin" /\ UNCHANGED <<curPath, call>>
    /\ UNCHANGED <<executorVars, level, files, modeVars, stopReq, goalVars,
                   gateDone, historyVars>>

\* runPassingGate: the gate counts as passed before its path is executed.
ServeGate ==
    /\ Turn(FALSE)
    /\ Chosen("gate", {"search", "global"})
    /\ \/ gateDone' = TRUE /\ Suspend("gate", FALSE)
       \/ gateDone' = TRUE /\ pc' = "spin" /\ UNCHANGED call
       \/ pc' = "spin" /\ UNCHANGED <<gateDone, call>>
    /\ UNCHANGED <<executorVars, level, files, modeVars, stopReq, goalVars,
                   curPath, historyVars>>

\* goToWaypoint(set_waypoint_), or runGlobalRepositioning to the goal set.
ServeWaypoint ==
    /\ Chosen("waypoint", {"search", "global", "gate"})
    /\ \/ Turn(FALSE) /\ ~withChecking /\ Suspend("waypoint", TRUE) /\ UNCHANGED curPath
       \/ Turn(FALSE) /\ withChecking /\ Suspend("nav", FALSE) /\ curPath' = "none"
       \/ Turn(TRUE) /\ withChecking /\ pc' = "spin" /\ curPath' = "none" /\ UNCHANGED call
       \/ Turn(FALSE) /\ withChecking /\ pc' = "spin" /\ UNCHANGED <<curPath, call>>
    /\ UNCHANGED <<executorVars, level, files, modeVars, stopReq, goalVars,
                   gateDone, historyVars>>

-----------------------------------------------------------------------------
(* The other turns.                                                        *)

\* Ready with nothing to do, or a path is running: only the status is noted.
QuietTurn ==
    /\ Observe
    /\ \/ status = "kRunning"
       \/ status = "kReady" /\ requests = {} /\ ~stopReq /\ ~Triggered
    /\ revisit' = (revisit /\ ~RevisitEnds)
    /\ pc' = "spin"
    /\ UNCHANGED <<executorVars, level, call, files, modeVars, stopReq, requests,
                   goalVars, gateDone, curPath, historyVars>>

\* The executor is in error: everything is reset and, when a path was being
\* followed, the planner is triggered again.
RecoverFromError ==
    /\ Observe
    /\ status = "kError"
    /\ ResetPlanner
    /\ runEn' = (curPath # "none")
    /\ revisit' = FALSE
    /\ status' = "kReady"
    /\ pc' = "spin"
    /\ UNCHANGED <<forceStop, wpIdx, execLen, execKind, level, call, files, exeEn,
                   stopReq, haveGoal, gateDone, historyVars>>

-----------------------------------------------------------------------------
(* runPlanner: one planner_srv call per level until one succeeds.          *)

\* This level did not succeed: the next one, or the end of the turn.
NextLevel ==
    /\ IF level < kBBoxLevel - 1 THEN pc' = "plan" /\ level' = level + 1
                                 ELSE pc' = "spin" /\ level' = level
    /\ UNCHANGED <<executorVars, call, files, modeVars, stopReq, requests, goalVars,
                   gateDone, curPath, revisit, prevStatus, historyVars>>

\* The call failed, the path is only wanted for display, or it leads
\* backward and a smaller box is left to try, or it is empty and says nothing.
PlanUnused ==
    /\ pc = "plan"
    /\ NextLevel

\* A path to execute.  A homing path and a recovery path reset the planner
\* first; a global path starts the revisit timing first.
PlanExecuted(reply, fallback) ==
    /\ pc = "plan"
    /\ exeEn
    /\ reply # "kBackward" \/ level = kBBoxLevel - 1
    /\ IF reply \in {"kHoming", "kManualCustomPath"}
          THEN ResetPlanner /\ runEn' = FALSE
          ELSE curPath' = "none" /\ UNCHANGED <<mode, requests, withChecking, runEn>>
    /\ LET global == fallback \/ reply = "kRepositioning"
           manual == ~fallback /\ reply \in {"kAutoCustomPath", "kManualCustomPath"}
       IN  /\ revisit' = (global \/ (revisit /\ reply \notin {"kHoming", "kManualCustomPath"}))
           /\ \/ Suspend("plan", manual)
              \/ pc' = "spin" /\ UNCHANGED call        \* one pose: refused
    /\ UNCHANGED <<executorVars, level, files, exeEn, stopReq, haveGoal, gateDone,
                   prevStatus, historyVars>>

\* An empty path whose status ends a phase: the planner is called again.
PlanPhaseDone ==
    /\ pc = "plan"
    /\ curPath' = "none"
    /\ runEn' = TRUE
    /\ pc' = "spin"
    /\ UNCHANGED <<executorVars, level, call, files, mode, exeEn, stopReq, requests,
                   goalVars, gateDone, revisit, prevStatus, historyVars>>

\* An empty path with kHoming (home, or out of time) or kManualCustomPath
\* (given up): reset; giving up retriggers when a path had been followed.
PlanEnded(reply) ==
    /\ pc = "plan"
    /\ reply \in {"kHoming", "kManualCustomPath"}
    /\ ResetPlanner
    /\ runEn' = (reply = "kManualCustomPath" /\ curPath # "none")
    /\ revisit' = FALSE
    /\ pc' = "spin"
    /\ UNCHANGED <<executorVars, level, call, files, exeEn, stopReq, haveGoal,
                   gateDone, prevStatus, historyVars>>

Plan ==
    \/ PlanUnused
    \/ \E reply \in Replies, fallback \in BOOLEAN : PlanExecuted(reply, fallback)
    \/ PlanPhaseDone
    \/ \E reply \in Replies : PlanEnded(reply)

-----------------------------------------------------------------------------
Serve ==
    \/ ServeHoming \/ ServeInit \/ ServeStop \/ ServeTrigger
    \/ ServeSearch \/ ServeGlobal \/ ServeGate \/ ServeWaypoint
    \/ QuietTurn \/ RecoverFromError

\* What the control thread does by itself, as opposed to what reaches it.
Thread == Boot \/ Serve \/ Plan \/ ResumeFile \/ ResumeCall \/ EndTurn

Next == Thread \/ Timer \/ Operator

Spec == Init /\ [][Next]_vars

\* The thread is never blocked for good: the loop, the planner's replies and
\* the returns of spinOnce go on, and the 20 Hz timer is served in the spins.
\* SF because a spin may return before the timer is due.
FairSpec == Spec /\ WF_vars(Thread) /\ SF_vars(Timer)

-----------------------------------------------------------------------------
(* Properties.                                                             *)

\* executionTimerCallback indexes executing_path_ with path_waypoint_ind_
\* whenever it runs: the index is never past the end of the path.
WaypointIndexInRange == status = "kRunning" => wpIdx < execLen

\* The path the robot follows for the planner or for a goal is the one
\* current_path_ holds: the stall recovery and the next planning root rely on
\* it.  While a call is suspended the two may differ.
FollowedPathIsRecorded ==
    status = "kRunning" /\ Idle /\ execKind \in Recorded => curPath = execKind

\* A stop that found no path being handed over is final: until the next
\* operator call the robot moves only to hold its pose, or through a gate
\* requested before.
QuietAfterStop ==
    lastStop = "clean" =>
        /\ pc # "plan"
        /\ call.kind \in {"none", "halt", "gate"}
        /\ status = "kRunning" => execKind \in {"halt", "gate"}

\* The planner is not asked for a path while a stop waits to be served, not
\* even for the homing request that is served before it.
NoPlanUnderPendingStop == stopReq => pc # "plan"

\* A global path the robot follows for the operator is timed as a revisit,
\* even when a stop came while it was handed over.
ManualGlobalPathIsTimed ==
    status = "kRunning" /\ Idle /\ execKind \in {"global", "nav"} => revisit

\* A stop request is always answered by holding the current pose.
StopIsAnswered == stopReq ~> (call.kind = "halt")

\* A trigger never stays up: the planner is asked, or run_en_ falls again,
\* as a stop and the recovery from an executor error make it fall.
TriggerIsServed == runEn ~> (pc = "plan" \/ ~runEn)

\* After a last stop that found no path being handed over, the robot comes
\* to rest for good and the executor stays ready for the operator.
StopSettles ==
    <>[](lastStop = "clean") => <>[](status = "kReady" /\ call = NoCall)

\* The code says of an executor error: reset everything to manual, then wait
\* for the operator.  After a stop the planner is not asked again by itself.
StopWaitsForOperator == lastStop # "none" => pc # "plan"

\* The code says of resetPlanner: stop all current requests.  After a stop
\* no request made before it moves the robot.
StopCancelsRequests ==
    lastStop = "clean" /\ status = "kRunning" => execKind = "halt"

=============================================================================
