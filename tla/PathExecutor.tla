---------------------------- MODULE PathExecutor ----------------------------
(***************************************************************************)
(* PCIGeneral, the path executor behind PlannerControlInterface: the       *)
(* path it is following, the index of the waypoint the robot is driven to, *)
(* and the status it shows to the control loop.                            *)
(*                                                                         *)
(* A path is abstracted to its number of poses and to the caller that      *)
(* supplied it.  is_homing_ and current_path_type_ are published and never *)
(* read back, so they are left out.                                        *)
(***************************************************************************)
EXTENDS Naturals

CONSTANTS
    MaxWaypoints,     \* bound: the longest interpolated path, in poses
    ReconnectPath,    \* parameter reconnect_path
    StallDetection    \* parameter path_progress_timeout > 0

ASSUME ExecutorAssumption ==
    /\ MaxWaypoints \in Nat /\ MaxWaypoints >= 2
    /\ ReconnectPath \in BOOLEAN
    /\ StallDetection \in BOOLEAN

VARIABLES
    status,       \* pci_status_
    forceStop,    \* force_stop_
    wpIdx,        \* path_waypoint_ind_
    execLen,      \* executing_path_.size()
    execKind      \* the caller whose path executing_path_ is

executorVars == <<status, forceStop, wpIdx, execLen, execKind>>

Statuses == {"kReady", "kRunning", "kError"}

\* The callers of executePath, and initMotion which stores a path by itself.
\* "halt" is goToWaypoint(current_pose_), the answer to a stop request.
Callers == {"plan", "search", "global", "nav", "gate", "waypoint", "halt", "file"}
PathKinds == Callers \cup {"init"}

ExecutorTypeOK ==
    /\ status \in Statuses
    /\ forceStop \in BOOLEAN
    /\ wpIdx \in 0..MaxWaypoints
    /\ execLen \in 0..MaxWaypoints
    /\ execKind \in PathKinds \cup {"none"}

ExecutorInit ==
    /\ status = "kReady"
    /\ forceStop = FALSE
    /\ wpIdx = 0
    /\ execLen = 0
    /\ execKind = "none"

-----------------------------------------------------------------------------
(* The second half of executePath, after its sleep and its spinOnce.       *)

\* Fault: the index of the last path is not reset.
CommitPathKeepsIndex(kind) ==
    /\ execLen' \in 2..MaxWaypoints
    /\ execKind' = kind
    /\ status' = "kRunning"
    /\ UNCHANGED <<forceStop, wpIdx>>

\* The path is stored, its trajectory published, and the executor runs from
\* the first waypoint, whatever status and forceStop the spin left behind.
CommitPath(kind) ==
    /\ execLen' \in 2..MaxWaypoints
    /\ execKind' = kind
    /\ wpIdx' = 0
    /\ status' = "kRunning"
    /\ UNCHANGED forceStop

\* reconnectPath refuses a path that starts too far from the robot; manual
\* paths are not post-processed and cannot be refused.
RefusePath(manual) ==
    /\ ReconnectPath
    /\ ~manual
    /\ UNCHANGED executorVars

-----------------------------------------------------------------------------
(* executionTimerCallback, a 20 Hz timer of the only callback queue.       *)

\* A pending force stop is consumed: the current path is given up.
ForceStopTick ==
    /\ forceStop
    /\ forceStop' = FALSE
    /\ status' = "kError"
    /\ wpIdx' = 0
    /\ UNCHANGED <<execLen, execKind>>

\* Fault: off by one at the last waypoint.
ReachedTickPastEnd ==
    /\ ~forceStop
    /\ status = "kRunning"
    /\ wpIdx' = wpIdx + 1
    /\ status' = IF wpIdx + 1 > execLen THEN "kReady" ELSE "kRunning"
    /\ UNCHANGED <<forceStop, execLen, execKind>>

\* The robot is within the thresholds of its waypoint; after the last one
\* the executor is ready for the next path.
ReachedTick ==
    /\ ~forceStop
    /\ status = "kRunning"
    /\ wpIdx' = wpIdx + 1
    /\ status' = IF wpIdx + 1 >= execLen THEN "kReady" ELSE "kRunning"
    /\ UNCHANGED <<forceStop, execLen, execKind>>

\* No progress towards the waypoint for path_progress_timeout seconds.
StalledTick ==
    /\ ~forceStop
    /\ StallDetection
    /\ status = "kRunning"
    /\ status' = "kError"
    /\ UNCHANGED <<forceStop, wpIdx, execLen, execKind>>

TimerTick == ForceStopTick \/ ReachedTick \/ StalledTick

-----------------------------------------------------------------------------
(* Calls of the control interface on the executor.                         *)

StopPCI == forceStop' = TRUE

\* initMotion stores its take-off path, sleeps through it without serving
\* callbacks, and reports kReady by itself; the timer never follows it.
InitMotion ==
    /\ execLen' \in 2..MaxWaypoints
    /\ execKind' = "init"
    /\ wpIdx' = 0
    /\ status' = "kReady"
    /\ UNCHANGED forceStop

\* initialize: ready, and in simulation the take-off path when configured.
InitializePCI ==
    \/ status' = "kReady" /\ UNCHANGED <<forceStop, wpIdx, execLen, execKind>>
    \/ InitMotion

=============================================================================
