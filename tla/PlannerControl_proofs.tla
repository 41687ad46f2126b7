------------------------ MODULE PlannerControl_proofs ------------------------
(***************************************************************************)
(* Safety of the control loop, for every bound on operator calls, nested   *)
(* path files and path length, and for both values of the parameters.      *)
(***************************************************************************)
EXTENDS PlannerControl, TLAPS

\* Where the thread is agrees with what is suspended, and nothing moves while
\* the planner is asked.
ThreadInv ==
    /\ pc = "exec" <=> call # NoCall
    /\ pc \in {"loop", "plan"} => files = 0
    /\ pc = "plan" => status = "kReady"

\* While a call is suspended only a file's path can be running, and otherwise
\* the running path is the recorded one.
RecordInv ==
    status = "kRunning" =>
        IF pc = "exec" THEN execKind = "file"
                       ELSE execKind \in Recorded => curPath = execKind

\* What a stop that found nothing suspended has established.
QuietInv ==
    lastStop = "clean" =>
        /\ mode = "kManual"
        /\ ~runEn
        /\ requests \subseteq {"gate"}
        /\ curPath = "none"
        /\ files = 0
        /\ pc # "plan"
        /\ call.kind \in {"none", "halt", "gate"}
        /\ status = "kRunning" => execKind \in {"halt", "gate"}

\* The timing of a manual global path runs from its commit on.
TimedInv ==
    status = "kRunning" /\ pc # "exec" /\ execKind \in {"global", "nav"} => revisit

IInv ==
    /\ TypeOK
    /\ WaypointIndexInRange
    /\ ThreadInv
    /\ RecordInv
    /\ QuietInv
    /\ NoPlanUnderPendingStop

USE ExecutorAssumption, ControlAssumption DEF ExecutorAssumption, ControlAssumption

\* The control loop starts with nothing requested.
LEMMA InitEstablishes == Init => IInv
<1> SUFFICES ASSUME Init PROVE IInv
  OBVIOUS
<1> USE DEF Init, ExecutorInit
<1>1. TypeOK
  <2>1. ExecutorTypeOK
    <3>1. forceStop \in BOOLEAN
      OBVIOUS
    <3>2. status \in Statuses /\ wpIdx \in 0..MaxWaypoints /\ execLen \in 0..MaxWaypoints
      BY DEF Statuses
    <3> QED
      BY <3>1, <3>2 DEF ExecutorTypeOK
  <2>2. call \in Calls
    BY DEF Calls
  <2>3. level \in 0..(kBBoxLevel - 1) /\ files \in 0..MaxFiles /\ ops \in 0..MaxOps
    BY DEF kBBoxLevel
  <2> QED
    BY <2>1, <2>2, <2>3 DEF TypeOK, Statuses
<1>2. ThreadInv
  BY DEF ThreadInv
<1>3. WaypointIndexInRange /\ RecordInv /\ QuietInv /\ NoPlanUnderPendingStop
  BY DEF WaypointIndexInRange, RecordInv, QuietInv, NoPlanUnderPendingStop
<1> QED
  BY <1>1, <1>2, <1>3 DEF IInv

\* Operator calls reach a spinning thread and change only flags, but for the
\* stop, which also resets the executor's status.
LEMMA OperatorPreserves ==
    ASSUME IInv, Operator
    PROVE  IInv'
<1> USE DEF IInv, TypeOK, ExecutorTypeOK, WaypointIndexInRange, ThreadInv, RecordInv,
            QuietInv, NoPlanUnderPendingStop, OperatorCall, Spinning, executorVars,
            modeVars, goalVars, Requests
<1>1. ASSUME NEW setAuto \in BOOLEAN, NEW exe \in BOOLEAN, Trigger(setAuto, exe)
      PROVE  IInv'
  BY <1>1 DEF Trigger, Modes
<1>2. ASSUME NEW what \in {"homing", "search", "global"}, NEW exe \in BOOLEAN,
             RequestPath(what, exe)
      PROVE  IInv'
  BY <1>2 DEF RequestPath
<1>3. ASSUME NEW what \in {"init", "gate"}, RequestMotion(what)
      PROVE  IInv'
  BY <1>3 DEF RequestMotion
<1>4. ASSUME NEW checking \in BOOLEAN, GoToWaypoint(checking)
      PROVE  IInv'
  BY <1>4 DEF GoToWaypoint
<1>5. CASE SetGoal
  BY <1>5 DEF SetGoal
<1>6. CASE StopPlanner
  <2> USE <1>6 DEF StopPlanner
  <2>1. TypeOK'
    <3>1. (forceStop \in BOOLEAN /\ stopReq \in BOOLEAN /\ runEn \in BOOLEAN)'
      BY DEF StopPCI
    <3>2. (revisit \in BOOLEAN /\ withChecking \in BOOLEAN)'
      BY DEF ResetPlanner
    <3>3. (mode \in Modes /\ requests \in SUBSET Requests)'
      BY DEF ResetPlanner, Modes
    <3>4. (curPath \in Recorded \cup {"none", "pose"} /\ status \in Statuses)'
      BY DEF ResetPlanner, Statuses
    <3>5. (lastStop \in {"none", "clean", "inFlight"} /\ ops \in 0..MaxOps)'
      OBVIOUS
    <3> QED
      BY <3>1, <3>2, <3>3, <3>4, <3>5
  <2>2. (WaypointIndexInRange /\ ThreadInv /\ RecordInv /\ NoPlanUnderPendingStop)'
    OBVIOUS
  <2>3. QuietInv'
    <3>1. CASE lastStop' = "clean"
      <4>1. call = NoCall /\ files = 0
        BY <3>1 DEF Idle
      <4>2. call'.kind = "none" /\ files' = 0
        BY <4>1 DEF NoCall
      <4>3. mode' = "kManual" /\ runEn' = FALSE /\ curPath' = "none" /\ status' = "kReady"
        BY DEF ResetPlanner
      <4>4. requests' \subseteq {"gate"} /\ pc' # "plan"
        BY DEF ResetPlanner
      <4> QED
        BY <4>2, <4>3, <4>4
    <3> QED
      BY <3>1
  <2> QED
    BY <2>1, <2>2, <2>3
<1>7. CASE FollowFile
  BY <1>7, ControlAssumption DEF FollowFile
<1> QED
  BY <1>1, <1>2, <1>3, <1>4, <1>5, <1>6, <1>7 DEF Operator

\* A tick moves the index towards the end of the running path, or ends it.
LEMMA TimerPreserves ==
    ASSUME IInv, Timer
    PROVE  IInv'
<1> USE DEF IInv, TypeOK, ExecutorTypeOK, WaypointIndexInRange, ThreadInv, RecordInv,
            QuietInv, NoPlanUnderPendingStop, Spinning, controlVars, Timer, Statuses
<1>1. CASE ForceStopTick
  <2>1. TypeOK'
    <3>1. forceStop' \in BOOLEAN
      BY <1>1 DEF ForceStopTick
    <3>2. status' \in Statuses /\ wpIdx' \in 0..MaxWaypoints
      BY <1>1 DEF ForceStopTick
    <3> QED
      BY <1>1, <3>1, <3>2 DEF ForceStopTick
  <2>2. (WaypointIndexInRange /\ ThreadInv /\ RecordInv /\ NoPlanUnderPendingStop)'
    BY <1>1 DEF ForceStopTick
  <2>3. status' = "kError"
    BY <1>1 DEF ForceStopTick
  <2>4. UNCHANGED <<mode, runEn, requests, curPath, files, pc, call, lastStop>>
    OBVIOUS
  <2>5. QuietInv'
    <3>1. QuietInv
      OBVIOUS
    <3> HIDE DEF IInv, TypeOK, ExecutorTypeOK, WaypointIndexInRange, ThreadInv, RecordInv
    <3> QED
      BY <2>3, <2>4, <3>1 DEF QuietInv
  <2> QED
    BY <2>1, <2>2, <2>5
<1>2. CASE ReachedTick
  BY <1>2, ExecutorAssumption DEF ReachedTick
<1>3. CASE StalledTick
  BY <1>3 DEF StalledTick
<1> QED
  BY <1>1, <1>2, <1>3 DEF TimerTick

\* A suspended executePath goes on: its path is committed at index 0, or
\* refused and nothing of the executor changes.
LEMMA ResumePreserves ==
    ASSUME IInv, ResumeFile \/ ResumeCall
    PROVE  IInv'
<1> USE DEF IInv, TypeOK, ExecutorTypeOK, WaypointIndexInRange, ThreadInv, RecordInv,
            QuietInv, NoPlanUnderPendingStop, modeVars, goalVars, historyVars,
            executorVars, Statuses, PathKinds, Callers
<1>1. CASE ResumeFile
  <2>1. CASE CommitPath("file")
    <3> USE <1>1, <2>1 DEF ResumeFile, CommitPath
    <3>1. TypeOK'
      BY ExecutorAssumption
    <3>2. (WaypointIndexInRange /\ ThreadInv /\ NoPlanUnderPendingStop)'
      BY ExecutorAssumption
    <3>3. RecordInv'
      BY DEF Recorded
    <3>4. QuietInv'
      OBVIOUS
    <3> QED
      BY <3>1, <3>2, <3>3, <3>4
  <2>2. CASE RefusePath(FALSE)
    BY <1>1, <2>2 DEF ResumeFile, RefusePath
  <2> QED
    BY <1>1, <2>1, <2>2 DEF ResumeFile
<1>2. CASE ResumeCall
  <2>0. call.kind \in Callers \ {"file"} /\ call.manual \in BOOLEAN
    BY <1>2 DEF ResumeCall, Calls
  <2>1. CASE CommitPath(call.kind) /\ Keep(call.kind, call.kind)
    <3>1. TypeOK'
      BY <1>2, <2>0, <2>1, ExecutorAssumption
      DEF ResumeCall, CommitPath, Keep, BeginsRevisit, NoCall, Calls, Recorded
    <3>2. (ThreadInv /\ WaypointIndexInRange /\ NoPlanUnderPendingStop)'
      BY <1>2, <2>0, <2>1, ExecutorAssumption DEF ResumeCall, CommitPath, NoCall
    <3>3. RecordInv'
      BY <1>2, <2>0, <2>1 DEF ResumeCall, CommitPath, Keep, NoCall
    <3>4. QuietInv'
      BY <1>2, <2>0, <2>1 DEF ResumeCall, CommitPath, Keep, NoCall, Recorded
    <3> QED
      BY <3>1, <3>2, <3>3, <3>4
  <2>2. CASE RefusePath(call.manual) /\ Keep(call.kind, "pose")
    <3>1. TypeOK'
      BY <1>2, <2>0, <2>2
      DEF ResumeCall, RefusePath, Keep, BeginsRevisit, NoCall, Calls, Recorded
    <3>2. (ThreadInv /\ WaypointIndexInRange /\ NoPlanUnderPendingStop)'
      BY <1>2, <2>0, <2>2 DEF ResumeCall, RefusePath, NoCall
    <3>3. RecordInv'
      BY <1>2, <2>0, <2>2 DEF ResumeCall, RefusePath, Keep, NoCall, Recorded
    <3>4. QuietInv'
      BY <1>2, <2>0, <2>2 DEF ResumeCall, RefusePath, Keep, NoCall, Recorded
    <3> QED
      BY <3>1, <3>2, <3>3, <3>4
  <2> QED
    BY <1>2, <2>1, <2>2 DEF ResumeCall
<1> QED
  BY <1>1, <1>2

\* The thread's own steps that start or end a turn.
LEMMA BoundaryPreserves ==
    ASSUME IInv, Boot \/ EndTurn
    PROVE  IInv'
<1> USE DEF IInv, TypeOK, ExecutorTypeOK, WaypointIndexInRange, ThreadInv, RecordInv,
            QuietInv, NoPlanUnderPendingStop, modeVars, goalVars, historyVars,
            executorVars, Statuses, PathKinds
<1>1. CASE Boot
  <2> USE <1>1 DEF Boot
  <2>1. CASE InitMotion
    BY <2>1, ExecutorAssumption DEF InitMotion
  <2>2. CASE ~InitMotion
    BY <2>2 DEF InitializePCI
  <2> QED
    BY <2>1, <2>2
<1>2. CASE EndTurn
  BY <1>2 DEF EndTurn
<1> QED
  BY <1>1, <1>2

\* A request that suspends the turn leaves a call of its kind to the executor.
LEMMA SuspendMakesCall ==
    ASSUME NEW kind \in Callers \ {"file"}, NEW manual \in BOOLEAN,
           Suspend(kind, manual)
    PROVE  pc' = "exec" /\ call' \in Calls /\ call' # NoCall /\ call'.kind = kind
BY DEF Suspend, Calls, NoCall, Callers

\* A turn that finds the executor ready serves one request.
LEMMA ServePreserves ==
    ASSUME IInv, Serve
    PROVE  IInv'
<1> USE DEF IInv, TypeOK, ExecutorTypeOK, WaypointIndexInRange, ThreadInv, RecordInv,
            QuietInv, NoPlanUnderPendingStop, modeVars, goalVars, historyVars,
            executorVars, Statuses, PathKinds, Turn, Observe
<1>1. CASE ServeHoming
  BY <1>1 DEF ServeHoming, RunPlanner, Modes, kBBoxLevel
<1>2. CASE ServeInit
  BY <1>2, ExecutorAssumption DEF ServeInit, InitMotion
<1>3. CASE ServeStop
  <2> USE <1>3 DEF ServeStop
  <2>1. pc' = "exec" /\ call' \in Calls /\ call' # NoCall /\ call'.kind = "halt"
    BY SuspendMakesCall DEF Callers
  <2>2. stopReq' \in BOOLEAN
    OBVIOUS
  <2>3. revisit' \in BOOLEAN
    OBVIOUS
  <2> QED
    BY <2>1, <2>2, <2>3
<1>4. CASE ServeTrigger
  <2> USE <1>4 DEF ServeTrigger
  <2>1. stopReq = FALSE /\ pc' = "plan" /\ level' = 0
    BY DEF RunPlanner, NotUrgent
  <2>2. runEn' \in BOOLEAN /\ revisit' \in BOOLEAN
    OBVIOUS
  <2>3. lastStop # "clean"
    BY DEF Triggered
  <2> QED
    BY <2>1, <2>2, <2>3 DEF kBBoxLevel
<1>5. CASE ServeSearch
  <2> USE <1>5 DEF ServeSearch, Chosen
  <2>1. lastStop # "clean"
    OBVIOUS
  <2>2. \/ pc' = "exec" /\ call' \in Calls /\ call' # NoCall
        \/ pc' = "spin" /\ call' = call
    BY SuspendMakesCall DEF Callers
  <2>3. revisit' \in BOOLEAN
    OBVIOUS
  <2>4. curPath' \in Recorded \cup {"none", "pose"}
    OBVIOUS
  <2> QED
    BY <2>1, <2>2, <2>3, <2>4
<1>6. CASE ServeGlobal
  <2> USE <1>6 DEF ServeGlobal, Chosen
  <2>1. lastStop # "clean"
    OBVIOUS
  <2>2. \/ pc' = "exec" /\ call' \in Calls /\ call' # NoCall
        \/ pc' = "spin" /\ call' = call
    BY SuspendMakesCall DEF Callers
  <2>3. revisit' \in BOOLEAN
    OBVIOUS
  <2>4. curPath' \in Recorded \cup {"none", "pose"}
    OBVIOUS
  <2>5. TypeOK'
    <3>1. requests' \in SUBSET Requests /\ prevStatus' \in Statuses
      OBVIOUS
    <3>2. (pc \in {"boot", "loop", "plan", "exec", "spin"})' /\ call' \in Calls
      BY <2>2
    <3>3. UNCHANGED <<executorVars, level, files, modeVars, stopReq, goalVars,
                      gateDone, historyVars>>
      OBVIOUS
    <3> QED
      BY <2>3, <2>4, <3>1, <3>2, <3>3
  <2>6. (WaypointIndexInRange /\ ThreadInv /\ NoPlanUnderPendingStop)'
    BY <2>2
  <2>7. (RecordInv /\ QuietInv)'
    BY <2>1
  <2> QED
    BY <2>5, <2>6, <2>7
<1>7. CASE ServeGate
  <2> USE <1>7 DEF ServeGate, Chosen
  <2>1. \/ pc' = "exec" /\ call' \in Calls /\ call' # NoCall /\ call'.kind = "gate"
        \/ pc' = "spin" /\ call' = call
    BY SuspendMakesCall DEF Callers
  <2>2. gateDone' \in BOOLEAN
    OBVIOUS
  <2>3. revisit' \in BOOLEAN
    OBVIOUS
  <2> QED
    BY <2>1, <2>2, <2>3
<1>8. CASE ServeWaypoint
  <2> USE <1>8 DEF ServeWaypoint, Chosen
  <2>1. lastStop # "clean"
    OBVIOUS
  <2>2. \/ pc' = "exec" /\ call' \in Calls /\ call' # NoCall
        \/ pc' = "spin" /\ call' = call
    BY SuspendMakesCall DEF Callers
  <2>3. revisit' \in BOOLEAN
    OBVIOUS
  <2>4. curPath' \in Recorded \cup {"none", "pose"}
    OBVIOUS
  <2>5. TypeOK'
    <3>1. requests' \in SUBSET Requests /\ prevStatus' = status
      OBVIOUS
    <3>2. UNCHANGED <<status, forceStop, wpIdx, execLen, execKind, level, files, mode,
                      runEn, exeEn, stopReq, withChecking, haveGoal, gateDone, ops,
                      lastStop>>
      OBVIOUS
    <3> HIDE <1>8 DEF ServeWaypoint, Chosen, Turn, Observe
    <3> QED
      BY <2>2, <2>3, <2>4, <3>1, <3>2
  <2>6. (WaypointIndexInRange /\ ThreadInv /\ NoPlanUnderPendingStop)'
    BY <2>2
  <2>7. (RecordInv /\ QuietInv)'
    BY <2>1
  <2> QED
    BY <2>5, <2>6, <2>7
<1>9. CASE QuietTurn
  BY <1>9 DEF QuietTurn
<1>10. CASE RecoverFromError
  BY <1>10 DEF RecoverFromError, ResetPlanner, Modes
<1> QED
  BY <1>1, <1>2, <1>3, <1>4, <1>5, <1>6, <1>7, <1>8, <1>9, <1>10 DEF Serve

\* A reply of the planner; no stop is pending and none was clean.
LEMMA PlanPreserves ==
    ASSUME IInv, Plan
    PROVE  IInv'
<1> USE DEF IInv, TypeOK, ExecutorTypeOK, WaypointIndexInRange, ThreadInv, RecordInv,
            QuietInv, NoPlanUnderPendingStop, modeVars, goalVars, historyVars,
            executorVars, kBBoxLevel
<1>1. CASE PlanUnused
  BY <1>1 DEF PlanUnused, NextLevel
<1>2. ASSUME NEW reply \in Replies, NEW fallback \in BOOLEAN,
             PlanExecuted(reply, fallback)
      PROVE  IInv'
  <2> USE <1>2
  <2>1. \/ pc' = "exec" /\ call' \in Calls /\ call' # NoCall
        \/ pc' = "spin" /\ call' = call
    BY SuspendMakesCall DEF PlanExecuted, Callers
  <2>2. curPath' = "none" /\ lastStop # "clean" /\ status = "kReady"
    BY DEF PlanExecuted, ResetPlanner
  <2>3. mode' \in Modes /\ requests' \in SUBSET Requests
    BY DEF PlanExecuted, ResetPlanner, Modes
  <2>4. withChecking' \in BOOLEAN /\ runEn' \in BOOLEAN
    BY DEF PlanExecuted, ResetPlanner
  <2>5. revisit' \in BOOLEAN
    BY DEF PlanExecuted
  <2>6. UNCHANGED <<status, forceStop, wpIdx, execLen, execKind, level, files, exeEn,
                    stopReq, haveGoal, gateDone, prevStatus, ops, lastStop>>
    BY DEF PlanExecuted
  <2>7. TypeOK'
    BY <2>1, <2>2, <2>3, <2>4, <2>5, <2>6
  <2>8. (WaypointIndexInRange /\ ThreadInv /\ NoPlanUnderPendingStop)'
    BY <1>2, <2>1, <2>2, <2>6 DEF PlanExecuted
  <2>9. (RecordInv /\ QuietInv)'
    BY <2>2, <2>6
  <2> QED
    BY <2>7, <2>8, <2>9
<1>3. CASE PlanPhaseDone
  BY <1>3 DEF PlanPhaseDone
<1>4. ASSUME NEW reply \in Replies, PlanEnded(reply)
      PROVE  IInv'
  BY <1>4 DEF PlanEnded, ResetPlanner, Modes
<1> QED
  BY <1>1, <1>2, <1>3, <1>4 DEF Plan

\* The inductive invariant of the control loop.
THEOREM Inductive == Spec => []IInv
<1>1. IInv /\ [Next]_vars => IInv'
  <2> SUFFICES ASSUME IInv, [Next]_vars PROVE IInv'
    OBVIOUS
  <2>1. CASE UNCHANGED vars
    BY <2>1 DEF IInv, TypeOK, ExecutorTypeOK, WaypointIndexInRange, ThreadInv, RecordInv,
        QuietInv, NoPlanUnderPendingStop, vars, executorVars, controlVars
  <2> QED
    BY <2>1, OperatorPreserves, TimerPreserves, ResumePreserves, BoundaryPreserves,
       ServePreserves, PlanPreserves DEF Next, Thread
<1> QED
  BY InitEstablishes, <1>1, PTL DEF Spec

\* The revisit flag is only lowered while nothing is running.
LEMMA TimedPreserves ==
    ASSUME IInv, TimedInv, [Next]_vars
    PROVE  TimedInv'
<1> USE DEF TimedInv
<1>0. ThreadInv /\ RecordInv
  BY DEF IInv
<1>1. CASE UNCHANGED vars
  BY <1>1 DEF vars, executorVars, controlVars
<1>2. CASE Operator
  <2>1. CASE StopPlanner
    BY <2>1 DEF StopPlanner
  <2>2. CASE ~StopPlanner
    <3>1. UNCHANGED <<status, execKind, pc, revisit>>
      BY <1>2, <2>2 DEF Operator, Trigger, RequestPath, RequestMotion, GoToWaypoint,
         SetGoal, FollowFile, OperatorCall, executorVars
    <3> QED
      BY <3>1
  <2> QED
    BY <2>1, <2>2
<1>3. CASE Timer
  BY <1>3 DEF Timer, TimerTick, ForceStopTick, ReachedTick, StalledTick, controlVars
<1>4. CASE ResumeFile
  <2>1. CASE CommitPath("file")
    BY <2>1 DEF CommitPath
  <2>2. CASE RefusePath(FALSE)
    BY <1>4, <2>2 DEF ResumeFile, RefusePath, executorVars
  <2> QED
    BY <1>4, <2>1, <2>2 DEF ResumeFile
<1>5. CASE ResumeCall
  <2>1. CASE CommitPath(call.kind)
    BY <1>5, <2>1 DEF ResumeCall, CommitPath, BeginsRevisit
  <2>2. CASE RefusePath(call.manual)
    BY <1>0, <1>5, <2>2 DEF ResumeCall, RefusePath, executorVars, RecordInv
  <2> QED
    BY <1>5, <2>1, <2>2 DEF ResumeCall
<1>6. CASE Boot
  BY <1>6 DEF Boot, InitializePCI, InitMotion
<1>7. CASE EndTurn
  BY <1>0, <1>7 DEF EndTurn, executorVars, ThreadInv
<1>8. CASE Serve
  <2>1. CASE QuietTurn
    BY <1>8, <2>1 DEF QuietTurn, Observe, RevisitEnds, executorVars
  <2>2. CASE ~QuietTurn
    <3>1. status' # "kRunning"
      BY <1>8, <2>2 DEF Serve, ServeHoming, ServeInit, ServeStop, ServeTrigger,
         ServeSearch, ServeGlobal, ServeGate, ServeWaypoint, RecoverFromError, Turn,
         InitMotion, executorVars
    <3> QED
      BY <3>1
  <2> QED
    BY <2>1, <2>2
<1>9. CASE Plan
  <2>1. status' = status /\ status = "kReady"
    BY <1>0, <1>9 DEF Plan, PlanUnused, NextLevel, PlanExecuted, PlanPhaseDone,
       PlanEnded, executorVars, ThreadInv
  <2> QED
    BY <2>1
<1> QED
  BY <1>1, <1>2, <1>3, <1>4, <1>5, <1>6, <1>7, <1>8, <1>9 DEF Next, Thread

-----------------------------------------------------------------------------
(* What the model checker is shown on small instances.                     *)

\* Every variable keeps its type.
THEOREM Typing == Spec => []TypeOK
BY Inductive, PTL DEF IInv

\* The execution timer never reads past the end of the path it follows.
THEOREM IndexInRange == Spec => []WaypointIndexInRange
BY Inductive, PTL DEF IInv

\* The path followed for the planner or a goal is the one current_path_ holds.
THEOREM FollowedIsRecorded == Spec => []FollowedPathIsRecorded
<1>1. IInv => FollowedPathIsRecorded
  BY DEF IInv, ThreadInv, RecordInv, FollowedPathIsRecorded, Idle
<1> QED
  BY Inductive, <1>1, PTL

\* After a stop that found nothing being handed over, the robot only holds its
\* pose or passes a gate requested before.
THEOREM CleanStopIsQuiet == Spec => []QuietAfterStop
<1>1. IInv => QuietAfterStop
  BY DEF IInv, QuietInv, QuietAfterStop
<1> QED
  BY Inductive, <1>1, PTL

\* The planner is never asked while a stop waits to be served.
THEOREM NoPlanUnderStop == Spec => []NoPlanUnderPendingStop
BY Inductive, PTL DEF IInv

\* A global path followed for the operator is timed as a revisit.
THEOREM ManualGlobalTimed == Spec => []ManualGlobalPathIsTimed
<1>1. Init => TimedInv
  BY DEF Init, ExecutorInit, TimedInv
<1>2. IInv /\ TimedInv /\ [Next]_vars => TimedInv'
  BY TimedPreserves
<1>3. IInv /\ TimedInv => ManualGlobalPathIsTimed
  BY DEF IInv, ThreadInv, TimedInv, ManualGlobalPathIsTimed, Idle
<1> QED
  BY Inductive, <1>1, <1>2, <1>3, PTL DEF Spec

=============================================================================
