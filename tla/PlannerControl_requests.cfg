SPECIFICATION FairSpec
CONSTANTS
    MaxWaypoints = 2
    ReconnectPath = TRUE
    StallDetection = TRUE
    MaxOps = 2
    MaxFiles = 1
INVARIANTS TypeOK WaypointIndexInRange FollowedPathIsRecorded QuietAfterStop NoPlanUnderPendingStop ManualGlobalPathIsTimed
PROPERTIES StopIsAnswered TriggerIsServed StopSettles
