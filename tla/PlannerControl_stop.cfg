SPECIFICATION Spec
CONSTANTS
    MaxWaypoints = 2
    ReconnectPath = FALSE
    StallDetection = TRUE
    MaxOps = 2
    MaxFiles = 0
INVARIANT StopWaitsForOperator
