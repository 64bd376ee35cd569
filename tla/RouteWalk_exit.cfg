\* Four waypoints, the third closest to HOME.
SPECIFICATION WalkSpec
CONSTANTS
    Missions <- ShortLoops
    MaxBlocked = 3
    Reanchor = TRUE
    Reached = 1
    StartNear = 2
    RetryNear = 3
    Spacing = 4
CHECK_DEADLOCK FALSE
PROPERTIES
    ReturnsHome
