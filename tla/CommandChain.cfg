\* Messages overtaken in a topic of depth 1, torn ticks, failed writes, shutdown.
SPECIFICATION ChainSpec
CONSTANTS
    Linears <- MCLinears
    Brakes = {0, 40}
    MaxSpeed = 4
    MaxReverse = 2
    Deadband = 2
    MinEffective = 3
    DriveEnabled = TRUE
    EstopBrake = 120
    AutoMotions = {"autoForward"}
    Twists <- MCTwists
    Depth = 1
CHECK_DEADLOCK FALSE
INVARIANTS
    StopIsHeard
    WholeTickIsSent
    StopEndsSafe
    LastWordHolds
