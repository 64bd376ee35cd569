\* The promise of DriveAuthority, and silence on either side of /cmd_vel_final.
SPECIFICATION SSpec
CONSTANTS
    Holds = {h1}
    NoHold = NoHold
    Seqs = {}
    BrakeCount = 1
    ForwardWithoutGoal = FALSE
    CriticalSlowBrake = TRUE
    BackupEnabled = TRUE
    Linears = {2}
    Brakes = {0}
    MaxSpeed = 4
    MaxReverse = 2
    Deadband = 2
    MinEffective = 3
    DriveEnabled = TRUE
    EstopBrake = 120
CHECK_DEADLOCK FALSE
PROPERTIES
    DrivesAsPromised
    ManualSilenceStops
    SilenceCoasts
