\* CmdGate with a goal required and the backup manoeuvre on.
SPECIFICATION Spec
CONSTANTS
    Holds = {h1, h2}
    NoHold = NoHold
    Seqs = {t1}
    BrakeCount = 2
    ForwardWithoutGoal = FALSE
    CriticalSlowBrake = FALSE
    BackupEnabled = TRUE
SYMMETRY Symmetry
INVARIANTS
    TakeoverIsBounded
    WatchdogMarkIsHonest
    LoneHold
