\* Two goals with the backup manoeuvre enabled: its thread against every handler.
SPECIFICATION Spec
CONSTANTS
    Goals = {g1, g2}
    None = None
    Svc = Svc
    Tel = Tel
    Bk = Bk
    Workers = 2
    BackupEnabled = TRUE
    TimeOuts = {"accept", "cancel"}
SYMMETRY Symmetry
INVARIANT BackupModeEnds
