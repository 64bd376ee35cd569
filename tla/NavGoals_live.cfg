\* Two goals, every wait may time out: the goal held will end, requests are
\* answered, goals end.
SPECIFICATION FairSpec
CONSTANTS
    Goals = {g1, g2}
    None = None
    Svc = Svc
    Tel = Tel
    Bk = Bk
    Workers = 2
    BackupEnabled = FALSE
    TimeOuts = {"accept", "cancel"}
INVARIANT
    HandleWillEnd
PROPERTIES
    ServiceAnswers
    EndedGoalIsDropped
