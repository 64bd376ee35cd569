\* Small nodes side by side.
SPECIFICATION NSpec
CONSTANTS
    LowPersist = 5
    ClearPersist = 4
    MaxGap = 2
    Reached = 1
    StartNear = 2
    RetryNear = 3
    Spacing = 4
    MaxBlocked = 2
    Reanchor = TRUE
    Missions <- WalkMissions
    Sources = {"s1", "s2"}
    MaxEdits = 3
    Docs = {{"a", "far"}}
    Outside = {"far"}
    MaxTrouble = 3
    BeatTimeout = 3
    DogPeriod = 1
    FrameSize = 3
    Bytes = {0, 1, 2}
    Headers = {1, 2}
    MaxStream = 7
    MaxRead = 3
    Callers = {"action", "service"}
    Profiles = {"urban", "rural"}
    Urban = "urban"
    Mixed = "mixed"
    Setters = {"sensors", "service"}
    Workers = 2
    Spots = {"here", "there"}
    Tries = 2
    MaxQueue = 2
    Paths <- SamplePaths
    Maps <- SampleMaps
    Settings <- SampleSettings
    MapTimeout = 1
    Period = 1
    MaxChanges = 1
    Pages = {"page"}
    MaxRequests = 2
    Threads = 1
    Uses = {"brake", "set_route_ll", "unlock"}
    MaxSamples = 3
    MaxRuns = 2
    Window = 3
    MaxFixAge = 1
    MaxSampleDt = 2
    MinDistance = 2
    HoldTime = 2
    Road = 2
    StartupWindow = 1
    PublishAfter = 2
    DriveTimeout = 1
    DebugTimeout = 1
    InitialGuessOnly = FALSE
    Stacks = {"real_global_v2", "real_global_v2_wifi", "real_local_v2", "real",
              "sim_global_v2", "sim_global_v2_wifi", "sim_local_v2", "simulacion"}
    MaxAsked = 2
CHECK_DEADLOCK FALSE
INVARIANTS
    RouteIsMission
    StatusIsOfActive
    OkMeansApplied
    SilenceLocks
    FramesOfStream
    ProfileIsWhole
    DatumAgrees
    AnswerIsCurrent
    AnswersAreTrue
    PostmortemIsSound
    HeadingsRestOnEvidence
    OneOfEach
    NeedsAreMet
PROPERTIES
    GuardIsEarned
    LoopActionsInTurn
    LoopRetryStaysInChunk
    LineEnds
    LoopActionsRepeat
    FollowsActive
    ViewCatchesUp
    RequestsEnd
