SPECIFICATION FairSpec
CONSTANTS
    w1 = w1
    w2 = w2
    t1 = t1
    Workers = {w1, w2}
    Threads = {t1}
    Chunks = 2
    ActionChunks = {1}
    ExitChunk = 1
    MaxAttempts = 1
    TimeOuts = {}
    MaxQueue = 1
    Kinds = {"line", "loop"}
    MaxEvents = 2
    MaxResults = 2
PROPERTIES
    HandlerEnds
    BlockageEnds
