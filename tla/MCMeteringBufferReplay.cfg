CONSTANTS
    a1 = a1
    a2 = a2
    b1 = b1
    Records = {a1, a2, b1}
    Endpoint <- AiAndTool
    Entry <- EitherWay
    BlockingTasks = {b1}
    MaxSize = 2
    Width = 1
    ExitWidth = 2
    FlushThread = flush
    Callers = {}
    ExitThreads = {}
    Nobody = Nobody
    MaxBuilds = 2
    Disturbances = {"traffic", "age"}
SPECIFICATION FairSpec
INVARIANTS
    HeldIsBounded
PROPERTIES
    KeepsReplayOrder
    EveryRecordLeaves
