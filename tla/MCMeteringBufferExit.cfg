CONSTANTS
    a1 = a1
    a2 = a2
    b1 = b1
    Records = {a1, b1}
    Endpoint <- AiAndTool
    Entry <- EitherWay
    BlockingTasks = {b1}
    MaxSize = 1
    Width = 1
    ExitWidth = 2
    FlushThread = flush
    Callers = {}
    ExitThreads = {exit}
    Nobody = Nobody
    MaxBuilds = 4
    Disturbances = {"age"}
SPECIFICATION Spec
INVARIANTS
    EachRecordInOnePlace
    QuietExitIsComplete
CHECK_DEADLOCK FALSE
