CONSTANTS
    Tasks = {t1, t2}
    WorkerIds = {w1, w2}
    WorkerCount = 1
    QueueSize = 1
    IdleWaiters = {idle}
    QueueWaiters = {drain}
    NoTask = NoTask
    Disturbances = {"stop", "death", "refused"}
SPECIFICATION FairSpec
INVARIANTS
    SlotsConserved
    CountsExact
    IdleMeansSettled
    NoMissedWakeup
    WorkersBounded
PROPERTIES
    QueuedIsSettled
CHECK_DEADLOCK FALSE
