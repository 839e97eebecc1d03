CONSTANTS
    Workers = {w1}
    Clients = {}
    Main = m
    Tasks = {k1, k2}
    NoTask = NoTask
    Nothing = Nothing
    Free = Free
SPECIFICATION FairSpec
PROPERTY QueuedTaskGetsWorker
CHECK_DEADLOCK FALSE
