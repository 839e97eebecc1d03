CONSTANTS
    Workers = {w1, w2}
    Clients = {}
    Main = m
    Tasks = {k1, k2}
    NoTask = NoTask
    Nothing = Nothing
    Free = Free
SPECIFICATION FairSpec
INVARIANTS Custody ShutdownWakesAll NoUseAfterFree AtMostOneMoreTask
PROPERTIES ShutdownCompletes AwakeWorkerDrains
CHECK_DEADLOCK FALSE
