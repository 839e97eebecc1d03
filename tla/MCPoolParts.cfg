\* The lock, the creation of the pool, the C++ pool, and the work queue.
CONSTANTS
    Threads = {t1, t2, t3, t4}
    Free = Free
    Callers = {c1, c2}
    Tasks = {k1, k2}
    ThreadIds = {i1, i2, i3, i4}
    Null = Null
    PoolSize = 5
    BatchSize = 2
    Workers = {w1, w2}
    Main = m
    Jobs = {j1, j2, j3}
    NoJob = NoJob
SPECIFICATION MCSpec
INVARIANTS
    CreateFailureIsUndone
    OneBatch
    JobCustody
    JobsHaveAWorker
PROPERTIES
    ImplementsMutex
    SomeThreadGetsIn
    LiveThreadDrains
    JobsAreTaken
