\* The timers of three coroutines, and the tree of waiters over nine descriptors.
CONSTANTS
    Nodes = {1, 2, 3, 4, 5, 6, 7, 8, 9}
    Nil = Nil
    Coroutines = {1, 2, 3}
    ReadyHead = ReadyHead
    Milli = 2
    Sec = 4
    Msecs = {1, 3}
    DefaultTimeout = 12
    Nice = 2
    MaxNow = 8
SPECIFICATION MCSpec
INVARIANT TreeOfWaiters
PROPERTIES
    ImplementsTimers
    WaitsNoLongerThanSleep
