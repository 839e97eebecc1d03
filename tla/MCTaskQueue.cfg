CONSTANTS
    Threads = {t1, t2, t3}
    Free = Free
    Addr = {a1, a2, a3}
    Null = Null
    HeadLink = HeadLink
SPECIFICATION Spec
INVARIANTS NoUseAfterFree
PROPERTY ImplementsFifo
