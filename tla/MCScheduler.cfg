CONSTANTS
    Coroutines = {c1, c2, c3}
    First = c1
    Fds = {f1, f2}
    Null = Null
SPECIFICATION FairSpec
INVARIANTS OnePlace EventsHaveWaiters WokenInTime AssertsHold
PROPERTIES FreedWhenReturned ReadyRuns EventsAreServed
CHECK_DEADLOCK FALSE
