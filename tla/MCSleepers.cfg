\* Two coroutines that sleep without a yield.
CONSTANTS
    Coroutines = {c1, c2}
    First = c1
    Fds = {f1, f2}
    Null = Null
SPECIFICATION TimedSpec
INVARIANT AssertsHold
\* Nobody is left, nobody will ever have an event, or it is a crash.
CHECK_DEADLOCK FALSE
