\* The server on the stack that the build shares: who a reader serves.
CONSTANTS
    Coroutines = {c1, c2, c3}
    Server = c1
    Fds = {f1, f2}
    Values = {f1, f2, NoFd, Data}
    Listener = Listener
    NoFd = NoFd
    Data = Data
    Null = Null
    Size = 3
    OneStack = TRUE
    StackCoroutines = {c1}
    StackValues = {Data}
    Callers = {d1, d2}
    CallFds = {1, 2}
    Nobody = Nobody
    Room = 1
    Lengths = {0, 2}
    Heads = {h1, h2}
    Elems = {e1, e2, e3, e4}
    Parts = {"server"}
SPECIFICATION MCSpec
INVARIANT ReadersGetTheirClients
CHECK_DEADLOCK FALSE
