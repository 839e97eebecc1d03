\* What coroutines call and run on; stacks are their own in the part with the server; two
\* tail queues with four elements.
CONSTANTS
    Coroutines = {c1, c2, c3}
    Server = c1
    Fds = {f1, f2}
    Values = {f1, f2, NoFd, Data}
    Listener = Listener
    NoFd = NoFd
    Data = Data
    Null = Null
    Size = 3
    OneStack = FALSE
    StackCoroutines = {c1, c2}
    StackValues = {NoFd, Data}
    Callers = {d1, d2}
    CallFds = {1, 2}
    Nobody = Nobody
    Room = 1
    Lengths = {0, 2}
    Heads = {h1, h2}
    Elems = {e1, e2, e3, e4}
    Parts = {"server", "stack", "calls", "queues"}
SPECIFICATION FairSpec
INVARIANTS
    ReadersGetTheirClients
    SendsAPrefix
    LinksKeepOrder
    CopiesFit
PROPERTIES
    LooksBlocking
    CallsReturn
    ImplementsPrivateStacks
\* The server may end by an assert, and peers may do nothing.
CHECK_DEADLOCK FALSE
