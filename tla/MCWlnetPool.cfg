\* wlnet with worker threads: whether they wait in a callback.
CONSTANTS
    p1 = p1
    p2 = p2
    Peers <- TwoPeers
    Nobody = Nobody
    Clients <- TwoClients
    BUFFER_LENGTH = 2
    EVENTS_LENGTH = 2
    Sends <- ThreeToOne
    DemoSends <- TwoToOne
    WlSends <- TwoToNone
    WlLength = 2
    WlJobs = 1
    Loop = loop
    PoolClients <- TwoClients
    SomeWorkers = {w1, w2}
    Parts = {"wlnet"}
SPECIFICATION Spec
INVARIANTS
    CallbacksNeverWait
\* A server may end, or wait for peers that have all sent what they send.
CHECK_DEADLOCK FALSE
