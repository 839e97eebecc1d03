\* The servers, one after the other.
CONSTANTS
    p1 = p1
    p2 = p2
    Peers <- TwoPeers
    Nobody = Nobody
    Clients <- TwoClients
    BUFFER_LENGTH = 2
    EVENTS_LENGTH = 2
    Sends <- ThreeToOne
    DemoSends <- TwoToOne
    WlSends <- TwoToNone
    WlLength = 1
    WlJobs = 1
    Loop = loop
    PoolClients <- OneClient
    SomeWorkers = {w1}
    Parts = {"reactor", "demos", "wlnet"}
SPECIFICATION FairSpec
INVARIANTS
    EchoesItsOwn
    EventsHold
PROPERTIES
    RepliesCome
\* A server may end, or wait for peers that have all sent what they send.
CHECK_DEADLOCK FALSE
