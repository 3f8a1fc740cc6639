SPECIFICATION LiveSpec
CONSTANTS
    p1 = p1
    p2 = p2
    p3 = p3
    h1 = h1
    h2 = h2
    Peer = {p1, p2, p3}
    Inbound = {p1, p2}
    Established <- MCEstablished
    Host <- MCHost
    PeerDisc = {p1}
    NoPeer = NoPeer
    Adders = 2
    Server = {s}
    MaxPeers = 1
    QueueSize = 1
    MaxEvents = 2
INVARIANT TypeOK
INVARIANT PeersBounded
 
PROPERTY BrokenIsDropped
 
CHECK_DEADLOCK FALSE
