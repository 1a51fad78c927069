CONSTANTS
    u1 = u1
    u2 = u2
    p1 = p1
    p2 = p2
    mic = mic
    cam = cam
    Users = {u1, u2}
    Peers = {p1, p2}
    UserOf <- OneEach
    Audio = {mic}
    Video = {cam}
    Sends <- Speakers
    QueueCap = 2
    MaxRequests <- ListenerAsks
    MaxLosses <- ListenerLoses
SPECIFICATION FairPeerSpec
INVARIANTS
    NegotiationSound
PROPERTIES
    ChangesAreOffered
    EveryoneHears
CHECK_DEADLOCK FALSE
