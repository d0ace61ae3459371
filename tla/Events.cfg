SPECIFICATION FairSpec
CONSTANTS
    Peers = {p1, p2}
    Requests = {r1, r2}
    Numbers = 2
    Silent = {p1}
    Old = 1
    NoPeer = NoPeer
INVARIANT EveryEvent
INVARIANT WaitingIsListed
INVARIANT ListensInTime
PROPERTY ImplementsRequest
CHECK_DEADLOCK FALSE
