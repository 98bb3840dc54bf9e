SPECIFICATION FairSpec
CONSTANTS
    c1 = c1
    c2 = c2
    c3 = c3
    Clients = {c1, c2}
    NameOf <- OwnNames
    EmptyName = EmptyName
    NoName = NoName
    Rooms = {r1}
    RoomNames = {r1}
    Sockets <- ThreeSockets
    AuthHandle = 0
    AuthPeer = AuthPeer
    NoPeer = NoPeer
    RequestTypes <- Accounts
    ReuseHandles = TRUE
    MaxBurst = 1
    FdSetSize = 64
    MaxRequests = 2
INVARIANTS
    RepliesNameTheRequester
    SelectNeverFails
    NamesFindTheirClients
PROPERTIES
    AccountRequestsAreAnswered
    DeparturesAreNoticed
CHECK_DEADLOCK FALSE
