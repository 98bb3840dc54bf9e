SPECIFICATION Spec
CONSTANTS
    c1 = c1
    c2 = c2
    c3 = c3
    Clients = {c1, c2, c3}
    NameOf <- OwnNames
    EmptyName = EmptyName
    NoName = NoName
    Rooms = {r1}
    RoomNames = {r1}
    Sockets <- FourSockets
    AuthHandle = 0
    AuthPeer = AuthPeer
    NoPeer = NoPeer
    RequestTypes <- Accounts
    ReuseHandles = TRUE
    MaxBurst = 1
    FdSetSize = 3
    MaxRequests = 1
INVARIANTS
    StarvedOnlyWhenFull
SYMMETRY Interchangeable
CHECK_DEADLOCK FALSE
