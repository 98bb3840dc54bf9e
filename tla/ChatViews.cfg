SPECIFICATION SystemSpec
CONSTANTS
    c1 = c1
    c2 = c2
    Clients = {c1, c2}
    NameOf <- OwnNames
    SocketOf <- OwnSockets
    EmptyName = EmptyName
    NoName = NoName
    Rooms = {r1}
    RoomNames = {r1}
    Sockets <- ThreeSockets
    AuthHandle = 0
    AuthPeer = AuthPeer
    NoPeer = NoPeer
    RequestTypes <- JoinAndLeave
    ReuseHandles = FALSE
    MaxBurst = 1
    ClientBurst = 1
    FdSetSize = 64
    MaxRequests = 4
INVARIANTS
    JoinedRoomsAgree
    NobodyIsMissed
    UserListsAreExact
CHECK_DEADLOCK FALSE
