SPECIFICATION Spec
CONSTANTS
    GrowSize = 8
    RecvSize = 28
    Links <- AllLinks
    Names <- SomeNames
    Passwords <- SomePasswords
    RoomNames <- OneRoom
    Chats <- OneChat
    UserLists <- Members
    RoomLists <- TwoRooms
    UserIds <- SomeUserIds
    Reasons <- OneReason
    SocketValues <- SomeSockets
    NoMessage = NoMessage
    MaxPackets = 2
INVARIANTS
    
    PacketSizesAreExact
    WholePacketsAreRead
    OnlyPacketStartsAreHandled
    ReadsStayInside
CHECK_DEADLOCK FALSE
