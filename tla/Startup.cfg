SPECIFICATION FairSpec
CONSTANTS
    chat1 = chat1
    chat2 = chat2
    auth1 = auth1
    client1 = client1
    ChatServers = {chat1, chat2}
    AuthServers = {auth1}
    ChatClients = {client1}
    SocketValues = {1, 2}
    INVALID_SOCKET = INVALID_SOCKET
    ReuseHandles = TRUE
    MaxFailures = 2
    Casts <- OneServerTwiceOrClient
INVARIANTS
    LoopRunsOnlyWhenReady
    FreedTwiceOnlyUnready
PROPERTIES
    ChatServersComeUp
    ClientsQuit
CHECK_DEADLOCK FALSE
