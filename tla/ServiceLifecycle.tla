-------------------------- MODULE ServiceLifecycle ---------------------------
(***************************************************************************)
(* How the three programs come up and go down: the constructors call       *)
(* Winsock step by step and give up a part at its first failure, but       *)
(* ignore what they return: RunLoop(), or the two threads of a client,     *)
(* start with whatever they have left.  Several processes of each program  *)
(* may be started, ended and started again; those of one server program    *)
(* want the same port.                                                     *)
(*                                                                         *)
(* Winsock, MySQL and the operator are the environment.  What happens in   *)
(* a server's loop that runs is in ChatServer and AuthServer.              *)
(***************************************************************************)
EXTENDS Integers, FiniteSets

CONSTANTS
    ChatServers,    \* processes running ChatServer.exe
    AuthServers,    \* processes running AuthServer.exe
    ChatClients,    \* processes running ChatClient.exe
    SocketValues,   \* the values of SOCKETs in a process
    INVALID_SOCKET,
    ReuseHandles,   \* whether the system may hand out the value of a closed SOCKET again
    MaxFailures,    \* bound: calls that fail for no reason in the model
    Casts           \* bound: sets of processes of which the user starts some

Servers == ChatServers \cup AuthServers
Processes == Servers \cup ChatClients

\* A server has a part that listens, and a chat server one that connects to the
\* AuthServer; all a client has is its connection to the chat server.  Each part has an
\* addrinfo and a socket of its own.
Part == {"service", "authConn", "chatConn"}
PartsOf(p) == CASE p \in ChatServers -> {"service", "authConn"}
                [] p \in AuthServers -> {"service"}
                [] p \in ChatClients -> {"chatConn"}
FirstPart(p) == IF p \in ChatClients THEN "chatConn" ELSE "service"

ASSUME ProcessAssumption ==
    /\ ChatServers \cap AuthServers = {} /\ Servers \cap ChatClients = {}
    /\ SocketValues \subseteq Nat /\ INVALID_SOCKET \notin SocketValues
    /\ ReuseHandles \in BOOLEAN /\ MaxFailures \in Nat /\ Casts \subseteq SUBSET Processes

VARIABLES
    cast,       \* the processes the user may start
    pc,         \* where each process is, a client its main thread
    part,       \* the part that is being initialized
    wsa,        \* WSAStartup() calls not yet matched by a WSACleanup()
    info,       \* m_ChatConn.info, m_AuthConn.info; m_Conn.info; m_AddrInfo
    own,        \* m_ChatConn.listenSocket, m_AuthConn.authSocket; m_Conn.listenSocket;
                \* m_ConnectSocket
    sock,       \* Winsock: the state of each socket of a process
    prepared,   \* DBHandler has its prepared statements
    quit,       \* bQuit of each client
    receiver,   \* where the receiving thread of each client is
    listened,   \* history: the processes whose listen() has worked
    failures    \* how many calls have failed for no reason in the model

serverVars == <<prepared, listened>>
threadVars == <<quit, receiver>>
vars == <<cast, pc, part, wsa, info, own, sock, serverVars, threadVars, failures>>

NoSockets == [h \in SocketValues |-> "unused"]
NoneOwned == [w \in Part |-> INVALID_SOCKET]

Init ==
    /\ cast \in Casts
    /\ pc = [p \in Processes |-> "off"]
    /\ part = [p \in Processes |-> FirstPart(p)]
    /\ wsa = [p \in Processes |-> 0]
    /\ info = [p \in Processes |-> [w \in Part |-> "null"]]
    /\ own = [p \in Processes |-> NoneOwned]
    /\ sock = [p \in Processes |-> NoSockets]
    /\ prepared = [p \in Processes |-> FALSE]
    /\ quit = [p \in ChatClients |-> FALSE]
    /\ receiver = [p \in ChatClients |-> "none"]
    /\ listened = {}
    /\ failures = 0
-----------------------------------------------------------------------------
(***************************************************************************)
(* Winsock.                                                                *)
(***************************************************************************)
\* A call may fail for no reason in the model.
Fails == failures < MaxFailures /\ failures' = failures + 1
Works == UNCHANGED failures

Open == {"open", "bound", "listening", "connected", "nonblocking"}

\* The port of a program is taken as long as one of its processes has a socket bound to it.
PortTaken(p) ==
    \E q \in (IF p \in ChatServers THEN ChatServers ELSE AuthServers), h \in SocketValues :
        sock[q][h] \in {"bound", "listening"}

Listening(servers) == \E q \in servers, h \in SocketValues : sock[q][h] = "listening"

\* closesocket(): fails for a value that is no open socket.
Closed(sockets, h) ==
    [k \in SocketValues |-> IF k = h /\ sockets[k] \in Open THEN "closed" ELSE sockets[k]]

\* freeaddrinfo(): a null pointer is ignored; a second call for the same list is undefined.
Freed(i) == CASE i = "null" -> "null"
              [] i = "allocated" -> "freed"
              [] OTHER -> "freed twice"

CleanedUp(n) == IF n > 0 THEN n - 1 ELSE 0

\* The process ends, and the system takes back what it had.
Ends(p) ==
    /\ pc' = [pc EXCEPT ![p] = "off"]
    /\ part' = [part EXCEPT ![p] = FirstPart(p)]
    /\ wsa' = [wsa EXCEPT ![p] = 0]
    /\ own' = [own EXCEPT ![p] = NoneOwned]
    /\ sock' = [sock EXCEPT ![p] = NoSockets]
-----------------------------------------------------------------------------
(***************************************************************************)
(* InitChatService() and InitAuthConn() of the chat server, Initialize()   *)
(* of the AuthServer and of the client: the same calls in the same order.  *)
(***************************************************************************)
At(p, call) == pc[p] = call

\* Mutated form of AfterPart: the constructor goes straight on to RunLoop().
AfterPartSkips(p) ==
    CASE p \in ChatClients -> "keys"
      [] p \in AuthServers -> "database"
      [] p \in ChatServers -> "select"

\* What follows a part, whether or not it has been initialized.
AfterPart(p) ==
    CASE p \in ChatClients -> "keys"
      [] p \in AuthServers -> "database"
      [] p \in ChatServers -> IF part[p] = "service" THEN "WSAStartup" ELSE "select"

EndPart(p) ==
    /\ pc' = [pc EXCEPT ![p] = AfterPart(p)]
    /\ part' = [part EXCEPT ![p] = IF p \in ChatClients THEN "chatConn" ELSE "authConn"]

GoTo(p, call) == pc' = [pc EXCEPT ![p] = call] /\ UNCHANGED part

\* Mutated form of GiveUp: the socket is not closed.
GiveUpLeavesOpen(p, free, close) ==
    /\ EndPart(p)
    /\ wsa' = [wsa EXCEPT ![p] = CleanedUp(@)]
    /\ info' = IF free THEN [info EXCEPT ![p][part[p]] = Freed(@)] ELSE info
    /\ UNCHANGED sock

\* The error paths end a part: free the addrinfo, close the socket, WSACleanup().
GiveUp(p, free, close) ==
    /\ EndPart(p)
    /\ wsa' = [wsa EXCEPT ![p] = CleanedUp(@)]
    /\ info' = IF free THEN [info EXCEPT ![p][part[p]] = Freed(@)] ELSE info
    /\ sock' = IF close THEN [sock EXCEPT ![p] = Closed(@, own[p][part[p]])] ELSE sock

\* main().
Start(p) ==
    /\ At(p, "off") /\ p \in cast
    /\ GoTo(p, "WSAStartup")
    /\ info' = [info EXCEPT ![p] = [w \in Part |-> "null"]]
    /\ listened' = listened \ {p}
    /\ UNCHANGED <<wsa, own, sock, prepared, threadVars, failures, cast>>

WSAStartup(p) ==
    /\ At(p, "WSAStartup")
    /\ \/ /\ Works /\ GoTo(p, "getaddrinfo")
          /\ wsa' = [wsa EXCEPT ![p] = @ + 1]
       \/ /\ Fails /\ EndPart(p)
          /\ UNCHANGED wsa
    /\ UNCHANGED <<info, own, sock, serverVars, threadVars, cast>>

GetAddrInfo(p) ==
    /\ At(p, "getaddrinfo")
    /\ \/ /\ Works /\ GoTo(p, "socket")
          /\ info' = [info EXCEPT ![p][part[p]] = "allocated"]
          /\ UNCHANGED <<wsa, sock>>
       \/ Fails /\ GiveUp(p, FALSE, FALSE)
    /\ UNCHANGED <<own, serverVars, threadVars, cast>>

\* The values are only compared: of those never used the least stands for all.
FreeHandles(p) ==
    {h \in SocketValues :
        \/ sock[p][h] = "unused" /\ \A k \in SocketValues : k < h => sock[p][k] # "unused"
        \/ sock[p][h] = "closed" /\ ReuseHandles}

NewSocket(p) ==
    /\ At(p, "socket")
    /\ \/ /\ Works /\ GoTo(p, IF part[p] = "service" THEN "bind" ELSE "connect")
          /\ \E h \in FreeHandles(p) :
                /\ own' = [own EXCEPT ![p][part[p]] = h]
                /\ sock' = [sock EXCEPT ![p][h] = "open"]
          /\ UNCHANGED <<wsa, info>>
       \/ Fails /\ GiveUp(p, TRUE, FALSE) /\ UNCHANGED own
    /\ UNCHANGED <<serverVars, threadVars, cast>>

SetOwnSocket(p, state) == sock' = [sock EXCEPT ![p][own[p][part[p]]] = state]

\* bind() fails when another process has the port.
Bind(p) ==
    /\ At(p, "bind")
    /\ \/ /\ ~PortTaken(p)
          /\ Works /\ GoTo(p, "listen") /\ SetOwnSocket(p, "bound")
          /\ UNCHANGED <<wsa, info>>
       \/ PortTaken(p) /\ Works /\ GiveUp(p, TRUE, TRUE)
       \/ Fails /\ GiveUp(p, TRUE, TRUE)
    /\ UNCHANGED <<own, serverVars, threadVars, cast>>

\* Mutated form of ListenDone: freeaddrinfo() is called on this path, too.
ListenDoneFrees(p) == info' = [info EXCEPT ![p]["service"] = Freed(@)]

\* The addrinfo of the listening part is kept for Shutdown().
ListenDone(p) == UNCHANGED info

Listen(p) ==
    /\ At(p, "listen")
    /\ \/ /\ Works /\ EndPart(p) /\ SetOwnSocket(p, "listening")
          /\ ListenDone(p)
          /\ listened' = listened \cup {p}
          /\ UNCHANGED wsa
       \/ Fails /\ GiveUp(p, TRUE, TRUE) /\ UNCHANGED listened
    /\ UNCHANGED <<own, prepared, threadVars, cast>>

\* connect() fails when no process of the other program listens.
PeerListens(p) == Listening(IF p \in ChatClients THEN ChatServers ELSE AuthServers)

Connect(p) ==
    /\ At(p, "connect")
    /\ \/ /\ PeerListens(p)
          /\ Works /\ SetOwnSocket(p, "connected")
          /\ IF p \in ChatClients THEN GoTo(p, "ioctlsocket") ELSE EndPart(p)
          /\ UNCHANGED <<wsa, info>>
       \/ ~PeerListens(p) /\ Works /\ GiveUp(p, TRUE, TRUE)
       \/ Fails /\ GiveUp(p, TRUE, TRUE)
    /\ UNCHANGED <<own, serverVars, threadVars, cast>>

\* Mutated form of NonBlocking: the socket goes on blocking.
StillBlocking == "connected"

NonBlocking == "nonblocking"

IoctlSocket(p) ==
    /\ At(p, "ioctlsocket")
    /\ \/ /\ Works /\ EndPart(p) /\ SetOwnSocket(p, NonBlocking)
          /\ UNCHANGED <<wsa, info>>
       \/ Fails /\ GiveUp(p, TRUE, TRUE)
    /\ UNCHANGED <<own, serverVars, threadVars, cast>>
-----------------------------------------------------------------------------
(***************************************************************************)
(* The servers: DBHandler::Initialize(), RunLoop() and Shutdown().         *)
(***************************************************************************)
\* The connector starts Winsock and opens a socket of its own.  ConnectToDatabase()
\* catches the exception when that fails and sets m_Connected all the same:
\* PrepareStatement() then goes through a null pointer, and the process dies.
Database(p) ==
    /\ At(p, "database")
    /\ \/ /\ Works /\ GoTo(p, "select")
          /\ prepared' = [prepared EXCEPT ![p] = TRUE]
          /\ wsa' = [wsa EXCEPT ![p] = @ + 1]
          /\ \E h \in FreeHandles(p) : sock' = [sock EXCEPT ![p][h] = "connected"]
          /\ UNCHANGED own
       \/ Fails /\ Ends(p) /\ UNCHANGED prepared
    /\ UNCHANGED <<info, listened, threadVars, cast>>

\* select() fails on a set with a value that is no open socket.
SelectWorks(p) ==
    /\ wsa[p] > 0
    /\ \A w \in PartsOf(p) : own[p][w] \in SocketValues /\ sock[p][own[p][w]] \in Open

\* The first select() of RunLoop(), on the sockets of the parts.
Select(p) ==
    /\ At(p, "select")
    /\ GoTo(p, IF SelectWorks(p) THEN "loop" ELSE "Shutdown")
    /\ UNCHANGED <<wsa, info, own, sock, serverVars, threadVars, failures, cast>>

\* Failed sends have cleaned Winsock up, and a later select() fails.
LoopEnds(p) ==
    /\ At(p, "loop")
    /\ GoTo(p, "Shutdown")
    /\ wsa' = [wsa EXCEPT ![p] = 0]
    /\ sock' = [sock EXCEPT ![p] = NoSockets]
    /\ UNCHANGED <<info, own, serverVars, threadVars, failures, cast>>

\* The destructor; then the process ends.
Shutdown(p) ==
    /\ At(p, "Shutdown") /\ p \in Servers
    /\ Ends(p)
    /\ info' = [info EXCEPT ![p]["service"] = Freed(@)]
    /\ prepared' = [prepared EXCEPT ![p] = FALSE]
    /\ UNCHANGED <<listened, threadVars, failures, cast>>

\* The operator ends a process that serves.
Kill(p) ==
    /\ At(p, "loop")
    /\ Ends(p)
    /\ prepared' = [prepared EXCEPT ![p] = FALSE]
    /\ UNCHANGED <<info, listened, threadVars, failures, cast>>
-----------------------------------------------------------------------------
(***************************************************************************)
(* The client: the main thread waits for keys, a second one receives.      *)
(* Nothing keeps them from using the socket at the same time.              *)
(***************************************************************************)
\* Winsock: the client's socket is open.
Usable(p) ==
    /\ wsa[p] > 0
    /\ own[p]["chatConn"] \in SocketValues /\ sock[p][own[p]["chatConn"]] \in Open

\* What SendRequest() and RecvResponse() do when send() or recv() fails.
CloseOnError(p) ==
    /\ sock' = [sock EXCEPT ![p] = Closed(@, own[p]["chatConn"])]
    /\ wsa' = [wsa EXCEPT ![p] = CleanedUp(@)]

\* The receiving thread is started once the constructor has returned.
StartReceiver(p) ==
    /\ At(p, "keys") /\ receiver[p] = "none"
    /\ receiver' = [receiver EXCEPT ![p] = "check"]
    /\ UNCHANGED <<pc, part, wsa, info, own, sock, serverVars, quit, failures, cast>>

\* A key that sends a request: send() fails without a socket, or when the connection has
\* been reset.
SendFails(p) ==
    /\ At(p, "keys") /\ receiver[p] # "none"
    /\ CloseOnError(p)
    /\ UNCHANGED <<pc, part, info, own, serverVars, threadVars, failures, cast>>

\* The key q.
Quit(p) ==
    /\ At(p, "keys") /\ receiver[p] # "none"
    /\ quit' = [quit EXCEPT ![p] = TRUE]
    /\ GoTo(p, "join")
    /\ UNCHANGED <<wsa, info, own, sock, serverVars, receiver, failures, cast>>

Join(p) ==
    /\ At(p, "join") /\ receiver[p] = "done"
    /\ GoTo(p, "Shutdown")
    /\ UNCHANGED <<wsa, info, own, sock, serverVars, threadVars, failures, cast>>

\* ChatClient::Shutdown() returns without freeing anything when shutdown() fails.
ClientShutdown(p) ==
    /\ At(p, "Shutdown") /\ p \in ChatClients
    /\ Ends(p)
    /\ info' = IF Usable(p) THEN [info EXCEPT ![p]["chatConn"] = Freed(@)] ELSE info
    /\ quit' = [quit EXCEPT ![p] = FALSE]
    /\ receiver' = [receiver EXCEPT ![p] = "none"]
    /\ UNCHANGED <<serverVars, failures, cast>>

ReceiverGoesTo(p, place) == receiver' = [receiver EXCEPT ![p] = place]

\* RecvLoop() looks at bQuit before each recv().
CheckQuit(p) ==
    /\ receiver[p] = "check"
    /\ ReceiverGoesTo(p, IF quit[p] THEN "done" ELSE "recv")
    /\ UNCHANGED <<pc, part, wsa, info, own, sock, serverVars, quit, failures, cast>>

\* recv() returns at once from a socket that does not block; from one that does, the server
\* need not let it return.  It fails without a socket, or when the connection is reset.
Recv(p) ==
    /\ receiver[p] = "recv"
    /\ \/ Usable(p) /\ sock[p][own[p]["chatConn"]] = "nonblocking" /\ ReceiverGoesTo(p, "check")
       \/ ~Usable(p) /\ ReceiverGoesTo(p, "failed")
    /\ UNCHANGED <<pc, part, wsa, info, own, sock, serverVars, quit, failures, cast>>

ConnectionReset(p) ==
    /\ receiver[p] = "recv" /\ Usable(p)
    /\ ReceiverGoesTo(p, "failed")
    /\ UNCHANGED <<pc, part, wsa, info, own, sock, serverVars, quit, failures, cast>>

\* RecvLoop() ignores that RecvResponse() has failed and goes on.
RecvFailed(p) ==
    /\ receiver[p] = "failed"
    /\ CloseOnError(p)
    /\ ReceiverGoesTo(p, "check")
    /\ UNCHANGED <<pc, part, info, own, serverVars, quit, failures, cast>>
-----------------------------------------------------------------------------
\* The next call of a process that has been started.
Run(p) ==
    \/ WSAStartup(p) \/ GetAddrInfo(p) \/ NewSocket(p) \/ Bind(p) \/ Listen(p) \/ Connect(p)
    \/ Database(p) \/ Select(p) \/ Shutdown(p)
    \/ /\ p \in ChatClients
       /\ IoctlSocket(p) \/ StartReceiver(p) \/ Join(p) \/ ClientShutdown(p)

\* The receiving thread of a client.
Receive(p) == CheckQuit(p) \/ Recv(p) \/ RecvFailed(p)

Next ==
    \/ \E p \in Processes : Start(p) \/ Run(p) \/ LoopEnds(p) \/ Kill(p)
    \/ \E p \in ChatClients : Receive(p) \/ ConnectionReset(p) \/ SendFails(p) \/ Quit(p)

Spec == Init /\ [][Next]_vars

\* A process that has been started goes on, and so does a thread; nobody has to start or to
\* end one, or to press a key.
FairSpec ==
    /\ Spec
    /\ \A p \in Processes : WF_vars(Run(p))
    /\ \A p \in ChatClients : WF_vars(Receive(p))
-----------------------------------------------------------------------------
\* The value of the socket that was to listen, closed in an error path, now is that of
\* the connection the process opened next.
ListensOnConnection(p) ==
    /\ ReuseHandles
    /\ info[p]["service"] = "freed"
    /\ sock[p][own[p]["service"]] = "connected"
    /\ p \in ChatServers => own[p]["service"] = own[p]["authConn"]

\* Although the results of the constructors' calls are ignored, a server stays in its loop
\* only if everything has been initialized: a chat server listens and is connected to the
\* AuthServer, an AuthServer listens and has its statements.  Otherwise one of the sockets
\* in the set is not open and the first select() ends the process.  There is one exception:
\* bind() or listen() has failed and the closed socket's value has been handed out again.
LoopRunsOnlyWhenReady ==
    \A p \in Servers : pc[p] = "loop" =>
        /\ own[p]["service"] \in SocketValues
        /\ sock[p][own[p]["service"]] = "listening" \/ ListensOnConnection(p)
        /\ p \in ChatServers =>
               own[p]["authConn"] \in SocketValues /\ sock[p][own[p]["authConn"]] = "connected"
        /\ p \in AuthServers => prepared[p]

\* Shutdown() frees an addrinfo once more, after the error paths have: only a server that
\* never listened comes to do that.  A client does not, whichever of its threads has closed
\* the socket and cleaned Winsock up how often: its shutdown() fails then.
FreedTwiceOnlyUnready ==
    \A p \in Processes, w \in Part :
        info[p][w] = "freed twice" => p \in Servers /\ w = "service" /\ p \notin listened

\* A chat server that is started while an AuthServer listens gets to serve, as long as that
\* lasts, unless another has the port or some call fails.
ChatServersComeUp ==
    \A p \in ChatServers :
        pc[p] = "WSAStartup" /\ part[p] = "service" /\ Listening(AuthServers) ~>
            \/ pc[p] = "loop" \/ ~Listening(AuthServers) \/ failures > 0
            \/ \E q \in ChatServers \ {p}, h \in SocketValues : sock[q][h] \in {"bound", "listening"}

\* A client whose user quits ends: main() joins the receiving thread, which is never caught
\* in a recv() that nobody answers.
ClientsQuit == \A p \in ChatClients : quit[p] ~> pc[p] = "off"
=============================================================================
