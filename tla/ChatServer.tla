----------------------------- MODULE ChatServer -----------------------------
(***************************************************************************)
(* The chat server of ChatServer/server.cpp: one thread runs a select loop *)
(* over a listening socket, the connection to the AuthServer and one       *)
(* connection per client.  It keeps a map of client sockets, two maps      *)
(* between sockets and user names, and the members of each room.  Account  *)
(* requests are forwarded to the AuthServer with the client's SOCKET as    *)
(* the request id; room requests are answered at once and broadcast.       *)
(*                                                                         *)
(* Clients, the AuthServer and Winsock are the environment, modelled from  *)
(* the calls the code makes.  A client is one run of the ChatClient        *)
(* program: it has one user name and opens one connection.  A message is   *)
(* at most one receive buffer long and is not split between two receives;  *)
(* several messages may be coalesced into one receive (MaxBurst).          *)
(***************************************************************************)
EXTENDS Integers, Sequences, FiniteSets, Functions

CONSTANTS
    Clients,        \* the ChatClient processes
    NameOf,         \* the user name each process was started with
    EmptyName,      \* the empty string, a client's name before its first account request
    NoName,         \* "not in m_ClientSocket2UserNameMap"
    Rooms,          \* the rooms the server is constructed with
    RoomNames,      \* the room names a client may ask for
    Sockets,        \* handle values of SOCKETs other than the listening socket
    AuthHandle,     \* the value of m_AuthConn.authSocket
    AuthPeer,       \* the AuthServer, as the other end of a connection
    NoPeer,         \* "this handle is not an open socket"
    RequestTypes,   \* the kinds of request the clients send
    ReuseHandles,   \* whether the system may hand out the value of a closed SOCKET again
    MaxBurst,       \* the most packets one recv() may return
    FdSetSize,      \* FD_SETSIZE, the capacity of an fd_set
    MaxRequests     \* bound: requests sent by each client

NoSocket == -1      \* "not in m_UserName2ClientSocketMap"
Names == {EmptyName} \cup {NameOf[c] : c \in Clients}

AccountTypes == {"CREATE_ACCOUNT_REQ", "AUTHENTICATE_ACCOUNT_REQ"}
RoomTypes == {"JOIN_ROOM_REQ", "LEAVE_ROOM_REQ", "CHAT_IN_ROOM_REQ"}

ASSUME ClientAssumption ==
    /\ IsFiniteSet(Names)
    /\ NameOf \in [Clients -> Names \ {EmptyName}]
    /\ NoName \notin Names
    /\ AuthPeer \notin Clients /\ NoPeer \notin Clients /\ AuthPeer # NoPeer

ASSUME SocketAssumption ==
    /\ Sockets \subseteq Nat /\ AuthHandle \in Sockets
    /\ ReuseHandles \in BOOLEAN
    /\ MaxBurst \in Nat \ {0} /\ FdSetSize \in Nat /\ MaxRequests \in Nat

ASSUME RoomAssumption ==
    /\ Rooms \subseteq RoomNames
    /\ RequestTypes \subseteq AccountTypes \cup RoomTypes

(***************************************************************************)
(* The messages.  "from" in a web message is not in the packet: it records *)
(* the process whose request the AuthServer is answering.                  *)
(***************************************************************************)
AccountRequest == [type : AccountTypes, name : Names]
RoomRequest == [type : RoomTypes, name : Names, room : RoomNames]
Request == AccountRequest \cup RoomRequest

\* Mutated form of WebRequestType: one case copied from the other.
WebRequestTypeCopied == [CREATE_ACCOUNT_REQ |-> "CREATE_ACCOUNT_WEB_REQ",
                         AUTHENTICATE_ACCOUNT_REQ |-> "CREATE_ACCOUNT_WEB_REQ"]

\* The request the server sends to the AuthServer for each account request.
WebRequestType == [CREATE_ACCOUNT_REQ |-> "CREATE_ACCOUNT_WEB_REQ",
                   AUTHENTICATE_ACCOUNT_REQ |-> "AUTHENTICATE_ACCOUNT_WEB_REQ"]

\* For each answer of the AuthServer, the request it answers and the answer to the client.
WebAnswer ==
    [CREATE_ACCOUNT_WEB_SUCCESS_ACK |->
         [request |-> "CREATE_ACCOUNT_REQ", ack |-> "CREATE_ACCOUNT_SUCCESS_ACK"],
     CREATE_ACCOUNT_WEB_FAILURE_ACK |->
         [request |-> "CREATE_ACCOUNT_REQ", ack |-> "CREATE_ACCOUNT_FAILURE_ACK"],
     AUTHENTICATE_ACCOUNT_WEB_SUCCESS_ACK |->
         [request |-> "AUTHENTICATE_ACCOUNT_REQ", ack |-> "AUTHENTICATE_ACCOUNT_SUCCESS_ACK"],
     AUTHENTICATE_ACCOUNT_WEB_FAILURE_ACK |->
         [request |-> "AUTHENTICATE_ACCOUNT_REQ", ack |-> "AUTHENTICATE_ACCOUNT_FAILURE_ACK"]]

WebAckTypes == {"CREATE_ACCOUNT_WEB_SUCCESS_ACK", "CREATE_ACCOUNT_WEB_FAILURE_ACK",
                "AUTHENTICATE_ACCOUNT_WEB_SUCCESS_ACK", "AUTHENTICATE_ACCOUNT_WEB_FAILURE_ACK"}

WebRequest == [type : {"CREATE_ACCOUNT_WEB_REQ", "AUTHENTICATE_ACCOUNT_WEB_REQ"},
               requestId : Sockets, name : Names, from : Clients]
WebAck == [type : WebAckTypes, requestId : Sockets, from : Clients]

VARIABLES
    running,    \* RunLoop() has not returned
    wsa,        \* WSAStartup() calls not yet matched by a WSACleanup()
    clients,    \* m_ChatConn.clients: SOCKET -> connected
    readfds,    \* m_ChatConn.readfds without the listening socket
    name2socket,    \* m_UserName2ClientSocketMap
    socket2name,    \* m_ClientSocket2UserNameMap
    rooms,      \* m_RoomMap
    peer,       \* Winsock: the process at the other end of each open socket
    backlog,    \* Winsock: connections that wait for accept()
    conn,       \* each client's own end: "new", "open" or "closed"
    myName,     \* each client's m_MyUserName
    sent,       \* requests each client has sent
    toServer,   \* the packets each client has sent that were not received yet
    authUp,     \* the AuthServer keeps its end of the connection open
    toAuth,     \* packets on their way to the AuthServer
    fromAuth,   \* packets on their way back
    out,        \* the packets the last step delivered to each client
    owed        \* history: per client and account request, requests minus answers

serverVars == <<running, wsa, clients, readfds, name2socket, socket2name, rooms>>
netVars == <<peer, backlog>>
clientVars == <<conn, myName, sent>>
authVars == <<authUp, toAuth>>
vars == <<serverVars, netVars, clientVars, toServer, authVars, fromAuth, out, owed>>

Silent == [c \in Clients |-> <<>>]

\* The constructor has bound the listening socket and connected to the AuthServer:
\* each of the two did its own WSAStartup().  RunLoop() has put both in readfds.
Init ==
    /\ running = TRUE
    /\ wsa = 2
    /\ clients = [s \in Sockets |-> "none"]
    /\ readfds = {AuthHandle}
    /\ name2socket = [n \in Names |-> NoSocket]
    /\ socket2name = [s \in Sockets |-> NoName]
    /\ rooms = [r \in Rooms |-> {}]
    /\ peer = [s \in Sockets |-> IF s = AuthHandle THEN AuthPeer ELSE NoPeer]
    /\ backlog = {}
    /\ conn = [c \in Clients |-> "new"]
    /\ myName = [c \in Clients |-> EmptyName]
    /\ sent = [c \in Clients |-> 0]
    /\ toServer = [c \in Clients |-> <<>>]
    /\ authUp = TRUE
    /\ toAuth = <<>>
    /\ fromAuth = <<>>
    /\ out = Silent
    /\ owed = [c \in Clients |-> [t \in AccountTypes |-> 0]]
-----------------------------------------------------------------------------
(***************************************************************************)
(* The select loop.                                                        *)
(***************************************************************************)
Serving == running /\ wsa > 0

\* The sockets whose FD_SET into the copy comes before that of s: the loop goes
\* through the clients in the order of their handles.
SetBefore(s) == {t \in Sockets : t < s /\ clients[t] = "connected" /\ t \notin readfds}

\* s is in the copy of the fd_set that select() gets.  The listening socket is always
\* in readfds; FD_SET does nothing once a set holds FdSetSize sockets.
Watched(s) ==
    \/ s \in readfds
    \/ /\ clients[s] = "connected"
       /\ 1 + Cardinality(readfds) + Cardinality(SetBefore(s)) < FdSetSize

\* The other end still reads: a send to it succeeds and is delivered.
Alive(p) == IF p = AuthPeer THEN authUp ELSE p \in Clients /\ conn[p] = "open"

Incoming(s) == IF peer[s] = AuthPeer THEN fromAuth ELSE toServer[peer[s]]

\* recv() returns up to MaxBurst packets that have arrived on s.  Only the first is
\* handled: the buffer is reset before the next recv(), so the others are lost.
Receive(s, types) ==
    /\ Serving
    /\ Watched(s)
    /\ peer[s] # NoPeer
    /\ Incoming(s) # <<>>
    /\ Head(Incoming(s)).type \in types
    /\ \E n \in 1..MaxBurst :
          /\ n <= Len(Incoming(s))
          /\ IF peer[s] = AuthPeer
             THEN /\ fromAuth' = SubSeq(fromAuth, n + 1, Len(fromAuth))
                  /\ UNCHANGED toServer
             ELSE /\ toServer' = [toServer EXCEPT ![peer[s]] =
                                     SubSeq(@, n + 1, Len(@))]
                  /\ UNCHANGED fromAuth

\* Mutated form of AfterCleanups: a cleanup too many is counted.
AfterCleanupsUnchecked(failures) == wsa - failures

\* A failed send calls WSACleanup(), which fails once nothing is left to clean up.
AfterCleanups(failures) == IF failures < wsa THEN wsa - failures ELSE 0

\* The sends of one handler: msg to the socket "to", then ntf to the socket of every
\* one of the names.  A send on a closed socket fails, one to a peer that is gone may
\* fail; once WSACleanup() has been called as often as WSAStartup(), nothing is sent.
Transmit(to, msg, names, ntf) ==
    \E lost \in BOOLEAN, failed \in SUBSET names, reached \in SUBSET names :
       /\ IF lost THEN ~Alive(peer[to]) ELSE peer[to] # NoPeer
       /\ \A n \in failed : ~Alive(peer[name2socket[n]])
       /\ \A n \in reached : n \notin failed /\ peer[name2socket[n]] # NoPeer
       /\ LET failures == Cardinality(failed) + (IF lost THEN 1 ELSE 0)
          IN  wsa' = AfterCleanups(failures)
       /\ wsa' > 0 => names = failed \cup reached
       /\ out' = [c \in Clients |->
                    IF ~Alive(c) THEN <<>>
                    ELSE (IF ~lost /\ peer[to] = c THEN <<msg>> ELSE <<>>)
                         \o [i \in 1..Cardinality({n \in reached : peer[name2socket[n]] = c})
                               |-> ntf]]
-----------------------------------------------------------------------------
(***************************************************************************)
(* HandleMessage(), one action per group of cases.                         *)
(***************************************************************************)
\* Mutated forms of Remember: insert() in place of operator[], and either map left out.
RememberFirst(s, name) ==
    /\ name2socket' = [name2socket EXCEPT ![name] = IF @ = NoSocket THEN s ELSE @]
    /\ socket2name' = [socket2name EXCEPT ![s] = IF @ = NoName THEN name ELSE @]
RememberName(s, name) ==
    socket2name' = [socket2name EXCEPT ![s] = name] /\ UNCHANGED name2socket
RememberSocket(s, name) ==
    name2socket' = [name2socket EXCEPT ![name] = s] /\ UNCHANGED socket2name

\* "record the socket": the latest request counts.
Remember(s, name) ==
    /\ name2socket' = [name2socket EXCEPT ![name] = s]
    /\ socket2name' = [socket2name EXCEPT ![s] = name]

\* kCREATE_ACCOUNT_REQ and kAUTHENTICATE_ACCOUNT_REQ: remember who is on this socket,
\* then ask the AuthServer.
AccountReq(s) ==
    /\ Receive(s, AccountTypes)
    /\ LET m == Head(Incoming(s))
           web == [type |-> WebRequestType[m.type], requestId |-> s, name |-> m.name,
                   from |-> peer[s]]
       IN  /\ Remember(s, m.name)
           /\ Transmit(AuthHandle, web, {}, web)
           /\ toAuth' = IF peer[AuthHandle] = AuthPeer /\ authUp
                        THEN Append(toAuth, web) ELSE toAuth
    /\ UNCHANGED <<running, clients, readfds, rooms, netVars, clientVars, authUp, owed>>

\* The four answers of the AuthServer: the request id is used as the socket to answer
\* on, and the name in the answer is whatever name that socket has now.
WebAckFrom(s) ==
    /\ Receive(s, WebAckTypes)
    /\ LET m == Head(Incoming(s))
           client == peer[m.requestId]
           name == socket2name[m.requestId]
           ack == [type |-> WebAnswer[m.type].ack, name |-> name]
       IN  IF name # NoName
           THEN /\ Transmit(m.requestId, ack, {}, ack)
                /\ owed' = [c \in Clients |->
                              IF c = client /\ Alive(c)
                              THEN [owed[c] EXCEPT ![WebAnswer[m.type].request] = @ - 1]
                              ELSE owed[c]]
           ELSE out' = Silent /\ UNCHANGED <<wsa, owed>>
    /\ UNCHANGED <<running, clients, readfds, name2socket, socket2name, rooms, netVars,
                   clientVars, authVars>>

\* Mutated form of Reachable: a broadcast to everybody who has a name.
ReachableAnywhere(users) == {n \in Names : name2socket[n] # NoSocket}

\* The members of a room that a broadcast finds a socket for.
Reachable(users) == {n \in users : name2socket[n] # NoSocket}

\* kJOIN_ROOM_REQ: the joining user gets the list of members, the others a notification.
JoinRoom(s) ==
    /\ Receive(s, {"JOIN_ROOM_REQ"})
    /\ LET m == Head(Incoming(s))
           ntf == [type |-> "JOIN_ROOM_NTF", room |-> m.room, name |-> m.name]
           Ack(status, users) ==
               [type |-> "JOIN_ROOM_ACK", status |-> status, room |-> m.room, users |-> users]
       IN  IF m.room \in Rooms
           THEN LET users == rooms[m.room] \cup {m.name}
                IN  /\ rooms' = [rooms EXCEPT ![m.room] = users]
                    /\ Transmit(s, Ack("SUCCESS", users), Reachable(users \ {m.name}), ntf)
           ELSE UNCHANGED rooms /\ Transmit(s, Ack("FAILURE", {}), {}, ntf)
    /\ UNCHANGED <<running, clients, readfds, name2socket, socket2name, netVars, clientVars,
                   authVars, owed>>

\* kLEAVE_ROOM_REQ: an answer to the leaving user, whether or not they were a member,
\* and a notification to those who remain.
LeaveRoom(s) ==
    /\ Receive(s, {"LEAVE_ROOM_REQ"})
    /\ LET m == Head(Incoming(s))
           ntf == [type |-> "LEAVE_ROOM_NTF", room |-> m.room, name |-> m.name]
           Ack(status) ==
               [type |-> "LEAVE_ROOM_ACK", status |-> status, room |-> m.room, name |-> m.name]
       IN  IF m.room \in Rooms
           THEN LET users == rooms[m.room] \ {m.name}
                IN  /\ rooms' = [rooms EXCEPT ![m.room] = users]
                    /\ Transmit(s, Ack("SUCCESS"), Reachable(users), ntf)
           ELSE UNCHANGED rooms /\ Transmit(s, Ack("FAILURE"), {}, ntf)
    /\ UNCHANGED <<running, clients, readfds, name2socket, socket2name, netVars, clientVars,
                   authVars, owed>>

\* AckChatInRoom() has a status parameter and puts kSUCCESS in the message.
ChatAck(status, room, name) ==
    [type |-> "CHAT_IN_ROOM_ACK", status |-> "SUCCESS", room |-> room, name |-> name]

\* kCHAT_IN_ROOM_REQ: anyone may chat in a room; every member gets the chat, the
\* sender too if a member.
ChatInRoom(s) ==
    /\ Receive(s, {"CHAT_IN_ROOM_REQ"})
    /\ LET m == Head(Incoming(s))
           ntf == [type |-> "CHAT_IN_ROOM_NTF", room |-> m.room, name |-> m.name]
       IN  IF m.room \in Rooms
           THEN Transmit(s, ChatAck("SUCCESS", m.room, m.name), Reachable(rooms[m.room]), ntf)
           ELSE Transmit(s, ChatAck("FAILURE", m.room, m.name), {}, ntf)
    /\ UNCHANGED <<running, clients, readfds, name2socket, socket2name, rooms, netVars,
                   clientVars, authVars, owed>>
-----------------------------------------------------------------------------
(***************************************************************************)
(* Connections.                                                            *)
(***************************************************************************)
\* The handle values accept() may return.
FreeHandles ==
    {s \in Sockets : /\ peer[s] = NoPeer
                     /\ ReuseHandles \/ (clients[s] = "none" /\ s # AuthHandle)}

\* accept(): FD_SET does nothing on a full set, and insert() does nothing on a handle
\* the map already has.
Accept(c) ==
    /\ Serving
    /\ c \in backlog
    /\ backlog' = backlog \ {c}
    /\ \E s \in FreeHandles :
          /\ peer' = [peer EXCEPT ![s] = c]
          /\ readfds' = IF 1 + Cardinality(readfds) < FdSetSize
                        THEN readfds \cup {s} ELSE readfds
          /\ clients' = IF clients[s] = "none"
                        THEN [clients EXCEPT ![s] = "connected"] ELSE clients
    /\ out' = Silent
    /\ UNCHANGED <<running, wsa, name2socket, socket2name, rooms, clientVars, toServer,
                   authVars, fromAuth, owed>>

\* Mutated form of RecvFailed: 0 is not an error.
RecvNegative(s) == FALSE

\* recv() returns 0 or an error.
RecvFailed(s) == peer[s] # NoPeer /\ ~Alive(peer[s])

\* Mutated form of MarkDisconnected: the entry is left alone.
MarkNothing(s) == UNCHANGED clients

\* The entry of the socket, if it has one, becomes false.
MarkDisconnected(s) ==
    clients' = IF clients[s] = "none" THEN clients
               ELSE [clients EXCEPT ![s] = "disconnected"]

\* Mutated form of CloseSocket: every closed socket is an error to clean up after.
CloseAndCleanup(s) ==
    /\ peer' = [peer EXCEPT ![s] = NoPeer]
    /\ readfds' = readfds \ {s}
    /\ wsa' = AfterCleanups(1)

\* closesocket() and FD_CLR.
CloseSocket(s) ==
    /\ peer' = [peer EXCEPT ![s] = NoPeer]
    /\ readfds' = readfds \ {s}
    /\ UNCHANGED wsa

\* recv() fails, which also discards what had arrived: the socket is closed and never
\* watched again.  Names and rooms are left as they are.
Disconnect(s) ==
    /\ Serving
    /\ Watched(s)
    /\ RecvFailed(s)
    /\ MarkDisconnected(s)
    /\ CloseSocket(s)
    /\ IF peer[s] = AuthPeer
       THEN fromAuth' = <<>> /\ UNCHANGED toServer
       ELSE toServer' = [toServer EXCEPT ![peer[s]] = <<>>] /\ UNCHANGED fromAuth
    /\ out' = Silent
    /\ UNCHANGED <<running, name2socket, socket2name, rooms, backlog, clientVars,
                   authVars, owed>>

\* select() fails because Winsock has been cleaned up: RunLoop() returns, and with it
\* the process.
LoopEnds ==
    /\ running /\ wsa = 0
    /\ running' = FALSE
    /\ out' = Silent
    /\ UNCHANGED <<wsa, clients, readfds, name2socket, socket2name, rooms, netVars,
                   clientVars, toServer, authVars, fromAuth, owed>>

Serve(s) == \/ AccountReq(s) \/ WebAckFrom(s)
            \/ JoinRoom(s) \/ LeaveRoom(s) \/ ChatInRoom(s)
            \/ Disconnect(s)
-----------------------------------------------------------------------------
(***************************************************************************)
(* The environment.                                                        *)
(***************************************************************************)
Connect(c) ==
    /\ running /\ conn[c] = "new"
    /\ conn' = [conn EXCEPT ![c] = "open"]
    /\ backlog' = backlog \cup {c}
    /\ out' = Silent
    /\ UNCHANGED <<serverVars, peer, myName, sent, toServer, authVars, fromAuth, owed>>

CanSend(c) == conn[c] = "open" /\ sent[c] < MaxRequests

\* ReqCreateAccount(), ReqAuthAccount(): the name the process was started with becomes
\* the name of all later requests.
SendAccountReq(c, t) ==
    /\ CanSend(c) /\ t \in RequestTypes \cap AccountTypes
    /\ myName' = [myName EXCEPT ![c] = NameOf[c]]
    /\ sent' = [sent EXCEPT ![c] = @ + 1]
    /\ toServer' = [toServer EXCEPT ![c] = Append(@, [type |-> t, name |-> NameOf[c]])]
    /\ owed' = [owed EXCEPT ![c][t] = @ + 1]
    /\ out' = Silent
    /\ UNCHANGED <<serverVars, netVars, conn, authVars, fromAuth>>

\* ReqJoinRoom(), ReqLeaveRoom(), ReqChatInRoom().
SendRoomReq(c, t, r) ==
    /\ CanSend(c) /\ t \in RequestTypes \cap RoomTypes
    /\ sent' = [sent EXCEPT ![c] = @ + 1]
    /\ toServer' = [toServer EXCEPT ![c] =
                      Append(@, [type |-> t, name |-> myName[c], room |-> r])]
    /\ out' = Silent
    /\ UNCHANGED <<serverVars, netVars, conn, myName, authVars, fromAuth, owed>>

\* The client quits: what it has sent may still arrive.
CloseClient(c) ==
    /\ conn[c] = "open"
    /\ conn' = [conn EXCEPT ![c] = "closed"]
    /\ out' = Silent
    /\ UNCHANGED <<serverVars, netVars, myName, sent, toServer, authVars, fromAuth, owed>>

\* The AuthServer answers a request with success or failure.  It reads like the chat
\* server does: of the packets of one recv() only the first is answered.
AuthAnswers ==
    /\ authUp /\ toAuth # <<>>
    /\ \E n \in 1..MaxBurst : /\ n <= Len(toAuth)
                              /\ toAuth' = SubSeq(toAuth, n + 1, Len(toAuth))
    /\ LET req == Head(toAuth)
           types == IF req.type = "CREATE_ACCOUNT_WEB_REQ"
                    THEN {"CREATE_ACCOUNT_WEB_SUCCESS_ACK", "CREATE_ACCOUNT_WEB_FAILURE_ACK"}
                    ELSE {"AUTHENTICATE_ACCOUNT_WEB_SUCCESS_ACK",
                          "AUTHENTICATE_ACCOUNT_WEB_FAILURE_ACK"}
       IN  \E t \in types :
              fromAuth' = IF peer[AuthHandle] = AuthPeer
                          THEN Append(fromAuth, [type |-> t, requestId |-> req.requestId,
                                                 from |-> req.from])
                          ELSE fromAuth
    /\ out' = Silent
    /\ UNCHANGED <<serverVars, netVars, clientVars, toServer, authUp, owed>>

\* The AuthServer process ends.
AuthDown ==
    /\ authUp
    /\ authUp' = FALSE
    /\ toAuth' = <<>>
    /\ out' = Silent
    /\ UNCHANGED <<serverVars, netVars, clientVars, toServer, fromAuth, owed>>

Next ==
    \/ \E s \in Sockets : Serve(s)
    \/ \E c \in Clients : Accept(c) \/ Connect(c) \/ CloseClient(c)
    \/ \E c \in Clients, t \in RequestTypes : SendAccountReq(c, t)
    \/ \E c \in Clients, t \in RequestTypes, r \in RoomNames : SendRoomReq(c, t, r)
    \/ LoopEnds \/ AuthAnswers \/ AuthDown

Spec == Init /\ [][Next]_vars

\* Each round of the loop serves every ready socket, so none that stays ready waits for
\* ever; the AuthServer's loop reads its only connection.  Clients are free to stop.
Fairness ==
    /\ \A s \in Sockets : WF_vars(Serve(s))
    /\ \A c \in Clients : WF_vars(Accept(c))
    /\ WF_vars(LoopEnds) /\ WF_vars(AuthAnswers)

FairSpec == Spec /\ Fairness
-----------------------------------------------------------------------------
(***************************************************************************)
(* Properties.                                                             *)
(***************************************************************************)
\* Every variable keeps to the values its declaration in server.h or client.h allows.
TypeOK ==
    /\ running \in BOOLEAN
    /\ wsa \in 0..2
    /\ clients \in [Sockets -> {"none", "connected", "disconnected"}]
    /\ readfds \subseteq Sockets
    /\ name2socket \in [Names -> Sockets \cup {NoSocket}]
    /\ socket2name \in [Sockets -> Names \cup {NoName}]
    /\ rooms \in [Rooms -> SUBSET Names]
    /\ peer \in [Sockets -> Clients \cup {AuthPeer, NoPeer}]
    /\ backlog \subseteq Clients
    /\ conn \in [Clients -> {"new", "open", "closed"}]
    /\ myName \in [Clients -> Names]
    /\ sent \in [Clients -> 0..MaxRequests]
    /\ toServer \in [Clients -> Seq(Request)]
    /\ authUp \in BOOLEAN
    /\ toAuth \in Seq(WebRequest)
    /\ fromAuth \in Seq(WebAck)
    /\ owed \in [Clients -> [AccountTypes -> Int]]

\* An answer of the AuthServer carries a socket and no name: HandleMessage() names the
\* user from m_ClientSocket2UserNameMap.  As long as the client whose request is being
\* answered still has the socket, that name is its own, whatever happens to other
\* clients and to the handles of closed sockets meanwhile.
RepliesNameTheRequester ==
    \A w \in Range(toAuth) \cup Range(fromAuth) :
        peer[w.requestId] = w.from => socket2name[w.requestId] = NameOf[w.from]

\* No closed socket is ever in the set given to select(): select() would fail and
\* RunLoop() return, for all clients.
SelectNeverFails == \A s \in Sockets : Watched(s) => peer[s] # NoPeer

\* No client is sent more success and failure answers to a kind of account request than
\* it has made requests of that kind.
AcksAnswerRequests == \A c \in Clients, t \in AccountTypes : owed[c][t] >= 0

\* SendMsg() cleans Winsock up when a send fails.  That happens only after the AuthServer
\* or a client that had sent some request has left: connecting and leaving is harmless.
OnlyRequestersCost ==
    wsa < 2 => ~authUp \/ \E c \in Clients : conn[c] = "closed" /\ sent[c] > 0

\* m_ChatConn.clients says "connected" of exactly the sockets that are open to a client.
ClientsMapIsCurrent ==
    \A s \in Sockets : clients[s] = "connected" <=> peer[s] \in Clients

\* Join, leave and chat notifications of a room go to members of that room only.
NotificationsReachMembers ==
    \A c \in Clients : \A m \in Range(out[c]) :
        m.type \in {"JOIN_ROOM_NTF", "LEAVE_ROOM_NTF", "CHAT_IN_ROOM_NTF"}
            => NameOf[c] \in rooms[m.room]

\* As long as a client that shares its name with no other is connected, broadcasts reach it
\* under the name the server knows it by: no client that comes or goes on other handles,
\* and none that had the handle before, takes its entry.
NamesFindTheirClients ==
    \A s \in Sockets :
        /\ peer[s] \in Clients
        /\ socket2name[s] = NameOf[peer[s]]
        /\ \A d \in Clients : NameOf[d] = NameOf[peer[s]] => d = peer[s]
        => name2socket[NameOf[peer[s]]] = s

\* An accepted client is left out of select() only while the fd_set is full.
StarvedOnlyWhenFull ==
    \A s \in Sockets : peer[s] \in Clients /\ ~Watched(s)
        => 1 + Cardinality({t \in Sockets : Watched(t)}) = FdSetSize

\* A chat in a room that does not exist is answered with a failure.
UnknownRoomsAreRefused ==
    \A c \in Clients : \A m \in Range(out[c]) :
        m.type = "CHAT_IN_ROOM_ACK" /\ m.room \notin Rooms => m.status = "FAILURE"

\* Every account request is answered, unless its client or the AuthServer leaves or the
\* server has been brought down.
AccountRequestsAreAnswered ==
    \A c \in Clients, t \in AccountTypes :
        owed[c][t] > 0 ~> owed[c][t] = 0 \/ conn[c] = "closed" \/ ~authUp \/ ~Serving

\* A client that has left is noticed: its socket is closed, or the server is down.
DeparturesAreNoticed ==
    \A c \in Clients :
        conn[c] = "closed" ~> ~Serving \/ (c \notin backlog /\ \A s \in Sockets : peer[s] # c)
=============================================================================
