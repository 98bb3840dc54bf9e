------------------------ MODULE ChatServerPeersProofs -------------------------
(***************************************************************************)
(* Proofs about ChatServer: what its maps say of the processes behind the  *)
(* sockets, what a process that leaves can cost the others, whom a         *)
(* broadcast reaches, and how many answers a request gets.                 *)
(***************************************************************************)
EXTENDS ChatServerProofs

\* The connections that were accepted, and the names they have used.
THEOREM AnswerInvariance == Spec => []AnswerInv
<1>1. Init => Identities /\ RepliesNameTheRequester
  BY AnswerInit
<1>2. TypeOK /\ Identities /\ RepliesNameTheRequester /\ [Next]_vars
          => Identities' /\ RepliesNameTheRequester'
  BY AnswerStep DEF AnswerInv
<1>3. AnswerInv <=> TypeOK /\ Identities /\ RepliesNameTheRequester
  BY DEF AnswerInv
<1> QED
  BY <1>1, <1>2, <1>3, TypeCorrect, PTL DEF Spec

\* What an account request does to the name maps.
LEMMA AccountReqNames ==
    ASSUME AnswerInv, NEW s \in Sockets, AccountReq(s)
    PROVE  /\ peer[s] \in Clients /\ NameOf[peer[s]] \in Names
           /\ name2socket' = [name2socket EXCEPT ![NameOf[peer[s]]] = s]
           /\ socket2name' = [socket2name EXCEPT ![s] = NameOf[peer[s]]]
           /\ UNCHANGED <<clients, rooms, peer, backlog, conn, sent, authUp>>
<1> DEFINE m == Head(Incoming(s))
<1>1. TypeOK /\ Identities
  BY DEF AnswerInv
<1>2. Receive(s, AccountTypes)
  BY DEF AccountReq, Remember
<1>3. /\ peer[s] \in Clients /\ m \in Request /\ m.type \in AccountTypes
      /\ m \in Range(toServer[peer[s]])
  BY <1>1, <1>2, ReceiveEffect, SenderOf
<1>4. m.name = NameOf[peer[s]]
  BY <1>1, <1>3 DEF Identities
<1>5. /\ name2socket' = [name2socket EXCEPT ![m.name] = s]
      /\ socket2name' = [socket2name EXCEPT ![s] = m.name]
      /\ UNCHANGED <<clients, rooms, peer, backlog, conn, sent, authUp>>
  BY DEF AccountReq, Remember, netVars, clientVars
<1>6. NameOf[peer[s]] \in Names
  BY <1>3 DEF Names
<1> QED
  BY <1>3, <1>4, <1>5, <1>6
-----------------------------------------------------------------------------
(***************************************************************************)
(* A name leads to the client that has it.                                 *)
(***************************************************************************)
\* A socket has the name of a client that was accepted.
NamesAreOfAccepted ==
    \A s \in Sockets : socket2name[s] # NoName =>
        \E d \in Clients : /\ NameOf[d] = socket2name[s]
                           /\ d \notin backlog /\ conn[d] # "new"

Alone(c) == \A d \in Clients : NameOf[d] = NameOf[c] => d = c

NamesInv == NamesAreOfAccepted /\ NamesFindTheirClients

\* No step breaks the names.
LEMMA NamesStep == AnswerInv /\ AnswerInv' /\ NamesInv /\ [Next]_vars => NamesInv'
<1> SUFFICES ASSUME AnswerInv, AnswerInv', NamesInv, [Next]_vars PROVE NamesInv'
  OBVIOUS
<1> USE DEF serverVars, netVars, clientVars, authVars
<1>0. TypeOK /\ Identities /\ NamesAreOfAccepted /\ NamesFindTheirClients
  BY DEF AnswerInv, NamesInv
<1>a. NoName \notin Names /\ NoPeer \notin Clients
  BY ClientAssumption
<1>1. ASSUME NEW s \in Sockets, AccountReq(s) PROVE NamesInv'
  <2>1. /\ peer[s] \in Clients /\ NameOf[peer[s]] \in Names
        /\ name2socket' = [name2socket EXCEPT ![NameOf[peer[s]]] = s]
        /\ socket2name' = [socket2name EXCEPT ![s] = NameOf[peer[s]]]
        /\ UNCHANGED <<clients, rooms, peer, backlog, conn, sent, authUp>>
    BY <1>1, AccountReqNames
  <2>2. peer[s] \notin backlog /\ conn[peer[s]] # "new"
    BY <1>0, <2>1 DEF Identities
  <2>3. NamesAreOfAccepted'
    BY <1>0, <2>1, <2>2 DEF NamesAreOfAccepted, TypeOK
  <2>4. ASSUME NEW t \in Sockets, peer[t] \in Clients, socket2name'[t] = NameOf[peer[t]],
               Alone(peer[t])
        PROVE  name2socket'[NameOf[peer[t]]] = t
    <3>1. CASE t = s
      BY <1>0, <2>1, <3>1 DEF TypeOK
    <3>2. CASE t # s
      <4>1. peer[t] # peer[s]
        BY <1>0, <2>1, <2>4, <3>2 DEF Identities
      <4>2. NameOf[peer[t]] # NameOf[peer[s]]
        BY <2>1, <2>4, <4>1 DEF Alone
      <4>3. socket2name[t] = NameOf[peer[t]] /\ NameOf[peer[t]] \in Names
        BY <1>0, <2>1, <2>4, <3>2 DEF TypeOK, Names
      <4>4. name2socket[NameOf[peer[t]]] = t
        BY <1>0, <2>4, <4>3 DEF NamesFindTheirClients, Alone
      <4> QED
        BY <1>0, <2>1, <4>2, <4>3, <4>4 DEF TypeOK
    <3> QED
      BY <3>1, <3>2
  <2>5. NamesFindTheirClients'
    BY <2>1, <2>4 DEF NamesFindTheirClients, Alone
  <2> QED
    BY <2>3, <2>5 DEF NamesInv
<1>2. ASSUME NEW c \in Clients, Accept(c) PROVE NamesInv'
  <2>1. PICK s \in Sockets : peer[s] = NoPeer /\ peer' = [peer EXCEPT ![s] = c]
    BY <1>2 DEF Accept, FreeHandles
  <2>2. /\ c \in backlog /\ backlog' = backlog \ {c}
        /\ UNCHANGED <<conn, name2socket, socket2name>>
    BY <1>2 DEF Accept
  <2>3. NamesAreOfAccepted'
    BY <1>0, <2>2 DEF NamesAreOfAccepted
  <2>4. Alone(c) => socket2name[s] # NameOf[c]
    <3> SUFFICES ASSUME Alone(c), socket2name[s] = NameOf[c] PROVE FALSE
      OBVIOUS
    <3>1. NameOf[c] # NoName
      BY <1>a DEF Names
    <3>2. PICK d \in Clients : NameOf[d] = NameOf[c] /\ d \notin backlog
      BY <1>0, <3>1 DEF NamesAreOfAccepted
    <3> QED
      BY <2>2, <3>2 DEF Alone
  <2>5. NamesFindTheirClients'
    BY <1>0, <2>1, <2>2, <2>4 DEF NamesFindTheirClients, TypeOK, Alone
  <2> QED
    BY <2>3, <2>5 DEF NamesInv
<1>3. ASSUME NEW s \in Sockets, Disconnect(s) PROVE NamesInv'
  <2>1. /\ peer' = [peer EXCEPT ![s] = NoPeer]
        /\ UNCHANGED <<backlog, conn, name2socket, socket2name>>
    BY <1>3 DEF Disconnect, RecvFailed, MarkDisconnected, CloseSocket
  <2>2. NamesAreOfAccepted'
    BY <1>0, <2>1 DEF NamesAreOfAccepted
  <2>3. \A t \in Sockets : peer'[t] \in Clients => peer'[t] = peer[t]
    BY <1>0, <1>a, <2>1 DEF TypeOK
  <2>4. NamesFindTheirClients'
    BY <1>0, <2>1, <2>3 DEF NamesFindTheirClients
  <2> QED
    BY <2>2, <2>4 DEF NamesInv
<1>4. ASSUME NEW c \in Clients, Connect(c) \/ CloseClient(c) PROVE NamesInv'
  <2>1. /\ UNCHANGED <<peer, name2socket, socket2name>>
        /\ \A d \in Clients : conn[d] # "new" => conn'[d] # "new"
        /\ \A d \in Clients : d \notin backlog /\ conn[d] # "new" => d \notin backlog'
    BY <1>0, <1>4 DEF Connect, CloseClient, TypeOK
  <2>2. NamesAreOfAccepted'
    BY <1>0, <2>1 DEF NamesAreOfAccepted
  <2>3. NamesFindTheirClients'
    BY <1>0, <2>1 DEF NamesFindTheirClients
  <2> QED
    BY <2>2, <2>3 DEF NamesInv
<1>5. CASE UNCHANGED <<peer, backlog, conn, name2socket, socket2name>>
  BY <1>0, <1>5 DEF NamesInv, NamesAreOfAccepted, NamesFindTheirClients
<1> QED
  BY <1>1, <1>2, <1>3, <1>4, <1>5 DEF Next, Serve, vars, WebAckFrom, JoinRoom, LeaveRoom,
     ChatInRoom, LoopEnds, SendAccountReq, SendRoomReq, AuthAnswers, AuthDown

\* The socket a broadcast finds under a client's name is the client's, as long as the client
\* is connected, has the name to itself and has made an account request: the clients that
\* come and go on other handles, or had this one before, do not take its entry.
THEOREM NamesLeadToTheirClients == Spec => []NamesFindTheirClients
<1>1. Init => NamesInv
  <2>1. NoPeer \notin Clients /\ AuthPeer \notin Clients
    BY ClientAssumption
  <2> QED
    BY <2>1 DEF Init, NamesInv, NamesAreOfAccepted, NamesFindTheirClients
<1>2. NamesInv => NamesFindTheirClients
  BY DEF NamesInv
<1> QED
  BY <1>1, <1>2, NamesStep, AnswerInvariance, PTL DEF Spec
-----------------------------------------------------------------------------
(***************************************************************************)
(* The map of the clients' sockets.                                        *)
(***************************************************************************)
LEMMA ClientsMapStep ==
    ASSUME ~ReuseHandles, TypeOK, ClientsMapIsCurrent, [Next]_vars
    PROVE  ClientsMapIsCurrent'
<1> USE DEF serverVars, netVars, clientVars, authVars
<1>1. NoPeer \notin Clients /\ AuthPeer \notin Clients
  BY ClientAssumption
<1>2. ASSUME NEW c \in Clients, Accept(c) PROVE ClientsMapIsCurrent'
  <2>1. PICK s \in Sockets :
           /\ clients[s] = "none"
           /\ peer' = [peer EXCEPT ![s] = c]
           /\ clients' = [clients EXCEPT ![s] = "connected"]
    BY <1>2 DEF Accept, FreeHandles
  <2> QED
    BY <2>1 DEF ClientsMapIsCurrent, TypeOK
<1>3. ASSUME NEW s \in Sockets, Disconnect(s) PROVE ClientsMapIsCurrent'
  <2>1. /\ peer' = [peer EXCEPT ![s] = NoPeer]
        /\ clients' = IF clients[s] = "none" THEN clients
                      ELSE [clients EXCEPT ![s] = "disconnected"]
    BY <1>3 DEF Disconnect, RecvFailed, MarkDisconnected, CloseSocket
  <2> QED
    BY <1>1, <2>1 DEF ClientsMapIsCurrent, TypeOK
<1>4. CASE UNCHANGED <<peer, clients>>
  BY <1>4 DEF ClientsMapIsCurrent
<1> QED
  BY <1>2, <1>3, <1>4 DEF Next, Serve, vars, AccountReq, WebAckFrom, JoinRoom, LeaveRoom,
     ChatInRoom, LoopEnds, Connect, CloseClient, SendAccountReq, SendRoomReq, AuthAnswers,
     AuthDown

\* The map says "connected" of exactly the sockets that are open to a client, unless the
\* value of a closed socket is handed out again.
THEOREM ClientsMapIsRight == ASSUME ~ReuseHandles PROVE Spec => []ClientsMapIsCurrent
<1>1. Init => ClientsMapIsCurrent
  <2>1. NoPeer \notin Clients /\ AuthPeer \notin Clients
    BY ClientAssumption
  <2> QED
    BY <2>1 DEF Init, ClientsMapIsCurrent
<1>2. TypeOK /\ ClientsMapIsCurrent /\ [Next]_vars => ClientsMapIsCurrent'
  BY ClientsMapStep
<1> QED
  BY <1>1, <1>2, TypeCorrect, PTL DEF Spec
-----------------------------------------------------------------------------
(***************************************************************************)
(* Who can cost the server its Winsock.                                    *)
(***************************************************************************)
\* The AuthServer, or a client that had sent some request, has left.
Cost == ~authUp \/ \E c \in Clients : conn[c] = "closed" /\ sent[c] > 0

\* A socket that is still used for a client: it has sent some request, and if the socket
\* is no longer its own, it has left.
UsedFor(s, c) == sent[c] > 0 /\ (peer[s] = c \/ conn[c] = "closed")
UsedAfter(s, c) == sent'[c] > 0 /\ (peer'[s] = c \/ conn'[c] = "closed")

\* The packets on their way come from clients that have sent some request.
PacketsHaveUsers ==
    /\ \A c \in Clients : Range(toServer[c]) # {} => sent[c] > 0
    /\ \A w \in Pending : UsedFor(w.requestId, w.from)

\* So do the names that have sockets; the socket of the AuthServer is kept until it ends.
SocketsHaveUsers ==
    /\ peer[AuthHandle] # AuthPeer => ~authUp
    /\ PacketsHaveUsers
    /\ \A n \in Names : name2socket[n] # NoSocket =>
          \E c \in Clients : UsedFor(name2socket[n], c)

CostInv == SocketsHaveUsers /\ OnlyRequestersCost

\* What has happened once stays so.
LEMMA History ==
    ASSUME TypeOK, [Next]_vars
    PROVE  /\ \A c \in Clients : sent[c] > 0 => sent'[c] > 0
           /\ \A c \in Clients : conn[c] = "closed" => conn'[c] = "closed"
           /\ ~authUp => ~authUp'
<1> USE DEF serverVars, netVars, clientVars, authVars
<1>1. \/ UNCHANGED sent
      \/ \E c \in Clients : sent' = [sent EXCEPT ![c] = @ + 1]
  BY DEF Next, Serve, vars, AccountReq, WebAckFrom, JoinRoom, LeaveRoom, ChatInRoom, Accept,
     Disconnect, LoopEnds, Connect, CloseClient, SendAccountReq, SendRoomReq, AuthAnswers, AuthDown
<1>2. \/ UNCHANGED conn
      \/ \E c \in Clients : conn[c] = "new" /\ conn' = [conn EXCEPT ![c] = "open"]
      \/ \E c \in Clients : conn' = [conn EXCEPT ![c] = "closed"]
  BY DEF Next, Serve, vars, AccountReq, WebAckFrom, JoinRoom, LeaveRoom, ChatInRoom, Accept,
     Disconnect, LoopEnds, Connect, CloseClient, SendAccountReq, SendRoomReq, AuthAnswers, AuthDown
<1>3. UNCHANGED authUp \/ authUp' = FALSE
  BY DEF Next, Serve, vars, AccountReq, WebAckFrom, JoinRoom, LeaveRoom, ChatInRoom, Accept,
     Disconnect, LoopEnds, Connect, CloseClient, SendAccountReq, SendRoomReq, AuthAnswers, AuthDown
<1>4. DOMAIN sent = Clients /\ \A c \in Clients : sent[c] \in Nat
  BY SocketAssumption DEF TypeOK
<1>5. \A c \in Clients : sent[c] > 0 => sent'[c] > 0
  BY <1>1, <1>4
<1>6. \A c \in Clients : conn[c] = "closed" => conn'[c] = "closed"
  BY <1>2 DEF TypeOK
<1> QED
  BY <1>3, <1>5, <1>6

\* A handler counts a cleanup only for a send to somebody who has left.
LEMMA TransmitCost ==
    ASSUME TypeOK, NEW to, NEW msg, NEW names \in SUBSET Names, NEW ntf,
           Transmit(to, msg, names, ntf), wsa' < 2, OnlyRequestersCost,
           ~Alive(peer[to]) => Cost,
           \A n \in names : ~Alive(peer[name2socket[n]]) => Cost
    PROVE  Cost
<1>1. PICK lost \in BOOLEAN, failed \in SUBSET names :
         /\ lost => ~Alive(peer[to])
         /\ \A n \in failed : ~Alive(peer[name2socket[n]])
         /\ wsa' = AfterCleanups(Cardinality(failed) + (IF lost THEN 1 ELSE 0))
  BY DEF Transmit
<1>2. CASE lost
  BY <1>1, <1>2
<1>3. CASE failed # {}
  BY <1>1, <1>3
<1>4. CASE ~lost /\ failed = {}
  <2>1. wsa' = AfterCleanups(0)
    BY <1>1, <1>4, FS_EmptySet
  <2>2. wsa < 2
    BY <2>1 DEF AfterCleanups, TypeOK
  <2> QED
    BY <2>2 DEF OnlyRequestersCost, Cost
<1> QED
  BY <1>2, <1>3, <1>4

\* A client with a socket that does not read any more has closed it.
LEMMA GoneIsClosed ==
    ASSUME TypeOK, Identities, NEW s \in Sockets, peer[s] \in Clients, ~Alive(peer[s])
    PROVE  conn[peer[s]] = "closed"
<1>1. peer[s] # AuthPeer
  BY ClientAssumption
<1> QED
  BY <1>1 DEF Alive, TypeOK, Identities

\* The sockets a handler sends to: that of the AuthServer, one that is used for a client.
LEMMA LostToAuth ==
    ASSUME SocketsHaveUsers, ~Alive(peer[AuthHandle])
    PROVE  Cost
BY DEF SocketsHaveUsers, Alive, Cost

\* The same for a socket used for a client.
LEMMA LostToClient ==
    ASSUME TypeOK, Identities, NEW s \in Sockets, NEW c \in Clients, UsedFor(s, c), ~Alive(peer[s])
    PROVE  Cost
BY GoneIsClosed DEF UsedFor, Cost

\* The answer to a room request and its notifications.
LEMMA RoomCost ==
    ASSUME AnswerInv, CostInv, NEW s \in Sockets, Receive(s, RoomTypes), NEW msg, NEW ntf,
           NEW users \in SUBSET Names, Transmit(s, msg, users, ntf), wsa' < 2,
           \A n \in users : name2socket[n] # NoSocket
    PROVE  Cost
<1>1. TypeOK /\ Identities /\ SocketsHaveUsers /\ OnlyRequestersCost
  BY DEF AnswerInv, CostInv
<1>2. peer[s] \in Clients /\ Range(toServer[peer[s]]) # {}
  BY <1>1, SenderOf
<1>3. ~Alive(peer[s]) => Cost
  BY <1>1, <1>2, LostToClient DEF SocketsHaveUsers, PacketsHaveUsers, UsedFor
<1>4. ASSUME NEW n \in users, ~Alive(peer[name2socket[n]]) PROVE Cost
  <2>1. name2socket[n] \in Sockets
    BY <1>1 DEF TypeOK
  <2>2. PICK c \in Clients : UsedFor(name2socket[n], c)
    BY <1>1 DEF SocketsHaveUsers
  <2> QED
    BY <1>1, <1>4, <2>1, <2>2, LostToClient
<1> QED
  BY <1>1, <1>3, <1>4, TransmitCost

\* Each step leaves the Winsock count alone, or somebody has left.
LEMMA CostStep ==
    ASSUME AnswerInv, CostInv, [Next]_vars
    PROVE  OnlyRequestersCost'
<1> USE DEF serverVars, netVars, clientVars, authVars
<1>0. TypeOK /\ Identities /\ SocketsHaveUsers /\ OnlyRequestersCost
  BY DEF AnswerInv, CostInv
<1>1. Cost => OnlyRequestersCost'
  BY <1>0, History DEF Cost, OnlyRequestersCost
<1>2. UNCHANGED wsa => OnlyRequestersCost'
  <2>1. wsa < 2 => Cost
    BY <1>0 DEF OnlyRequestersCost, Cost
  <2> QED
    BY <1>1, <2>1 DEF OnlyRequestersCost
<1>3. wsa' < 2 \/ OnlyRequestersCost'
  BY DEF OnlyRequestersCost
<1>4. ASSUME NEW s \in Sockets, AccountReq(s), wsa' < 2 PROVE Cost
  <2>1. PICK web : Transmit(AuthHandle, web, {}, web)
    BY <1>4 DEF AccountReq
  <2> QED
    BY <1>0, <1>4, <2>1, LostToAuth, TransmitCost
<1>5. ASSUME NEW s \in Sockets, WebAckFrom(s), wsa' < 2 PROVE Cost
  <2> DEFINE m == Head(Incoming(s))
             ack == [type |-> WebAnswer[m.type].ack, name |-> socket2name[m.requestId]]
  <2>1. Receive(s, WebAckTypes)
    BY <1>5 DEF WebAckFrom
  <2>2. m \in WebAck /\ m \in Pending
    BY <1>0, <2>1, SenderOf DEF Pending
  <2>3. m.requestId \in Sockets /\ m.from \in Clients /\ UsedFor(m.requestId, m.from)
    BY <1>0, <2>2 DEF WebAck, SocketsHaveUsers, PacketsHaveUsers
  <2>4. Transmit(m.requestId, ack, {}, ack) \/ UNCHANGED wsa
    BY <1>5 DEF WebAckFrom
  <2> HIDE DEF m, ack
  <2>5. CASE UNCHANGED wsa
    BY <1>0, <1>5, <2>5 DEF OnlyRequestersCost, Cost
  <2>6. CASE Transmit(m.requestId, ack, {}, ack)
    BY <1>0, <1>5, <2>3, <2>6, LostToClient, TransmitCost
  <2> QED
    BY <2>4, <2>5, <2>6
<1>6. ASSUME NEW s \in Sockets, NEW t \in RoomTypes, Receive(s, {t}) PROVE Receive(s, RoomTypes)
  BY <1>6 DEF Receive
<1>7. /\ \A users : \A n \in Reachable(users) : name2socket[n] # NoSocket
      /\ \A users \in SUBSET Names : Reachable(users) \in SUBSET Names
      /\ \A r \in Rooms : rooms[r] \in SUBSET Names
  BY <1>0 DEF Reachable, TypeOK
<1>8. ASSUME NEW s \in Sockets, JoinRoom(s), wsa' < 2 PROVE Cost
  <2> DEFINE m == Head(Incoming(s))
             ntf == [type |-> "JOIN_ROOM_NTF", room |-> m.room, name |-> m.name]
             Ack(status, users) ==
                 [type |-> "JOIN_ROOM_ACK", status |-> status, room |-> m.room, users |-> users]
  <2>1. Receive(s, RoomTypes)
    BY <1>6, <1>8 DEF JoinRoom, RoomTypes
  <2>2. CASE m.room \in Rooms
    <3> DEFINE users == rooms[m.room] \cup {m.name}
               others == users \ {m.name}
    <3>1. Transmit(s, Ack("SUCCESS", users), Reachable(others), ntf)
      BY <1>8, <2>2 DEF JoinRoom
    <3>2. Reachable(others) \in SUBSET Names
      BY <1>7, <2>2
    <3>3. \A n \in Reachable(others) : name2socket[n] # NoSocket
      BY <1>7
    <3> HIDE DEF others, users, ntf, Ack
    <3> QED
      BY <1>8, <2>1, <3>1, <3>2, <3>3, RoomCost
  <2>3. CASE m.room \notin Rooms
    <3>1. Transmit(s, Ack("FAILURE", {}), {}, ntf)
      BY <1>8, <2>3 DEF JoinRoom
    <3> HIDE DEF ntf, Ack
    <3> QED
      BY <1>8, <2>1, <3>1, RoomCost
  <2> QED
    BY <2>2, <2>3
<1>9. ASSUME NEW s \in Sockets, LeaveRoom(s), wsa' < 2 PROVE Cost
  <2> DEFINE m == Head(Incoming(s))
             ntf == [type |-> "LEAVE_ROOM_NTF", room |-> m.room, name |-> m.name]
             Ack(status) ==
                 [type |-> "LEAVE_ROOM_ACK", status |-> status, room |-> m.room, name |-> m.name]
  <2>1. Receive(s, RoomTypes)
    BY <1>6, <1>9 DEF LeaveRoom, RoomTypes
  <2>2. CASE m.room \in Rooms
    <3> DEFINE users == rooms[m.room] \ {m.name}
    <3>1. Transmit(s, Ack("SUCCESS"), Reachable(users), ntf)
      BY <1>9, <2>2 DEF LeaveRoom
    <3>2. Reachable(users) \in SUBSET Names
      BY <1>7, <2>2
    <3>3. \A n \in Reachable(users) : name2socket[n] # NoSocket
      BY <1>7
    <3> HIDE DEF users, ntf, Ack
    <3> QED
      BY <1>9, <2>1, <3>1, <3>2, <3>3, RoomCost
  <2>3. CASE m.room \notin Rooms
    <3>1. Transmit(s, Ack("FAILURE"), {}, ntf)
      BY <1>9, <2>3 DEF LeaveRoom
    <3> HIDE DEF ntf, Ack
    <3> QED
      BY <1>9, <2>1, <3>1, RoomCost
  <2> QED
    BY <2>2, <2>3
<1>10. ASSUME NEW s \in Sockets, ChatInRoom(s), wsa' < 2 PROVE Cost
  <2> DEFINE m == Head(Incoming(s))
             ntf == [type |-> "CHAT_IN_ROOM_NTF", room |-> m.room, name |-> m.name]
             Ack(status) == ChatAck(status, m.room, m.name)
  <2>1. Receive(s, RoomTypes)
    BY <1>6, <1>10 DEF ChatInRoom, RoomTypes
  <2>2. CASE m.room \in Rooms
    <3>1. Transmit(s, Ack("SUCCESS"), Reachable(rooms[m.room]), ntf)
      BY <1>10, <2>2 DEF ChatInRoom
    <3> HIDE DEF ntf, Ack
    <3> QED
      BY <1>7, <1>10, <2>1, <2>2, <3>1, RoomCost
  <2>3. CASE m.room \notin Rooms
    <3>1. Transmit(s, Ack("FAILURE"), {}, ntf)
      BY <1>10, <2>3 DEF ChatInRoom
    <3> HIDE DEF ntf, Ack
    <3> QED
      BY <1>10, <2>1, <3>1, RoomCost
  <2> QED
    BY <2>2, <2>3
<1>11. ASSUME NEW s \in Sockets, Serve(s) PROVE OnlyRequestersCost'
  <2>1. CASE Disconnect(s)
    BY <1>2, <2>1 DEF Disconnect, CloseSocket
  <2> QED
    BY <1>1, <1>3, <1>4, <1>5, <1>8, <1>9, <1>10, <1>11, <2>1 DEF Serve
<1> QED
  BY <1>2, <1>11 DEF Next, vars, Accept, LoopEnds, Connect, CloseClient, SendAccountReq,
     SendRoomReq, AuthAnswers, AuthDown

\* How the connections change.
LEMMA PeersChange ==
    ASSUME [Next]_vars
    PROVE  \/ UNCHANGED peer
           \/ \E s \in Sockets, c \in Clients :
                 peer[s] = NoPeer /\ peer' = [peer EXCEPT ![s] = c]
           \/ \E s \in Sockets :
                 ~Alive(peer[s]) /\ peer' = [peer EXCEPT ![s] = NoPeer]
<1> USE DEF serverVars, netVars, clientVars, authVars
<1>1. ASSUME NEW c \in Clients, Accept(c)
      PROVE  \E s \in Sockets : peer[s] = NoPeer /\ peer' = [peer EXCEPT ![s] = c]
  BY <1>1 DEF Accept, FreeHandles
<1>2. ASSUME NEW s \in Sockets, Disconnect(s)
      PROVE  ~Alive(peer[s]) /\ peer' = [peer EXCEPT ![s] = NoPeer]
  BY <1>2 DEF Disconnect, RecvFailed, CloseSocket
<1> QED
  <2>1. ASSUME NEW s \in Sockets, Serve(s) PROVE UNCHANGED peer \/ Disconnect(s)
    BY <2>1 DEF Serve, AccountReq, WebAckFrom, JoinRoom, LeaveRoom, ChatInRoom
  <2>2. \/ UNCHANGED peer
        \/ \E s \in Sockets : Disconnect(s)
        \/ \E c \in Clients : Accept(c)
    BY <2>1 DEF Next, vars, LoopEnds, Connect, CloseClient, SendAccountReq, SendRoomReq,
       AuthAnswers, AuthDown
  <2> QED
    BY <1>1, <1>2, <2>2

\* A socket that is used for a client stays so.
LEMMA UseStays ==
    ASSUME TypeOK, Identities, [Next]_vars, NEW s \in Sockets, NEW c \in Clients, UsedFor(s, c)
    PROVE  UsedAfter(s, c)
<1>1. sent'[c] > 0 /\ (conn[c] = "closed" => conn'[c] = "closed")
  BY History DEF UsedFor, UsedAfter
<1>2. peer[s] = c /\ peer'[s] # c => ~Alive(c)
  BY PeersChange, ClientAssumption DEF TypeOK
<1>3. peer[s] = c /\ peer'[s] # c => conn[c] = "closed"
  BY <1>2, GoneIsClosed
<1> QED
  BY <1>1, <1>3 DEF UsedFor, UsedAfter

\* A step that adds no packet keeps the users of the packets.
LEMMA TakingKeepsUsers ==
    ASSUME AnswerInv, SocketsHaveUsers, [Next]_vars,
           \A c \in Clients : Range(toServer'[c]) \subseteq Range(toServer[c]),
           Pending' \subseteq Pending
    PROVE  PacketsHaveUsers'
<1>1. TypeOK /\ Identities
  BY DEF AnswerInv
<1>2. \A c \in Clients : Range(toServer'[c]) # {} => sent'[c] > 0
  BY <1>1, History DEF SocketsHaveUsers, PacketsHaveUsers
<1>3. \A w \in Pending : UsedAfter(w.requestId, w.from)
  BY <1>1, PendingTypes, UseStays DEF SocketsHaveUsers, PacketsHaveUsers
<1> QED
  BY <1>2, <1>3 DEF PacketsHaveUsers, UsedFor, UsedAfter

\* The packets on their way come from clients that have sent requests.
LEMMA PacketsStep ==
    ASSUME AnswerInv, SocketsHaveUsers, [Next]_vars
    PROVE  PacketsHaveUsers'
<1> USE DEF serverVars, netVars, clientVars, authVars
<1>0. TypeOK /\ Identities /\ PacketsHaveUsers
  BY DEF AnswerInv, SocketsHaveUsers
<1>a. \A w \in Pending : UsedAfter(w.requestId, w.from)
  BY <1>0, PendingTypes, UseStays DEF PacketsHaveUsers
<1>b. \A c \in Clients : Range(toServer[c]) # {} => sent'[c] > 0
  BY <1>0, History DEF PacketsHaveUsers
<1>1. ASSUME NEW s \in Sockets, AccountReq(s) PROVE PacketsHaveUsers'
  <2> DEFINE m == Head(Incoming(s))
             web == [type |-> WebRequestType[m.type], requestId |-> s, name |-> m.name,
                     from |-> peer[s]]
  <2>1. Receive(s, AccountTypes)
    BY <1>1 DEF AccountReq
  <2>2. /\ peer[s] \in Clients /\ m \in Request /\ m.type \in AccountTypes
        /\ \A c \in Clients : Range(toServer'[c]) \subseteq Range(toServer[c])
        /\ Range(fromAuth') \subseteq Range(fromAuth)
        /\ Range(toServer[peer[s]]) # {}
    BY <1>0, <2>1, ReceiveEffect, SenderOf
  <2>3. web \in WebRequest
    BY <1>0, <2>2, AccountMessage DEF AccountRequest, WebRequest
  <2>4. Range(Append(toAuth, web)) = Range(toAuth) \cup {web}
    BY <1>0, <2>3, AppendToQueue DEF TypeOK
  <2>5. Range(toAuth') \subseteq Range(toAuth) \cup {web}
    BY <1>1, <2>4 DEF AccountReq
  <2>6. UNCHANGED <<peer, conn, sent>>
    BY <1>1 DEF AccountReq
  <2>7. web.requestId = s /\ web.from = peer[s]
    OBVIOUS
  <2>8. UsedAfter(s, peer[s])
    BY <1>0, <2>2, <2>6 DEF UsedFor, UsedAfter, PacketsHaveUsers
  <2> HIDE DEF m, web
  <2>9. Pending' \subseteq Pending \cup {web}
    BY <2>2, <2>5 DEF Pending
  <2>10. UsedAfter(web.requestId, web.from)
    BY <2>6, <2>7, <2>8 DEF UsedFor, UsedAfter
  <2>11. \A w \in Pending' : UsedAfter(w.requestId, w.from)
    BY <1>a, <2>9, <2>10
  <2> QED
    BY <1>b, <2>2, <2>11 DEF PacketsHaveUsers, UsedFor, UsedAfter
<1>2. ASSUME NEW s \in Sockets, NEW types, Receive(s, types), UNCHANGED toAuth
      PROVE  PacketsHaveUsers'
  <2>1. /\ \A c \in Clients : Range(toServer'[c]) \subseteq Range(toServer[c])
        /\ Range(fromAuth') \subseteq Range(fromAuth)
    BY <1>0, <1>2, ReceiveEffect
  <2>2. Pending' \subseteq Pending
    BY <1>2, <2>1 DEF Pending
  <2> QED
    BY <2>1, <2>2, TakingKeepsUsers
<1>3. ASSUME NEW s \in Sockets, Disconnect(s) PROVE PacketsHaveUsers'
  <2>1. \/ fromAuth' = <<>> /\ toServer' = toServer
        \/ toServer' = [toServer EXCEPT ![peer[s]] = <<>>] /\ fromAuth' = fromAuth
    BY <1>3 DEF Disconnect
  <2>2. \A c \in Clients : toServer'[c] = <<>> \/ toServer'[c] = toServer[c]
    BY <1>0, <2>1 DEF TypeOK
  <2>3. /\ \A c \in Clients : Range(toServer'[c]) \subseteq Range(toServer[c])
        /\ Range(fromAuth') \subseteq Range(fromAuth)
    BY <2>1, <2>2, EmptyQueue
  <2>4. Pending' \subseteq Pending
    BY <1>3, <2>3 DEF Disconnect, Pending
  <2> QED
    BY <2>3, <2>4, TakingKeepsUsers
<1>4. ASSUME NEW c \in Clients, NEW m,
             toServer' = [toServer EXCEPT ![c] = Append(@, m)],
             sent' = [sent EXCEPT ![c] = @ + 1], UNCHANGED <<toAuth, fromAuth>>
      PROVE  PacketsHaveUsers'
  <2>1. sent'[c] > 0
    BY <1>0, <1>4, SocketAssumption DEF TypeOK
  <2>2. \A d \in Clients : d = c \/ toServer'[d] = toServer[d]
    BY <1>0, <1>4 DEF TypeOK
  <2>3. \A d \in Clients : Range(toServer'[d]) # {} => sent'[d] > 0
    BY <1>b, <2>1, <2>2
  <2>4. Pending' = Pending
    BY <1>4 DEF Pending
  <2> QED
    BY <1>a, <2>3, <2>4 DEF PacketsHaveUsers, UsedFor, UsedAfter
<1>5. CASE AuthAnswers
  <2> DEFINE req == Head(toAuth)
  <2>1. PICK n \in 1..MaxBurst : toAuth' = SubSeq(toAuth, n + 1, Len(toAuth))
    BY <1>5 DEF AuthAnswers
  <2>2. n \in Nat /\ n >= 1
    BY SocketAssumption
  <2>3. Range(toAuth') \subseteq Range(toAuth)
    BY <1>0, <2>1, <2>2, SuffixOfQueue DEF TypeOK
  <2>4. req \in WebRequest /\ req \in Range(toAuth)
    BY <1>0, <1>5, HeadOfQueue DEF AuthAnswers, TypeOK
  <2>5. PICK t \in WebAckTypes :
           fromAuth' = IF peer[AuthHandle] = AuthPeer
                       THEN Append(fromAuth, [type |-> t, requestId |-> req.requestId,
                                              from |-> req.from])
                       ELSE fromAuth
    BY <1>5 DEF AuthAnswers, WebAckTypes
  <2> DEFINE ack == [type |-> t, requestId |-> req.requestId, from |-> req.from]
  <2>6. ack \in WebAck
    BY <2>4 DEF WebAck, WebRequest
  <2>7. Range(Append(fromAuth, ack)) = Range(fromAuth) \cup {ack}
    BY <1>0, <2>6, AppendToQueue DEF TypeOK
  <2>8. Range(fromAuth') \subseteq Range(fromAuth) \cup {ack}
    BY <2>5, <2>7
  <2>9. req.requestId = ack.requestId /\ req.from = ack.from
    OBVIOUS
  <2> HIDE DEF ack, req
  <2>10. Pending' \subseteq Pending \cup {ack} /\ req \in Pending
    BY <2>3, <2>4, <2>8 DEF Pending
  <2>11. UNCHANGED <<peer, conn, sent, toServer>>
    BY <1>5 DEF AuthAnswers
  <2>12. UsedAfter(ack.requestId, ack.from)
    BY <1>0, <2>9, <2>10, <2>11 DEF UsedFor, UsedAfter, PacketsHaveUsers
  <2>13. \A w \in Pending' : UsedAfter(w.requestId, w.from)
    BY <1>a, <2>10, <2>12
  <2> QED
    BY <1>b, <2>11, <2>13 DEF PacketsHaveUsers, UsedFor, UsedAfter
<1>6. CASE AuthDown
  <2>1. UNCHANGED toServer /\ Pending' \subseteq Pending
    BY <1>6, EmptyQueue DEF AuthDown, Pending
  <2> QED
    BY <2>1, TakingKeepsUsers
<1>7. CASE UNCHANGED <<toServer, toAuth, fromAuth>>
  BY <1>7, TakingKeepsUsers DEF Pending
<1>8. ASSUME NEW s \in Sockets, Serve(s) PROVE PacketsHaveUsers'
  BY <1>1, <1>2, <1>3, <1>8 DEF Serve, WebAckFrom, JoinRoom, LeaveRoom, ChatInRoom
<1>9. ASSUME NEW c \in Clients, NEW t, SendAccountReq(c, t) PROVE PacketsHaveUsers'
  BY <1>4, <1>9 DEF SendAccountReq
<1>10. ASSUME NEW c \in Clients, NEW t, NEW r, SendRoomReq(c, t, r) PROVE PacketsHaveUsers'
  BY <1>4, <1>10 DEF SendRoomReq
<1> QED
  BY <1>5, <1>6, <1>7, <1>8, <1>9, <1>10 DEF Next, vars, Accept, Connect, CloseClient, LoopEnds

\* The sockets that are used for clients stay so.
LEMMA UsersStep ==
    ASSUME AnswerInv, SocketsHaveUsers, [Next]_vars
    PROVE  SocketsHaveUsers'
<1> USE DEF serverVars, netVars, clientVars, authVars
<1>0. TypeOK /\ Identities
  BY DEF AnswerInv
<1>1. peer'[AuthHandle] # AuthPeer => ~authUp'
  <2>1. NoPeer # AuthPeer /\ AuthHandle \in Sockets
    BY ClientAssumption, SocketAssumption
  <2>2. peer[AuthHandle] = AuthPeer /\ peer'[AuthHandle] # AuthPeer => ~authUp
    BY <1>0, <2>1, PeersChange DEF TypeOK, Alive
  <2> QED
    BY <1>0, <2>2, History DEF SocketsHaveUsers
<1>2. ASSUME NEW n \in Names, name2socket'[n] # NoSocket
      PROVE  \E c \in Clients : UsedAfter(name2socket'[n], c)
  <2>1. CASE name2socket'[n] = name2socket[n]
    <3>1. name2socket[n] \in Sockets
      BY <1>0, <1>2, <2>1 DEF TypeOK
    <3>2. PICK c \in Clients : UsedFor(name2socket[n], c)
      BY <1>2, <2>1 DEF SocketsHaveUsers
    <3>3. UsedAfter(name2socket[n], c)
      BY <1>0, <3>1, <3>2, UseStays
    <3> QED
      BY <2>1, <3>3 DEF UsedFor, UsedAfter
  <2>2. ASSUME NEW s \in Sockets, AccountReq(s), name2socket'[n] # name2socket[n]
        PROVE  \E c \in Clients : UsedAfter(name2socket'[n], c)
    <3>1. /\ peer[s] \in Clients
          /\ name2socket' = [name2socket EXCEPT ![NameOf[peer[s]]] = s]
          /\ UNCHANGED <<peer, conn, sent>>
      BY <2>2, AccountReqNames
    <3>2. Receive(s, AccountTypes)
      BY <2>2 DEF AccountReq
    <3>3. Range(toServer[peer[s]]) # {}
      BY <1>0, <3>2, SenderOf
    <3>4. sent[peer[s]] > 0
      BY <3>1, <3>3 DEF SocketsHaveUsers, PacketsHaveUsers
    <3>5. name2socket'[n] = s
      BY <1>0, <2>2, <3>1 DEF TypeOK
    <3> QED
      BY <3>1, <3>4, <3>5 DEF UsedFor, UsedAfter
  <2>3. UNCHANGED name2socket \/ \E s \in Sockets : AccountReq(s)
    BY DEF Next, Serve, vars, WebAckFrom, JoinRoom, LeaveRoom, ChatInRoom, Accept, Disconnect,
       LoopEnds, Connect, CloseClient, SendAccountReq, SendRoomReq, AuthAnswers, AuthDown
  <2>4. CASE UNCHANGED name2socket
    BY <2>1, <2>4
  <2>5. ASSUME NEW s \in Sockets, AccountReq(s)
        PROVE  \E c \in Clients : UsedAfter(name2socket'[n], c)
    BY <2>1, <2>2, <2>5
  <2> QED
    BY <2>3, <2>4, <2>5
<1> QED
  BY <1>1, <1>2, PacketsStep DEF SocketsHaveUsers, UsedFor, UsedAfter

\* Winsock is cleaned up early only after the AuthServer or a client that had sent some
\* request has left: a client that just comes and goes costs the others nothing.
THEOREM OnlyRequestersCostTheServer == Spec => []OnlyRequestersCost
<1>1. Init => CostInv
  <2> SUFFICES ASSUME Init PROVE CostInv
    OBVIOUS
  <2>1. Pending = {} /\ \A c \in Clients : Range(toServer[c]) = {}
    BY EmptyQueue DEF Init, Pending
  <2>2. AuthHandle \in Sockets
    BY SocketAssumption
  <2> QED
    BY <2>1, <2>2 DEF Init, CostInv, SocketsHaveUsers, PacketsHaveUsers, OnlyRequestersCost
<1>2. AnswerInv /\ CostInv /\ [Next]_vars => CostInv'
  BY CostStep, UsersStep DEF CostInv
<1>3. CostInv => OnlyRequestersCost
  BY DEF CostInv
<1> QED
  BY <1>1, <1>2, <1>3, AnswerInvariance, PTL DEF Spec
-----------------------------------------------------------------------------
(***************************************************************************)
(* Who a broadcast reaches.                                                *)
(***************************************************************************)
\* The socket a name is looked up under was given to a client once, and only to a client
\* of that name.
EntriesAreOwn ==
    \A n \in Names :
        name2socket[n] # NoSocket =>
            /\ clients[name2socket[n]] # "none"
            /\ peer[name2socket[n]] \in Clients => NameOf[peer[name2socket[n]]] = n

\* A sequence of copies of ntf after at most one msg contains nothing else, and no copy if
\* there are none to make.
LEMMA CopiesAfter ==
    ASSUME NEW msg, NEW ntf, NEW k \in Nat, NEW first \in {<<msg>>, <<>>},
           NEW m \in Range(first \o [i \in 1..k |-> ntf])
    PROVE  m = msg \/ (m = ntf /\ k > 0)
<1> DEFINE S == {msg, ntf}
           copies == [i \in 1..k |-> ntf]
<1>1. first \in Seq(S) /\ copies \in Seq(S)
  <2>1. copies \in Seq(S)
    OBVIOUS
  <2>2. <<msg>> \in Seq(S) /\ <<>> \in Seq(S)
    OBVIOUS
  <2> QED
    BY <2>1, <2>2
<1>2. Len(copies) = k /\ Len(first) \in 0..1
  OBVIOUS
<1>3. PICK i \in DOMAIN (first \o copies) : m = (first \o copies)[i]
  BY DEF Range
<1>4. DOMAIN (first \o copies) = 1..Len(first) + k
  BY <1>1, <1>2
<1>5. CASE i <= Len(first)
  <2>1. m = first[i] /\ Len(first) = 1 /\ i = 1
    BY <1>1, <1>2, <1>3, <1>4, <1>5
  <2> QED
    BY <2>1
<1>6. CASE i > Len(first)
  <2>1. i - Len(first) \in 1..k
    BY <1>2, <1>3, <1>4, <1>6
  <2>2. m = copies[i - Len(first)]
    BY <1>1, <1>2, <1>3, <1>4, <1>6
  <2> QED
    BY <2>1, <2>2
<1> QED
  BY <1>2, <1>3, <1>4, <1>5, <1>6

\* One of the names is looked up to a socket of the client.
FoundUnder(names, c) == \E n \in names : peer[name2socket[n]] = c

\* A client gets the answer, or a notification under a name that is looked up to its socket.
LEMMA TransmitReaches ==
    ASSUME NEW to, NEW msg, NEW names, NEW ntf, NEW c \in Clients, NEW m,
           IsFiniteSet(names), Transmit(to, msg, names, ntf), m \in Range(out'[c])
    PROVE  m = msg \/ (m = ntf /\ FoundUnder(names, c))
<1>1. PICK lost \in BOOLEAN, failed \in SUBSET names, reached \in SUBSET names :
       /\ IF lost THEN ~Alive(peer[to]) ELSE peer[to] # NoPeer
       /\ \A n \in failed : ~Alive(peer[name2socket[n]])
       /\ \A n \in reached : n \notin failed /\ peer[name2socket[n]] # NoPeer
       /\ LET failures == Cardinality(failed) + (IF lost THEN 1 ELSE 0)
          IN  wsa' = AfterCleanups(failures)
       /\ wsa' > 0 => names = failed \cup reached
       /\ out' = [d \in Clients |->
                    IF ~Alive(d) THEN <<>>
                    ELSE (IF ~lost /\ peer[to] = d THEN <<msg>> ELSE <<>>)
                         \o [i \in 1..Cardinality({n \in reached : peer[name2socket[n]] = d})
                               |-> ntf]]
  BY DEF Transmit
<1> DEFINE mine == {n \in reached : peer[name2socket[n]] = c}
           first == IF ~lost /\ peer[to] = c THEN <<msg>> ELSE <<>>
<1>2. out'[c] = IF ~Alive(c) THEN <<>>
                ELSE first \o [i \in 1..Cardinality(mine) |-> ntf]
  BY <1>1
<1>3. Alive(c)
  BY <1>2, EmptyQueue
<1>4. IsFiniteSet(mine) /\ Cardinality(mine) \in Nat
  BY FS_Subset, FS_CardinalityType
<1>5. m \in Range(first \o [i \in 1..Cardinality(mine) |-> ntf])
  BY <1>2, <1>3
<1>6. first \in {<<msg>>, <<>>}
  OBVIOUS
<1>7. m = msg \/ (m = ntf /\ Cardinality(mine) > 0)
  <2> HIDE DEF mine, first
  <2> QED
    BY <1>4, <1>5, <1>6, CopiesAfter
<1>8. Cardinality(mine) > 0 => mine # {}
  BY FS_EmptySet
<1> QED
  BY <1>7, <1>8 DEF FoundUnder

\* The notifications of a handler that looks up members of the room only.
LEMMA BroadcastReaches ==
    ASSUME EntriesAreOwn, NEW to, NEW msg, NEW ntf,
           NEW users \in SUBSET Names, Transmit(to, msg, Reachable(users), ntf),
           msg.type \notin {"JOIN_ROOM_NTF", "LEAVE_ROOM_NTF", "CHAT_IN_ROOM_NTF"},
           users \subseteq rooms'[ntf.room]
    PROVE  NotificationsReachMembers'
<1> SUFFICES ASSUME NEW c \in Clients, NEW m \in Range(out'[c]),
                    m.type \in {"JOIN_ROOM_NTF", "LEAVE_ROOM_NTF", "CHAT_IN_ROOM_NTF"}
             PROVE  NameOf[c] \in rooms'[m.room]
  BY DEF NotificationsReachMembers
<1>1. IsFiniteSet(Reachable(users))
  <2>1. Reachable(users) \subseteq Names
    BY DEF Reachable
  <2> QED
    BY <2>1, ClientAssumption, FS_Subset
<1>2. m = msg \/ (m = ntf /\ FoundUnder(Reachable(users), c))
  BY <1>1, TransmitReaches
<1>3. PICK n \in Reachable(users) : m = ntf /\ peer[name2socket[n]] = c
  BY <1>2 DEF FoundUnder
<1>4. n \in Names /\ n \in users /\ name2socket[n] # NoSocket
  BY <1>3 DEF Reachable
<1>5. NameOf[c] = n
  BY <1>3, <1>4 DEF EntriesAreOwn
<1> QED
  BY <1>3, <1>4, <1>5

\* An answer alone, with no broadcast.
LEMMA AnswerAlone ==
    ASSUME NEW to, NEW msg, NEW ntf, Transmit(to, msg, {}, ntf),
           msg.type \notin {"JOIN_ROOM_NTF", "LEAVE_ROOM_NTF", "CHAT_IN_ROOM_NTF"}
    PROVE  NotificationsReachMembers'
<1>1. IsFiniteSet({})
  BY FS_EmptySet
<1>2. ASSUME NEW c \in Clients, NEW m \in Range(out'[c])
      PROVE  m = msg
  <2>1. m = msg \/ (m = ntf /\ FoundUnder({}, c))
    BY <1>1, TransmitReaches
  <2> QED
    BY <2>1 DEF FoundUnder
<1> QED
  BY <1>2 DEF NotificationsReachMembers

\* A step that sends nothing.
LEMMA NothingSent == out' = Silent => NotificationsReachMembers'
BY EmptyQueue DEF Silent, NotificationsReachMembers

\* A name is entered with the socket its request came on, and a socket that was used is
\* given to nobody else.
LEMMA EntriesStep ==
    ASSUME ~ReuseHandles, AnswerInv, ClientsMapIsCurrent, EntriesAreOwn, [Next]_vars
    PROVE  EntriesAreOwn'
<1> USE DEF serverVars, netVars, clientVars, authVars
<1>1. TypeOK /\ NoPeer \notin Clients /\ AuthPeer \notin Clients
  BY ClientAssumption DEF AnswerInv
<1>2. ASSUME NEW s \in Sockets, AccountReq(s) PROVE EntriesAreOwn'
  <2>1. /\ peer[s] \in Clients /\ NameOf[peer[s]] \in Names
        /\ name2socket' = [name2socket EXCEPT ![NameOf[peer[s]]] = s]
        /\ UNCHANGED <<clients, peer>>
    BY <1>2, AccountReqNames
  <2>2. clients[s] = "connected"
    BY <2>1 DEF ClientsMapIsCurrent
  <2> QED
    BY <1>1, <2>1, <2>2 DEF EntriesAreOwn, TypeOK
<1>3. ASSUME NEW c \in Clients, Accept(c) PROVE EntriesAreOwn'
  <2>1. PICK s \in Sockets :
           /\ clients[s] = "none"
           /\ peer' = [peer EXCEPT ![s] = c]
           /\ clients' = [clients EXCEPT ![s] = "connected"]
    BY <1>3 DEF Accept, FreeHandles
  <2>2. UNCHANGED name2socket
    BY <1>3 DEF Accept
  <2> QED
    BY <1>1, <2>1, <2>2 DEF EntriesAreOwn, TypeOK
<1>4. ASSUME NEW s \in Sockets, Disconnect(s) PROVE EntriesAreOwn'
  <2>1. /\ peer' = [peer EXCEPT ![s] = NoPeer]
        /\ clients' = IF clients[s] = "none" THEN clients
                      ELSE [clients EXCEPT ![s] = "disconnected"]
        /\ UNCHANGED name2socket
    BY <1>4 DEF Disconnect, RecvFailed, MarkDisconnected, CloseSocket
  <2> QED
    BY <1>1, <2>1 DEF EntriesAreOwn, TypeOK
<1>5. CASE UNCHANGED <<peer, clients, name2socket>>
  BY <1>5 DEF EntriesAreOwn
<1> QED
  BY <1>2, <1>3, <1>4, <1>5 DEF Next, Serve, vars, WebAckFrom, JoinRoom, LeaveRoom,
     ChatInRoom, LoopEnds, Connect, CloseClient, SendAccountReq, SendRoomReq, AuthAnswers,
     AuthDown

\* What each handler sends.
LEMMA NotificationsStep ==
    ASSUME AnswerInv, EntriesAreOwn, NotificationsReachMembers, [Next]_vars
    PROVE  NotificationsReachMembers'
<1> USE DEF serverVars, netVars, clientVars, authVars
<1>1. TypeOK
  BY DEF AnswerInv
<1>2. ASSUME NEW s \in Sockets, AccountReq(s) PROVE NotificationsReachMembers'
  <2> DEFINE m == Head(Incoming(s))
             web == [type |-> WebRequestType[m.type], requestId |-> s, name |-> m.name,
                     from |-> peer[s]]
  <2>1. Receive(s, AccountTypes) /\ Transmit(AuthHandle, web, {}, web)
    BY <1>2 DEF AccountReq, Remember
  <2>2. WebRequestType[m.type] \in {"CREATE_ACCOUNT_WEB_REQ", "AUTHENTICATE_ACCOUNT_WEB_REQ"}
    BY <1>1, <2>1, ReceiveEffect, SenderOf, AccountMessage
  <2>3. web.type = WebRequestType[m.type]
    OBVIOUS
  <2> HIDE DEF m, web
  <2> QED
    BY <2>1, <2>2, <2>3, AnswerAlone
<1>3. ASSUME NEW s \in Sockets, WebAckFrom(s) PROVE NotificationsReachMembers'
  <2> DEFINE m == Head(Incoming(s))
             ack == [type |-> WebAnswer[m.type].ack, name |-> socket2name[m.requestId]]
  <2>1. Receive(s, WebAckTypes)
    BY <1>3 DEF WebAckFrom
  <2>2. m.type \in WebAckTypes
    BY <1>1, <2>1, ReceiveEffect
  <2>3. WebAnswer[m.type].ack \notin {"JOIN_ROOM_NTF", "LEAVE_ROOM_NTF", "CHAT_IN_ROOM_NTF"}
    BY <2>2 DEF WebAckTypes, WebAnswer
  <2>4. out' = Silent \/ Transmit(m.requestId, ack, {}, ack)
    BY <1>3 DEF WebAckFrom
  <2>5. ack.type = WebAnswer[m.type].ack
    OBVIOUS
  <2> HIDE DEF m, ack
  <2> QED
    BY <2>3, <2>4, <2>5, AnswerAlone, NothingSent
<1>4. ASSUME NEW s \in Sockets, Receive(s, RoomTypes)
      PROVE  /\ Head(Incoming(s)).name \in Names
             /\ rooms \in [Rooms -> SUBSET Names]
  <2>1. RoomTypes \subseteq AccountTypes \cup RoomTypes
    OBVIOUS
  <2>2. Head(Incoming(s)) \in RoomRequest
    BY <1>1, <1>4, <2>1, ReceiveEffect, SenderOf, RoomMessage
  <2> QED
    BY <1>1, <2>2 DEF RoomRequest, TypeOK
<1>5. ASSUME NEW s \in Sockets, JoinRoom(s) PROVE NotificationsReachMembers'
  <2> DEFINE m == Head(Incoming(s))
             ntf == [type |-> "JOIN_ROOM_NTF", room |-> m.room, name |-> m.name]
             Ack(status, users) ==
               [type |-> "JOIN_ROOM_ACK", status |-> status, room |-> m.room, users |-> users]
             joined == rooms[m.room] \cup {m.name}
  <2>1. Receive(s, {"JOIN_ROOM_REQ"})
    BY <1>5 DEF JoinRoom
  <2>2. Receive(s, RoomTypes)
    BY <2>1 DEF Receive, RoomTypes
  <2>3. m.name \in Names /\ rooms \in [Rooms -> SUBSET Names]
    BY <1>4, <2>2
  <2>4. CASE m.room \in Rooms
    <3>1. /\ rooms' = [rooms EXCEPT ![m.room] = joined]
          /\ Transmit(s, Ack("SUCCESS", joined), Reachable(joined \ {m.name}), ntf)
      BY <1>5, <2>4 DEF JoinRoom
    <3>2. joined \ {m.name} \in SUBSET Names
      BY <2>3, <2>4
    <3>3. joined \ {m.name} \subseteq rooms'[ntf.room]
      BY <2>3, <2>4, <3>1
    <3>4. Ack("SUCCESS", joined).type \notin {"JOIN_ROOM_NTF", "LEAVE_ROOM_NTF", "CHAT_IN_ROOM_NTF"}
      OBVIOUS
    <3> QED
      BY <3>1, <3>2, <3>3, <3>4, BroadcastReaches
  <2>5. CASE m.room \notin Rooms
    <3>1. Transmit(s, Ack("FAILURE", {}), {}, ntf)
      BY <1>5, <2>5 DEF JoinRoom
    <3> QED
      BY <3>1, AnswerAlone
  <2> QED
    BY <2>4, <2>5
<1>6. ASSUME NEW s \in Sockets, LeaveRoom(s) PROVE NotificationsReachMembers'
  <2> DEFINE m == Head(Incoming(s))
             ntf == [type |-> "LEAVE_ROOM_NTF", room |-> m.room, name |-> m.name]
             Ack(status) ==
               [type |-> "LEAVE_ROOM_ACK", status |-> status, room |-> m.room, name |-> m.name]
             left == rooms[m.room] \ {m.name}
  <2>1. Receive(s, {"LEAVE_ROOM_REQ"})
    BY <1>6 DEF LeaveRoom
  <2>2. Receive(s, RoomTypes)
    BY <2>1 DEF Receive, RoomTypes
  <2>3. m.name \in Names /\ rooms \in [Rooms -> SUBSET Names]
    BY <1>4, <2>2
  <2>4. CASE m.room \in Rooms
    <3>1. /\ rooms' = [rooms EXCEPT ![m.room] = left]
          /\ Transmit(s, Ack("SUCCESS"), Reachable(left), ntf)
      BY <1>6, <2>4 DEF LeaveRoom
    <3>2. left \in SUBSET Names
      BY <2>3, <2>4
    <3>3. left \subseteq rooms'[ntf.room]
      BY <2>3, <2>4, <3>1
    <3> QED
      BY <3>1, <3>2, <3>3, BroadcastReaches
  <2>5. CASE m.room \notin Rooms
    <3>1. Transmit(s, Ack("FAILURE"), {}, ntf)
      BY <1>6, <2>5 DEF LeaveRoom
    <3> QED
      BY <3>1, AnswerAlone
  <2> QED
    BY <2>4, <2>5
<1>7. ASSUME NEW s \in Sockets, ChatInRoom(s) PROVE NotificationsReachMembers'
  <2> DEFINE m == Head(Incoming(s))
             ntf == [type |-> "CHAT_IN_ROOM_NTF", room |-> m.room, name |-> m.name]
             Ack(status) == ChatAck(status, m.room, m.name)
  <2>1. Receive(s, {"CHAT_IN_ROOM_REQ"}) /\ UNCHANGED rooms
    BY <1>7 DEF ChatInRoom
  <2>2. Receive(s, RoomTypes)
    BY <2>1 DEF Receive, RoomTypes
  <2>3. rooms \in [Rooms -> SUBSET Names]
    BY <1>4, <2>2
  <2>4. \A status : Ack(status).type = "CHAT_IN_ROOM_ACK"
    BY DEF ChatAck
  <2>5. CASE m.room \in Rooms
    <3>1. Transmit(s, Ack("SUCCESS"), Reachable(rooms[m.room]), ntf)
      BY <1>7, <2>5 DEF ChatInRoom
    <3>2. rooms[m.room] \in SUBSET Names /\ rooms[m.room] \subseteq rooms'[ntf.room]
      BY <2>1, <2>3, <2>5
    <3> QED
      BY <2>4, <3>1, <3>2, BroadcastReaches
  <2>6. CASE m.room \notin Rooms
    <3>1. Transmit(s, Ack("FAILURE"), {}, ntf)
      BY <1>7, <2>6 DEF ChatInRoom
    <3> QED
      BY <2>4, <3>1, AnswerAlone
  <2> QED
    BY <2>5, <2>6
<1>8. CASE UNCHANGED <<out, rooms>>
  BY <1>8 DEF NotificationsReachMembers
<1> QED
  BY <1>2, <1>3, <1>5, <1>6, <1>7, <1>8, NothingSent DEF Next, Serve, vars, Accept, Disconnect,
     LoopEnds, Connect, CloseClient, SendAccountReq, SendRoomReq, AuthAnswers, AuthDown

\* Notifications of a room go to its members only, unless the value of a closed socket is
\* handed out again while a name is still looked up under it.
THEOREM BroadcastsStayInTheRoom == ASSUME ~ReuseHandles PROVE Spec => []NotificationsReachMembers
<1>1. Init => EntriesAreOwn /\ NotificationsReachMembers
  <2>1. ASSUME Init PROVE NotificationsReachMembers
    BY <2>1, EmptyQueue DEF Init, Silent, NotificationsReachMembers
  <2>2. Init => EntriesAreOwn
    BY DEF Init, EntriesAreOwn
  <2> QED
    BY <2>1, <2>2
<1>2. AnswerInv /\ ClientsMapIsCurrent /\ EntriesAreOwn /\ NotificationsReachMembers /\ [Next]_vars
          => EntriesAreOwn' /\ NotificationsReachMembers'
  BY EntriesStep, NotificationsStep
<1> QED
  BY <1>1, <1>2, AnswerInvariance, ClientsMapIsRight, PTL DEF Spec
-----------------------------------------------------------------------------
(***************************************************************************)
(* How many answers a request gets.                                        *)
(***************************************************************************)
\* The number of elements of a queue that are in S.
HitsAt(q, S) == {i \in DOMAIN q : q[i] \in S}
Hits(q, S) == Cardinality(HitsAt(q, S))

\* A queue is finite, and so are the places of S in it.
LEMMA HitsType ==
    ASSUME NEW A, NEW q \in Seq(A), NEW S
    PROVE  IsFiniteSet(HitsAt(q, S)) /\ Hits(q, S) \in Nat
<1>1. DOMAIN q = 1..Len(q) /\ Len(q) \in Nat
  BY LenProperties
<1>2. IsFiniteSet(1..Len(q))
  BY <1>1, FS_Interval
<1>3. HitsAt(q, S) \in SUBSET (1..Len(q))
  BY <1>1 DEF HitsAt
<1>4. IsFiniteSet(HitsAt(q, S))
  BY <1>2, <1>3, FS_Subset
<1> QED
  BY <1>4, FS_CardinalityType DEF Hits

\* An empty queue has none.
LEMMA HitsEmpty == \A S : Hits(<<>>, S) = 0
<1>1. \A S : HitsAt(<<>>, S) = {}
  BY DEF HitsAt
<1> QED
  BY <1>1, FS_EmptySet DEF Hits

\* An element added to a queue adds itself.
LEMMA HitsAppend ==
    ASSUME NEW A, NEW q \in Seq(A), NEW e \in A, NEW S
    PROVE  Hits(Append(q, e), S) <= Hits(q, S) + (IF e \in S THEN 1 ELSE 0)
<1>1. /\ Len(q) \in Nat
      /\ DOMAIN q = 1..Len(q)
      /\ DOMAIN Append(q, e) = 1..Len(q) + 1
      /\ \A i \in 1..Len(q) : Append(q, e)[i] = q[i]
      /\ Append(q, e)[Len(q) + 1] = e
  BY AppendProperties, LenProperties
<1>2. IsFiniteSet(HitsAt(q, S)) /\ Hits(q, S) \in Nat
  BY HitsType
<1>3. CASE e \in S
  <2>1. HitsAt(Append(q, e), S) = HitsAt(q, S) \cup {Len(q) + 1}
    BY <1>1, <1>3 DEF HitsAt
  <2>2. Len(q) + 1 \notin HitsAt(q, S)
    BY <1>1 DEF HitsAt
  <2>3. Cardinality(HitsAt(q, S) \cup {Len(q) + 1}) = Hits(q, S) + 1
    BY <1>2, <2>2, FS_AddElement DEF Hits
  <2> QED
    BY <1>2, <1>3, <2>1, <2>3 DEF Hits
<1>4. CASE e \notin S
  <2>1. HitsAt(Append(q, e), S) = HitsAt(q, S)
    BY <1>1, <1>4 DEF HitsAt
  <2> QED
    BY <1>2, <1>4, <2>1 DEF Hits
<1> QED
  BY <1>3, <1>4

\* A receive takes at least the head of a queue away.
LEMMA HitsTaken ==
    ASSUME NEW A, NEW q \in Seq(A), NEW S, NEW n \in Nat, n >= 1, q # <<>>
    PROVE  Hits(SubSeq(q, n + 1, Len(q)), S) + (IF Head(q) \in S THEN 1 ELSE 0) <= Hits(q, S)
<1> DEFINE t == SubSeq(q, n + 1, Len(q))
           f == [i \in HitsAt(t, S) |-> n + i]
           rest == HitsAt(q, S) \ {1}
<1>1. Len(q) \in Nat /\ \A i \in 1..Len(q) : q[i] \in A
  BY ElementOfSeq, LenProperties
<1>2. /\ t \in Seq(A)
      /\ Len(t) = IF n + 1 <= Len(q) THEN Len(q) - (n + 1) + 1 ELSE 0
      /\ \A i \in 1..Len(q) - (n + 1) + 1 : t[i] = q[n + 1 + i - 1]
  BY <1>1, SubSeqProperties
<1>3. DOMAIN t = 1..Len(t) /\ DOMAIN q = 1..Len(q)
  BY <1>2, LenProperties
<1>4. Head(q) = q[1] /\ Len(q) >= 1
  BY EmptySeq, LenProperties, HeadTailProperties
<1> HIDE DEF t
<1>5. ASSUME NEW i \in HitsAt(t, S) PROVE n + i \in rest
  <2>1. i \in 1..Len(t) /\ t[i] \in S
    BY <1>3 DEF HitsAt
  <2>2. n + 1 <= Len(q) /\ Len(t) = Len(q) - n
    BY <1>1, <1>2, <2>1
  <2>3. i \in 1..Len(q) - (n + 1) + 1 /\ n + 1 + i - 1 = n + i
    BY <1>1, <2>1, <2>2
  <2>4. t[i] = q[n + i]
    BY <1>2, <2>3
  <2>5. n + i \in 1..Len(q) /\ n + i # 1
    BY <1>1, <2>1, <2>2
  <2> QED
    BY <1>3, <2>1, <2>4, <2>5 DEF HitsAt
<1>6. HitsAt(t, S) \subseteq Nat
  <2>1. Len(t) \in Nat
    BY <1>2, LenProperties
  <2>2. HitsAt(t, S) \subseteq DOMAIN t
    BY DEF HitsAt
  <2> QED
    BY <1>3, <2>1, <2>2
<1>7. IsFiniteSet(HitsAt(q, S)) /\ Hits(q, S) \in Nat
  BY HitsType
<1>8. IsFiniteSet(rest) /\ Cardinality(rest) = IF 1 \in HitsAt(q, S) THEN Hits(q, S) - 1 ELSE Hits(q, S)
  BY <1>7, FS_RemoveElement DEF Hits
<1>9. Hits(t, S) <= Cardinality(rest)
  <2>1. f \in [HitsAt(t, S) -> rest]
    BY <1>5
  <2>2. \A i, j \in HitsAt(t, S) : f[i] = f[j] => i = j
    BY <1>6
  <2>3. f \in Injection(HitsAt(t, S), rest)
    BY <2>1, <2>2 DEF Injection, IsInjective
  <2> HIDE DEF f, rest
  <2> QED
    BY <1>8, <2>3, FS_Injection DEF Hits
<1>10. 1 \in HitsAt(q, S) <=> Head(q) \in S
  BY <1>1, <1>3, <1>4 DEF HitsAt
<1>11. Hits(t, S) \in Nat
  BY <1>2, HitsType
<1> QED
  BY <1>7, <1>8, <1>9, <1>10, <1>11 DEF t

\* The requests of a kind, what the AuthServer is asked for a client and that kind, and
\* the answers to that.
Requests(t) == {m \in AccountRequest : m.type = t}
WebRequestsFor(c, t) == {w \in WebRequest : w.type = WebRequestType[t] /\ w.from = c}
WebAcksFor(c, t) == {w \in WebAck : WebAnswer[w.type].request = t /\ w.from = c}

\* What may still lead to an answer for a client.
Load(c, t) ==
    Hits(toServer[c], Requests(t)) + Hits(toAuth, WebRequestsFor(c, t))
        + Hits(fromAuth, WebAcksFor(c, t))

\* A client is owed at least as many answers as are still to come.
OwedCoversLoad == \A c \in Clients, t \in AccountTypes : Load(c, t) <= owed[c][t]

\* The socket of an answer was given to the client that asked, or has been closed.
PendingAreOwn ==
    \A w \in Pending :
        /\ clients[w.requestId] # "none"
        /\ peer[w.requestId] \in Clients => peer[w.requestId] = w.from

\* The parts of the load are counts.
LEMMA LoadType ==
    ASSUME TypeOK, NEW c \in Clients, NEW t \in AccountTypes
    PROVE  /\ Hits(toServer[c], Requests(t)) \in Nat
           /\ Hits(toAuth, WebRequestsFor(c, t)) \in Nat
           /\ Hits(fromAuth, WebAcksFor(c, t)) \in Nat
           /\ owed[c][t] \in Int
<1>1. /\ toServer[c] \in Seq(Request) /\ toAuth \in Seq(WebRequest)
      /\ fromAuth \in Seq(WebAck) /\ owed[c] \in [AccountTypes -> Int]
  BY DEF TypeOK
<1> QED
  BY <1>1, HitsType

\* A receive leaves less to come, by the message it took at least.
LEMMA ReceiveLoad ==
    ASSUME TypeOK, NEW s \in Sockets, NEW types, Receive(s, types),
           NEW c \in Clients, NEW t \in AccountTypes
    PROVE  /\ Hits(toServer'[c], Requests(t))
                 + (IF peer[s] = c /\ Head(Incoming(s)) \in Requests(t) THEN 1 ELSE 0)
                     <= Hits(toServer[c], Requests(t))
           /\ Hits(fromAuth', WebAcksFor(c, t))
                 + (IF peer[s] = AuthPeer /\ Head(Incoming(s)) \in WebAcksFor(c, t) THEN 1 ELSE 0)
                     <= Hits(fromAuth, WebAcksFor(c, t))
<1>1. PICK n \in 1..MaxBurst :
         IF peer[s] = AuthPeer
         THEN /\ fromAuth' = SubSeq(fromAuth, n + 1, Len(fromAuth))
              /\ UNCHANGED toServer
         ELSE /\ toServer' = [toServer EXCEPT ![peer[s]] = SubSeq(@, n + 1, Len(@))]
              /\ UNCHANGED fromAuth
  BY DEF Receive
<1>2. n \in Nat /\ n >= 1
  BY SocketAssumption
<1>3. peer[s] \in Clients \cup {AuthPeer} /\ Incoming(s) # <<>>
  BY DEF Receive, TypeOK
<1>4. /\ toServer \in [Clients -> Seq(Request)] /\ fromAuth \in Seq(WebAck)
      /\ AuthPeer \notin Clients
  BY ClientAssumption DEF TypeOK
<1>5. /\ Hits(toServer[c], Requests(t)) \in Nat
      /\ Hits(fromAuth, WebAcksFor(c, t)) \in Nat
  BY LoadType
<1>6. CASE peer[s] = AuthPeer
  <2>1. Incoming(s) = fromAuth
    BY <1>6 DEF Incoming
  <2>2. Hits(SubSeq(fromAuth, n + 1, Len(fromAuth)), WebAcksFor(c, t))
          + (IF Head(fromAuth) \in WebAcksFor(c, t) THEN 1 ELSE 0) <= Hits(fromAuth, WebAcksFor(c, t))
    BY <1>2, <1>3, <1>4, <2>1, HitsTaken
  <2>3. fromAuth' = SubSeq(fromAuth, n + 1, Len(fromAuth)) /\ toServer' = toServer
    BY <1>1, <1>6
  <2> QED
    BY <1>4, <1>5, <1>6, <2>1, <2>2, <2>3
<1>7. CASE peer[s] \in Clients
  <2>1. Incoming(s) = toServer[peer[s]] /\ peer[s] # AuthPeer
    BY <1>4, <1>7 DEF Incoming
  <2>2. fromAuth' = fromAuth
    BY <1>1, <2>1
  <2>3. CASE peer[s] = c
    <3>1. toServer'[c] = SubSeq(toServer[c], n + 1, Len(toServer[c]))
      BY <1>1, <1>4, <2>1, <2>3
    <3>2. Hits(SubSeq(toServer[c], n + 1, Len(toServer[c])), Requests(t))
          + (IF Head(toServer[c]) \in Requests(t) THEN 1 ELSE 0) <= Hits(toServer[c], Requests(t))
      BY <1>2, <1>3, <1>4, <2>1, <2>3, HitsTaken
    <3> QED
      BY <1>5, <2>1, <2>2, <2>3, <3>1, <3>2
  <2>4. CASE peer[s] # c
    <3>1. toServer'[c] = toServer[c]
      BY <1>1, <1>4, <2>1, <2>4
    <3> QED
      BY <1>5, <2>1, <2>2, <2>4, <3>1
  <2> QED
    BY <2>3, <2>4
<1> QED
  BY <1>3, <1>6, <1>7

\* Each answer is sent on the socket its request came on.
LEMMA PendingStep ==
    ASSUME ~ReuseHandles, AnswerInv, ClientsMapIsCurrent, PendingAreOwn, [Next]_vars
    PROVE  PendingAreOwn'
<1> USE DEF serverVars, netVars, clientVars, authVars
<1>1. TypeOK /\ NoPeer \notin Clients /\ AuthPeer \notin Clients
  BY ClientAssumption DEF AnswerInv
<1>2. \A w \in Pending : w.requestId \in Sockets /\ w.from \in Clients
  BY <1>1, PendingTypes
<1>3. ASSUME Pending' \subseteq Pending, UNCHANGED <<clients, peer>>
      PROVE  PendingAreOwn'
  BY <1>3 DEF PendingAreOwn
<1>4. ASSUME NEW s \in Sockets, NEW types, Receive(s, types) PROVE Range(fromAuth') \subseteq Range(fromAuth)
  BY <1>1, <1>4, ReceiveEffect
<1>5. ASSUME NEW s \in Sockets, AccountReq(s) PROVE PendingAreOwn'
  <2> DEFINE m == Head(Incoming(s))
             web == [type |-> WebRequestType[m.type], requestId |-> s, name |-> m.name,
                     from |-> peer[s]]
  <2>1. Receive(s, AccountTypes) /\ toAuth' \in {toAuth, Append(toAuth, web)}
    BY <1>5 DEF AccountReq
  <2>2. peer[s] \in Clients /\ UNCHANGED <<clients, peer>>
    BY <1>5, AccountReqNames
  <2>3. clients[s] = "connected"
    BY <2>2 DEF ClientsMapIsCurrent
  <2>4. web \in WebRequest
    <3>1. m \in Request /\ m.type \in AccountTypes
      BY <1>1, <2>1, ReceiveEffect, SenderOf
    <3> QED
      BY <2>2, <3>1, AccountMessage DEF AccountRequest, WebRequest
  <2>5. web.requestId = s /\ web.from = peer[s]
    OBVIOUS
  <2> HIDE DEF web
  <2>6. Range(toAuth') \subseteq Range(toAuth) \cup {web}
    <3>1. toAuth \in Seq(WebRequest)
      BY <1>1 DEF TypeOK
    <3>2. Range(Append(toAuth, web)) = Range(toAuth) \cup {web}
      BY <2>4, <3>1, AppendToQueue
    <3>3. toAuth' = toAuth \/ toAuth' = Append(toAuth, web)
      BY <2>1
    <3> QED
      BY <3>2, <3>3
  <2>7. \A w \in Pending' : w \in Pending \/ w = web
    BY <1>4, <2>1, <2>6 DEF Pending
  <2> QED
    BY <2>2, <2>3, <2>5, <2>7 DEF PendingAreOwn
<1>6. ASSUME NEW s \in Sockets,
             WebAckFrom(s) \/ JoinRoom(s) \/ LeaveRoom(s) \/ ChatInRoom(s)
      PROVE  PendingAreOwn'
  <2>1. \E types : Receive(s, types)
    BY <1>6 DEF WebAckFrom, JoinRoom, LeaveRoom, ChatInRoom
  <2>2. UNCHANGED <<clients, peer, toAuth>>
    BY <1>6 DEF WebAckFrom, JoinRoom, LeaveRoom, ChatInRoom
  <2> QED
    BY <1>3, <1>4, <2>1, <2>2 DEF Pending
<1>7. ASSUME NEW c \in Clients, Accept(c) PROVE PendingAreOwn'
  <2>1. PICK s \in Sockets :
           /\ clients[s] = "none"
           /\ peer' = [peer EXCEPT ![s] = c]
           /\ clients' = [clients EXCEPT ![s] = "connected"]
    BY <1>7 DEF Accept, FreeHandles
  <2>2. Pending' = Pending
    BY <1>7 DEF Accept, Pending
  <2> QED
    BY <1>1, <1>2, <2>1, <2>2 DEF PendingAreOwn, TypeOK
<1>8. ASSUME NEW s \in Sockets, Disconnect(s) PROVE PendingAreOwn'
  <2>1. /\ peer' = [peer EXCEPT ![s] = NoPeer]
        /\ clients' = IF clients[s] = "none" THEN clients
                      ELSE [clients EXCEPT ![s] = "disconnected"]
        /\ fromAuth' \in {fromAuth, <<>>} /\ UNCHANGED toAuth
    BY <1>8 DEF Disconnect, RecvFailed, MarkDisconnected, CloseSocket
  <2>2. Pending' \subseteq Pending
    BY <2>1, EmptyQueue DEF Pending
  <2> QED
    BY <1>1, <1>2, <2>1, <2>2 DEF PendingAreOwn, TypeOK
<1>9. ASSUME AuthAnswers PROVE PendingAreOwn'
  <2>1. /\ UNCHANGED <<clients, peer>>
        /\ toAuth # <<>>
        /\ \E n \in 1..MaxBurst : toAuth' = SubSeq(toAuth, n + 1, Len(toAuth))
    BY <1>9 DEF AuthAnswers
  <2>2. toAuth \in Seq(WebRequest) /\ fromAuth \in Seq(WebAck)
    BY <1>1 DEF TypeOK
  <2>3. Head(toAuth) \in Range(toAuth) /\ Head(toAuth) \in WebRequest
    BY <2>1, <2>2, HeadOfQueue
  <2>4. Range(toAuth') \subseteq Range(toAuth)
    BY <2>1, <2>2, SuffixOfQueue, SocketAssumption
  <2>5. PICK t \in WebAckTypes :
           fromAuth' \in {fromAuth, Append(fromAuth, [type |-> t, requestId |-> Head(toAuth).requestId,
                                                     from |-> Head(toAuth).from])}
    BY <1>9 DEF AuthAnswers, WebAckTypes
  <2> DEFINE ack == [type |-> t, requestId |-> Head(toAuth).requestId, from |-> Head(toAuth).from]
  <2>6. ack \in WebAck
    BY <2>3 DEF WebRequest, WebAck
  <2>7. ack.requestId = Head(toAuth).requestId /\ ack.from = Head(toAuth).from
    OBVIOUS
  <2>8. fromAuth' \in {fromAuth, Append(fromAuth, ack)}
    BY <2>5
  <2> HIDE DEF ack
  <2>9. Range(fromAuth') \subseteq Range(fromAuth) \cup {ack}
    BY <2>2, <2>6, <2>8, AppendToQueue
  <2>10. \A w \in Pending' : w \in Pending \/ w = ack
    BY <2>4, <2>9 DEF Pending
  <2>11. Head(toAuth) \in Pending
    BY <2>3 DEF Pending
  <2> QED
    BY <2>1, <2>7, <2>10, <2>11 DEF PendingAreOwn
<1>10. ASSUME AuthDown PROVE PendingAreOwn'
  <2>1. UNCHANGED <<clients, peer, fromAuth>> /\ toAuth' = <<>>
    BY <1>10 DEF AuthDown
  <2> QED
    BY <1>3, <2>1, EmptyQueue DEF Pending
<1>11. CASE UNCHANGED <<clients, peer, toAuth, fromAuth>>
  BY <1>3, <1>11 DEF Pending
<1> QED
  BY <1>5, <1>6, <1>7, <1>8, <1>9, <1>10, <1>11 DEF Next, Serve, vars, LoopEnds, Connect,
     CloseClient, SendAccountReq, SendRoomReq

\* No step makes more answers come than are owed.
LEMMA LoadStep ==
    ASSUME AnswerInv, PendingAreOwn, OwedCoversLoad, [Next]_vars
    PROVE  OwedCoversLoad'
<1> USE DEF serverVars, netVars, clientVars, authVars
<1>1. TypeOK /\ TypeOK' /\ NoPeer \notin Clients /\ AuthPeer \notin Clients
  BY ClientAssumption, TypeStep DEF AnswerInv
<1> DEFINE Asked(c, t) == Hits(toServer[c], Requests(t))
           Passed(c, t) == Hits(toAuth, WebRequestsFor(c, t))
           Answered(c, t) == Hits(fromAuth, WebAcksFor(c, t))
           Asked1(c, t) == Hits(toServer'[c], Requests(t))
           Passed1(c, t) == Hits(toAuth', WebRequestsFor(c, t))
           Answered1(c, t) == Hits(fromAuth', WebAcksFor(c, t))
<1>2. ASSUME NEW c \in Clients, NEW t \in AccountTypes
      PROVE  /\ Asked(c, t) \in Nat /\ Passed(c, t) \in Nat /\ Answered(c, t) \in Nat
             /\ Asked1(c, t) \in Nat /\ Passed1(c, t) \in Nat /\ Answered1(c, t) \in Nat
             /\ owed[c][t] \in Int /\ owed'[c][t] \in Int
             /\ Asked(c, t) + Passed(c, t) + Answered(c, t) <= owed[c][t]
  <2>1. /\ Asked(c, t) \in Nat /\ Passed(c, t) \in Nat /\ Answered(c, t) \in Nat /\ owed[c][t] \in Int
    BY <1>1, LoadType
  <2>2. /\ toServer'[c] \in Seq(Request) /\ toAuth' \in Seq(WebRequest)
        /\ fromAuth' \in Seq(WebAck) /\ owed'[c] \in [AccountTypes -> Int]
    BY <1>1 DEF TypeOK
  <2>3. Asked1(c, t) \in Nat /\ Passed1(c, t) \in Nat /\ Answered1(c, t) \in Nat
    BY <2>2, HitsType
  <2>4. Asked(c, t) + Passed(c, t) + Answered(c, t) <= owed[c][t]
    BY DEF OwedCoversLoad, Load
  <2> QED
    BY <2>1, <2>2, <2>3, <2>4
<1> DEFINE Covered(c, t) == Asked1(c, t) + Passed1(c, t) + Answered1(c, t) <= owed'[c][t]
<1>3. ASSUME \A c \in Clients, t \in AccountTypes : Covered(c, t)
      PROVE  OwedCoversLoad'
  BY <1>3 DEF OwedCoversLoad, Load
<1>4. ASSUME \A c \in Clients, t \in AccountTypes :
                /\ Asked1(c, t) <= Asked(c, t) /\ Passed1(c, t) <= Passed(c, t)
                /\ Answered1(c, t) <= Answered(c, t),
             UNCHANGED owed
      PROVE  OwedCoversLoad'
  <2> HIDE DEF Asked, Passed, Answered, Asked1, Passed1, Answered1
  <2>1. ASSUME NEW c \in Clients, NEW t \in AccountTypes PROVE Covered(c, t)
    BY <1>2, <1>4
  <2> QED
    BY <1>3, <2>1
<1>5. ASSUME NEW s \in Sockets, NEW types, Receive(s, types), NEW c \in Clients, NEW t \in AccountTypes
      PROVE  /\ Asked1(c, t) + (IF peer[s] = c /\ Head(Incoming(s)) \in Requests(t) THEN 1 ELSE 0)
                     <= Asked(c, t)
             /\ Answered1(c, t) + (IF peer[s] = AuthPeer /\ Head(Incoming(s)) \in WebAcksFor(c, t)
                                   THEN 1 ELSE 0) <= Answered(c, t)
  BY <1>1, <1>5, ReceiveLoad
<1>6. ASSUME NEW s \in Sockets, AccountReq(s) PROVE OwedCoversLoad'
  <2> DEFINE m == Head(Incoming(s))
             web == [type |-> WebRequestType[m.type], requestId |-> s, name |-> m.name,
                     from |-> peer[s]]
  <2>1. Receive(s, AccountTypes) /\ toAuth' \in {toAuth, Append(toAuth, web)} /\ UNCHANGED owed
    BY <1>6 DEF AccountReq
  <2>2. peer[s] \in Clients
    BY <1>6, AccountReqNames
  <2>3. m \in AccountRequest /\ m.type \in AccountTypes
    BY <1>1, <2>1, ReceiveEffect, SenderOf, AccountMessage
  <2>4. web \in WebRequest
    BY <2>2, <2>3 DEF AccountRequest, WebRequest, WebRequestType, AccountTypes
  <2>5. web.type = WebRequestType[m.type] /\ web.from = peer[s]
    OBVIOUS
  <2> HIDE DEF web, m
  <2>6. ASSUME NEW c \in Clients, NEW t \in AccountTypes
        PROVE  Passed1(c, t) <= Passed(c, t) + (IF web \in WebRequestsFor(c, t) THEN 1 ELSE 0)
    <3>1. toAuth \in Seq(WebRequest)
      BY <1>1 DEF TypeOK
    <3>2. Hits(Append(toAuth, web), WebRequestsFor(c, t))
             <= Passed(c, t) + (IF web \in WebRequestsFor(c, t) THEN 1 ELSE 0)
      BY <2>4, <3>1, HitsAppend
    <3>3. Passed(c, t) \in Nat
      BY <1>2
    <3>4. toAuth' = toAuth \/ toAuth' = Append(toAuth, web)
      BY <2>1
    <3>5. CASE toAuth' = toAuth
      <4>1. Passed1(c, t) = Passed(c, t)
        BY <3>5
      <4> HIDE DEF Passed, Passed1
      <4> QED
        BY <3>3, <4>1
    <3>6. CASE toAuth' = Append(toAuth, web)
      BY <3>2, <3>6
    <3> QED
      BY <3>4, <3>5, <3>6
  <2>7. ASSUME NEW c \in Clients, NEW t \in AccountTypes, web \in WebRequestsFor(c, t)
        PROVE  peer[s] = c /\ m \in Requests(t)
    <3>1. web.type = WebRequestType[t] /\ web.from = c
      BY <2>7 DEF WebRequestsFor
    <3>2. WebRequestType[m.type] = WebRequestType[t]
      BY <2>5, <3>1
    <3>3. m.type = t
      BY <2>3, <3>2 DEF WebRequestType, AccountTypes
    <3> QED
      BY <2>3, <2>5, <3>1, <3>3 DEF Requests
  <2>8. ASSUME NEW c \in Clients, NEW t \in AccountTypes PROVE Covered(c, t)
    <3>1. /\ Asked1(c, t) + (IF peer[s] = c /\ m \in Requests(t) THEN 1 ELSE 0) <= Asked(c, t)
          /\ Answered1(c, t) <= Answered(c, t)
      <4>1. /\ Asked1(c, t) + (IF peer[s] = c /\ m \in Requests(t) THEN 1 ELSE 0) <= Asked(c, t)
            /\ Answered1(c, t) + (IF peer[s] = AuthPeer /\ m \in WebAcksFor(c, t)
                                   THEN 1 ELSE 0) <= Answered(c, t)
        BY <1>5, <2>1 DEF m
      <4> HIDE DEF Asked, Passed, Answered, Asked1, Passed1, Answered1
      <4> QED
        BY <1>2, <4>1
    <3>2. owed' = owed
      BY <2>1
    <3> HIDE DEF Asked, Passed, Answered, Asked1, Passed1, Answered1
    <3> QED
      BY <1>2, <2>6, <2>7, <3>1, <3>2
  <2> QED
    BY <1>3, <2>8
<1>7. ASSUME NEW s \in Sockets, WebAckFrom(s) PROVE OwedCoversLoad'
  <2> DEFINE m == Head(Incoming(s))
             client == peer[m.requestId]
             kind == WebAnswer[m.type].request
  <2>1. /\ Receive(s, WebAckTypes) /\ UNCHANGED toAuth
        /\ \/ UNCHANGED owed
           \/ owed' = [c \in Clients |->
                         IF c = client /\ Alive(c) THEN [owed[c] EXCEPT ![kind] = @ - 1]
                         ELSE owed[c]]
    BY <1>7 DEF WebAckFrom
  <2>2. m \in WebAck /\ m \in Range(fromAuth)
    BY <1>1, <2>1, SenderOf
  <2>3. client \in Clients => client = m.from
    BY <2>2 DEF PendingAreOwn, Pending
  <2>4. peer[s] = AuthPeer
    <3>1. /\ \/ peer[s] = AuthPeer /\ m \in WebAck
             \/ peer[s] \in Clients /\ m \in Request
          /\ m.type \in WebAckTypes
      BY <1>1, <2>1, ReceiveEffect
    <3>2. m \in Request => m.type \notin WebAckTypes
      BY DEF Request, AccountRequest, RoomRequest, AccountTypes, RoomTypes, WebAckTypes
    <3> QED
      BY <3>1, <3>2
  <2>5. kind \in AccountTypes
    BY <2>2, WebAnswerType DEF WebAck
  <2> HIDE DEF m
  <2>6. ASSUME NEW c \in Clients, NEW t \in AccountTypes
        PROVE  \/ owed'[c][t] = owed[c][t]
               \/ owed'[c][t] = owed[c][t] - 1 /\ m \in WebAcksFor(c, t)
    <3>1. owed \in [Clients -> [AccountTypes -> Int]]
      BY <1>1 DEF TypeOK
    <3>2. CASE owed'[c] = owed[c]
      BY <3>2
    <3>3. CASE c = client /\ owed'[c] = [owed[c] EXCEPT ![kind] = @ - 1]
      <4>1. c = m.from
        BY <2>3, <3>3
      <4>2. CASE t = kind
        BY <2>2, <2>5, <3>1, <3>3, <4>1, <4>2 DEF WebAcksFor
      <4>3. CASE t # kind
        BY <2>5, <3>1, <3>3, <4>3
      <4> QED
        BY <4>2, <4>3
    <3> QED
      BY <2>1, <3>2, <3>3
  <2>7. ASSUME NEW c \in Clients, NEW t \in AccountTypes PROVE Covered(c, t)
    <3>1. /\ Asked1(c, t) <= Asked(c, t)
          /\ Answered1(c, t) + (IF m \in WebAcksFor(c, t) THEN 1 ELSE 0) <= Answered(c, t)
      <4>1. /\ Asked1(c, t) + (IF peer[s] = c /\ m \in Requests(t) THEN 1 ELSE 0) <= Asked(c, t)
            /\ Answered1(c, t) + (IF peer[s] = AuthPeer /\ m \in WebAcksFor(c, t)
                                   THEN 1 ELSE 0) <= Answered(c, t)
        BY <1>5, <2>1 DEF m
      <4> HIDE DEF Asked, Passed, Answered, Asked1, Passed1, Answered1
      <4> QED
        BY <1>2, <2>4, <4>1
    <3>2. Passed1(c, t) = Passed(c, t)
      BY <2>1
    <3> HIDE DEF Asked, Passed, Answered, Asked1, Passed1, Answered1
    <3> QED
      BY <1>2, <2>6, <3>1, <3>2
  <2> QED
    BY <1>3, <2>7
<1>8. ASSUME NEW s \in Sockets, JoinRoom(s) \/ LeaveRoom(s) \/ ChatInRoom(s) PROVE OwedCoversLoad'
  <2>1. /\ \E types : Receive(s, types)
        /\ UNCHANGED <<toAuth, owed>>
    BY <1>8 DEF JoinRoom, LeaveRoom, ChatInRoom
  <2>2. ASSUME NEW c \in Clients, NEW t \in AccountTypes
        PROVE  Asked1(c, t) <= Asked(c, t) /\ Answered1(c, t) <= Answered(c, t)
    <3>1. /\ Asked1(c, t) + (IF peer[s] = c /\ Head(Incoming(s)) \in Requests(t) THEN 1 ELSE 0) <= Asked(c, t)
          /\ Answered1(c, t) + (IF peer[s] = AuthPeer /\ Head(Incoming(s)) \in WebAcksFor(c, t)
                                 THEN 1 ELSE 0) <= Answered(c, t)
      BY <1>5, <2>1
    <3> HIDE DEF Asked, Passed, Answered, Asked1, Passed1, Answered1
    <3> QED
      BY <1>2, <3>1
  <2>3. ASSUME NEW c \in Clients, NEW t \in AccountTypes PROVE Passed1(c, t) <= Passed(c, t)
    BY <1>2, <2>1
  <2> QED
    BY <1>4, <2>1, <2>2, <2>3
<1>9. ASSUME NEW s \in Sockets, Disconnect(s) PROVE OwedCoversLoad'
  <2>1. /\ UNCHANGED <<toAuth, owed>>
        /\ \/ fromAuth' = <<>> /\ UNCHANGED toServer
           \/ toServer' = [toServer EXCEPT ![peer[s]] = <<>>] /\ UNCHANGED fromAuth
    BY <1>9 DEF Disconnect
  <2>2. ASSUME NEW c \in Clients, NEW t \in AccountTypes
        PROVE  /\ Asked1(c, t) <= Asked(c, t) /\ Passed1(c, t) <= Passed(c, t)
               /\ Answered1(c, t) <= Answered(c, t)
    <3>1. toServer'[c] \in {toServer[c], <<>>} /\ fromAuth' \in {fromAuth, <<>>}
      BY <1>1, <2>1 DEF TypeOK
    <3>2. Asked1(c, t) \in {Asked(c, t), 0} /\ Answered1(c, t) \in {Answered(c, t), 0}
      BY <3>1, HitsEmpty
    <3>3. Passed1(c, t) = Passed(c, t)
      BY <2>1
    <3> HIDE DEF Asked, Passed, Answered, Asked1, Passed1, Answered1
    <3> QED
      BY <1>2, <3>2, <3>3
  <2> QED
    BY <1>4, <2>1, <2>2
<1>10. ASSUME NEW d \in Clients, NEW k \in RequestTypes, SendAccountReq(d, k) PROVE OwedCoversLoad'
  <2> DEFINE m == [type |-> k, name |-> NameOf[d]]
  <2>1. /\ k \in AccountTypes /\ UNCHANGED <<toAuth, fromAuth>>
        /\ toServer' = [toServer EXCEPT ![d] = Append(@, m)]
        /\ owed' = [owed EXCEPT ![d][k] = @ + 1]
    BY <1>10 DEF SendAccountReq
  <2>2. m \in Request
    BY <2>1, ClientAssumption DEF Request, AccountRequest, Names
  <2>3. m.type = k
    OBVIOUS
  <2>4. /\ toServer \in [Clients -> Seq(Request)] /\ owed \in [Clients -> [AccountTypes -> Int]]
    BY <1>1 DEF TypeOK
  <2> HIDE DEF m
  <2>5. ASSUME NEW c \in Clients, NEW t \in AccountTypes PROVE Covered(c, t)
    <3>1. Passed1(c, t) = Passed(c, t) /\ Answered1(c, t) = Answered(c, t)
      BY <2>1
    <3>2. CASE c # d
      <4>1. Asked1(c, t) = Asked(c, t) /\ owed'[c] = owed[c]
        BY <2>1, <2>4, <3>2
      <4> HIDE DEF Asked, Passed, Answered, Asked1, Passed1, Answered1
      <4> QED
        BY <1>2, <3>1, <4>1
    <3>3. CASE c = d
      <4>1. toServer'[c] = Append(toServer[c], m) /\ owed'[c] = [owed[c] EXCEPT ![k] = @ + 1]
        BY <2>1, <2>4, <3>3
      <4>2. Hits(Append(toServer[c], m), Requests(t))
               <= Asked(c, t) + (IF m \in Requests(t) THEN 1 ELSE 0)
        BY <2>2, <2>4, HitsAppend
      <4>3. Asked1(c, t) <= Asked(c, t) + (IF m \in Requests(t) THEN 1 ELSE 0)
        BY <4>1, <4>2
      <4>4. m \in Requests(t) => t = k
        BY <2>3 DEF Requests
      <4>5. owed'[c][t] = IF t = k THEN owed[c][t] + 1 ELSE owed[c][t]
        BY <2>1, <2>4, <4>1
      <4> HIDE DEF Asked, Passed, Answered, Asked1, Passed1, Answered1
      <4> QED
        BY <1>2, <3>1, <4>3, <4>4, <4>5
    <3> QED
      BY <3>2, <3>3
  <2> QED
    BY <1>3, <2>5
<1>11. ASSUME NEW d \in Clients, NEW k \in RequestTypes, NEW r \in RoomNames, SendRoomReq(d, k, r)
       PROVE  OwedCoversLoad'
  <2> DEFINE m == [type |-> k, name |-> myName[d], room |-> r]
  <2>1. /\ k \in RoomTypes /\ UNCHANGED <<toAuth, fromAuth, owed>>
        /\ toServer' = [toServer EXCEPT ![d] = Append(@, m)]
    BY <1>11 DEF SendRoomReq
  <2>2. /\ toServer \in [Clients -> Seq(Request)] /\ myName \in [Clients -> Names]
    BY <1>1 DEF TypeOK
  <2>3. m \in Request
    BY <2>1, <2>2 DEF Request, RoomRequest
  <2>4. m.type = k
    OBVIOUS
  <2> HIDE DEF m
  <2>5. ASSUME NEW c \in Clients, NEW t \in AccountTypes
        PROVE  Asked1(c, t) <= Asked(c, t)
    <3>1. m \notin Requests(t)
      BY <2>1, <2>4 DEF Requests, AccountTypes, RoomTypes
    <3>2. CASE c # d
      BY <1>2, <2>1, <2>2, <3>2
    <3>3. CASE c = d
      <4>1. toServer'[c] = Append(toServer[c], m)
        BY <2>1, <2>2, <3>3
      <4>2. Hits(Append(toServer[c], m), Requests(t))
               <= Asked(c, t) + (IF m \in Requests(t) THEN 1 ELSE 0)
        BY <2>2, <2>3, HitsAppend
      <4> QED
        BY <1>2, <3>1, <4>1, <4>2
    <3> QED
      BY <3>2, <3>3
  <2>6. ASSUME NEW c \in Clients, NEW t \in AccountTypes
        PROVE  Passed1(c, t) <= Passed(c, t) /\ Answered1(c, t) <= Answered(c, t)
    <3>1. Passed1(c, t) = Passed(c, t) /\ Answered1(c, t) = Answered(c, t)
      BY <2>1
    <3> HIDE DEF Asked, Passed, Answered, Asked1, Passed1, Answered1
    <3> QED
      BY <1>2, <3>1
  <2> QED
    BY <1>4, <2>1, <2>5, <2>6
<1>12. ASSUME AuthAnswers PROVE OwedCoversLoad'
  <2> DEFINE req == Head(toAuth)
  <2>1. /\ UNCHANGED <<toServer, owed>>
        /\ toAuth # <<>>
        /\ \E n \in 1..MaxBurst : toAuth' = SubSeq(toAuth, n + 1, Len(toAuth))
    BY <1>12 DEF AuthAnswers
  <2>2. toAuth \in Seq(WebRequest) /\ fromAuth \in Seq(WebAck)
    BY <1>1 DEF TypeOK
  <2>3. req \in WebRequest
    BY <2>1, <2>2, HeadOfQueue
  <2>4. PICK t \in WebAckTypes :
           /\ t \in IF req.type = "CREATE_ACCOUNT_WEB_REQ"
                    THEN {"CREATE_ACCOUNT_WEB_SUCCESS_ACK", "CREATE_ACCOUNT_WEB_FAILURE_ACK"}
                    ELSE {"AUTHENTICATE_ACCOUNT_WEB_SUCCESS_ACK",
                          "AUTHENTICATE_ACCOUNT_WEB_FAILURE_ACK"}
           /\ fromAuth' \in {fromAuth, Append(fromAuth, [type |-> t, requestId |-> req.requestId,
                                                     from |-> req.from])}
    BY <1>12 DEF AuthAnswers, WebAckTypes
  <2> DEFINE ack == [type |-> t, requestId |-> req.requestId, from |-> req.from]
  <2>5. ack \in WebAck
    BY <2>3 DEF WebRequest, WebAck
  <2>6. ack.type = t /\ ack.from = req.from
    OBVIOUS
  <2>7. fromAuth' \in {fromAuth, Append(fromAuth, ack)}
    BY <2>4
  <2>8. req.type = WebRequestType[WebAnswer[t].request]
    <3>1. req.type \in {"CREATE_ACCOUNT_WEB_REQ", "AUTHENTICATE_ACCOUNT_WEB_REQ"}
      BY <2>3 DEF WebRequest
    <3> QED
      BY <2>4, <3>1 DEF WebAnswer, WebRequestType
  <2> HIDE DEF req, ack
  <2>9. ASSUME NEW c \in Clients, NEW k \in AccountTypes PROVE Covered(c, k)
    <3>1. Asked1(c, k) = Asked(c, k) /\ owed'[c] = owed[c]
      BY <2>1
    <3>2. Passed1(c, k) + (IF req \in WebRequestsFor(c, k) THEN 1 ELSE 0) <= Passed(c, k)
      <4>1. PICK n \in 1..MaxBurst : toAuth' = SubSeq(toAuth, n + 1, Len(toAuth))
        BY <2>1
      <4>2. n \in Nat /\ n >= 1
        BY SocketAssumption
      <4>3. Hits(SubSeq(toAuth, n + 1, Len(toAuth)), WebRequestsFor(c, k))
               + (IF Head(toAuth) \in WebRequestsFor(c, k) THEN 1 ELSE 0) <= Passed(c, k)
        BY <2>1, <2>2, <4>2, HitsTaken
      <4> QED
        BY <4>1, <4>3 DEF req
    <3>3. Answered1(c, k) <= Answered(c, k) + (IF ack \in WebAcksFor(c, k) THEN 1 ELSE 0)
      <4>1. Hits(Append(fromAuth, ack), WebAcksFor(c, k))
               <= Answered(c, k) + (IF ack \in WebAcksFor(c, k) THEN 1 ELSE 0)
        BY <2>2, <2>5, HitsAppend
      <4>2. Answered(c, k) \in Nat
        BY <1>2
      <4>3. CASE fromAuth' = fromAuth
        <5>1. Answered1(c, k) = Answered(c, k)
          BY <4>3
        <5> HIDE DEF Answered, Answered1
        <5> QED
          BY <4>2, <5>1
      <4>4. CASE fromAuth' = Append(fromAuth, ack)
        BY <4>1, <4>4
      <4> QED
        BY <2>7, <4>3, <4>4
    <3>4. ack \in WebAcksFor(c, k) => req \in WebRequestsFor(c, k)
      <4>1. ASSUME ack \in WebAcksFor(c, k) PROVE req \in WebRequestsFor(c, k)
        <5>1. WebAnswer[t].request = k /\ req.from = c
          BY <2>6, <4>1 DEF WebAcksFor
        <5> QED
          BY <2>3, <2>8, <5>1 DEF WebRequestsFor
      <4> QED
        BY <4>1
    <3> HIDE DEF Asked, Passed, Answered, Asked1, Passed1, Answered1
    <3> QED
      BY <1>2, <3>1, <3>2, <3>3, <3>4
  <2> QED
    BY <1>3, <2>9
<1>13. ASSUME AuthDown PROVE OwedCoversLoad'
  <2>1. UNCHANGED <<toServer, fromAuth, owed>> /\ toAuth' = <<>>
    BY <1>13 DEF AuthDown
  <2>2. ASSUME NEW c \in Clients, NEW t \in AccountTypes
        PROVE  /\ Asked1(c, t) <= Asked(c, t) /\ Passed1(c, t) <= Passed(c, t)
               /\ Answered1(c, t) <= Answered(c, t)
    <3>1. Asked1(c, t) = Asked(c, t) /\ Passed1(c, t) = 0 /\ Answered1(c, t) = Answered(c, t)
      BY <2>1, HitsEmpty
    <3> HIDE DEF Asked, Passed, Answered, Asked1, Passed1, Answered1
    <3> QED
      BY <1>2, <3>1
  <2> QED
    BY <1>4, <2>1, <2>2
<1>14. CASE UNCHANGED <<toServer, toAuth, fromAuth, owed>>
  BY <1>14 DEF OwedCoversLoad, Load
<1> QED
  BY <1>6, <1>7, <1>8, <1>9, <1>10, <1>11, <1>12, <1>13, <1>14 DEF Next, Serve, vars,
     Accept, LoopEnds, Connect, CloseClient

\* No client is sent more answers to a kind of account request than it has made requests of
\* that kind, unless the value of a closed socket is handed out again: no receive, however
\* many packets it takes, no process that leaves and no failed send adds an answer.
THEOREM NoStrayAnswers == ASSUME ~ReuseHandles PROVE Spec => []AcksAnswerRequests
<1>1. Init => PendingAreOwn /\ OwedCoversLoad
  <2>1. ASSUME Init PROVE PendingAreOwn
    BY <2>1, EmptyQueue DEF Init, PendingAreOwn, Pending
  <2>2. ASSUME Init, NEW c \in Clients, NEW t \in AccountTypes PROVE Load(c, t) <= owed[c][t]
    <3>1. toServer[c] = <<>> /\ toAuth = <<>> /\ fromAuth = <<>> /\ owed[c][t] = 0
      BY <2>2 DEF Init
    <3>2. Load(c, t) = 0
      BY <3>1, HitsEmpty DEF Load
    <3> QED
      BY <3>1, <3>2
  <2> QED
    BY <2>1, <2>2 DEF OwedCoversLoad
<1>2. AnswerInv /\ ClientsMapIsCurrent /\ PendingAreOwn /\ OwedCoversLoad /\ [Next]_vars
          => PendingAreOwn' /\ OwedCoversLoad'
  BY PendingStep, LoadStep
<1>3. TypeOK /\ OwedCoversLoad => AcksAnswerRequests
  <2> SUFFICES ASSUME TypeOK, OwedCoversLoad, NEW c \in Clients, NEW t \in AccountTypes
               PROVE  owed[c][t] >= 0
    BY DEF AcksAnswerRequests
  <2>1. Load(c, t) <= owed[c][t]
    BY DEF OwedCoversLoad
  <2> QED
    BY <2>1, LoadType DEF Load
<1>4. AnswerInv => TypeOK
  BY DEF AnswerInv
<1> QED
  BY <1>1, <1>2, <1>3, <1>4, AnswerInvariance, ClientsMapIsRight, PTL DEF Spec
=============================================================================
