-------------------------- MODULE ChatServerProofs --------------------------
(***************************************************************************)
(* Proofs about ChatServer, for every set of clients, names, rooms and     *)
(* sockets, every limit, and whether or not closed handles are reused.     *)
(***************************************************************************)
EXTENDS ChatServer, SequenceTheorems, FiniteSetTheorems, TLAPS

(***************************************************************************)
(* Queues.                                                                 *)
(***************************************************************************)
\* What is left of a queue after a receive was in the queue before.
LEMMA SuffixOfQueue ==
    ASSUME NEW S, NEW q \in Seq(S), NEW n \in Nat, n >= 1
    PROVE  /\ SubSeq(q, n + 1, Len(q)) \in Seq(S)
           /\ Range(SubSeq(q, n + 1, Len(q))) \subseteq Range(q)
<1> DEFINE t == SubSeq(q, n + 1, Len(q))
<1>1. Len(q) \in Nat /\ \A i \in 1..Len(q) : q[i] \in S
  BY ElementOfSeq, LenProperties
<1>2. \A i \in n + 1..Len(q) : q[i] \in S
  BY <1>1
<1>3. /\ t \in Seq(S)
      /\ Len(t) = IF n + 1 <= Len(q) THEN Len(q) - (n + 1) + 1 ELSE 0
      /\ \A i \in 1..Len(q) - (n + 1) + 1 : t[i] = q[n + 1 + i - 1]
  BY <1>1, <1>2, SubSeqProperties
<1>4. DOMAIN t = 1..Len(t) /\ DOMAIN q = 1..Len(q)
  BY <1>3, LenProperties
<1> HIDE DEF t
<1>5. ASSUME NEW i \in 1..Len(t) PROVE n + i \in 1..Len(q) /\ t[i] = q[n + i]
  <2>1. n + 1 <= Len(q)
    BY <1>1, <1>3
  <2>2. i \in 1..Len(q) - n /\ Len(q) - (n + 1) + 1 = Len(q) - n
    BY <1>1, <1>3, <2>1
  <2>3. n + 1 + i - 1 = n + i
    BY <1>1, <2>2
  <2>4. i \in 1..Len(q) - (n + 1) + 1
    BY <2>2
  <2>5. t[i] = q[n + 1 + i - 1]
    BY <1>3, <2>4
  <2> QED
    BY <1>1, <2>2, <2>3, <2>5
<1>6. Range(t) \subseteq Range(q)
  BY <1>4, <1>5 DEF Range
<1> QED
  BY <1>3, <1>6 DEF t

\* A queue holds what it held before and what was appended.
LEMMA AppendToQueue ==
    ASSUME NEW S, NEW q \in Seq(S), NEW e \in S
    PROVE  /\ Append(q, e) \in Seq(S)
           /\ Range(Append(q, e)) = Range(q) \cup {e}
<1>1. /\ Append(q, e) \in Seq(S)
      /\ Len(Append(q, e)) = Len(q) + 1
      /\ Len(q) \in Nat
      /\ DOMAIN q = 1..Len(q)
      /\ DOMAIN Append(q, e) = 1..Len(q) + 1
      /\ \A i \in 1..Len(q) : Append(q, e)[i] = q[i]
      /\ Append(q, e)[Len(q) + 1] = e
  BY AppendProperties, LenProperties
<1> QED
  BY <1>1 DEF Range

\* The head of a queue is in it.
LEMMA HeadOfQueue ==
    ASSUME NEW S, NEW q \in Seq(S), q # <<>>
    PROVE  Head(q) \in S /\ Head(q) \in Range(q)
<1>1. Len(q) \in Nat \ {0} /\ DOMAIN q = 1..Len(q)
  BY EmptySeq, LenProperties
<1>2. Head(q) = q[1] /\ 1 \in DOMAIN q
  BY <1>1
<1> QED
  BY <1>1, <1>2, HeadTailProperties DEF Range

LEMMA EmptyQueue == \A S : <<>> \in Seq(S) /\ Range(<<>>) = {}
<1>1. \A S : <<>> \in Seq(S) /\ Len(<<>>) = 0
  BY EmptySeq
<1>2. DOMAIN <<>> = {}
  OBVIOUS
<1> QED
  BY <1>1, <1>2 DEF Range
-----------------------------------------------------------------------------
(***************************************************************************)
(* What the parts of an action do.                                         *)
(***************************************************************************)
\* A receive takes a message that was in a queue and loses others, but adds none.
LEMMA ReceiveEffect ==
    ASSUME TypeOK, NEW s \in Sockets, NEW types, Receive(s, types)
    PROVE  LET m == Head(Incoming(s))
           IN  /\ \/ peer[s] = AuthPeer /\ m \in WebAck /\ m \in Range(fromAuth)
                  \/ /\ peer[s] \in Clients /\ m \in Request
                     /\ m \in Range(toServer[peer[s]])
               /\ m.type \in types
               /\ toServer' \in [Clients -> Seq(Request)]
               /\ \A c \in Clients : Range(toServer'[c]) \subseteq Range(toServer[c])
               /\ fromAuth' \in Seq(WebAck)
               /\ Range(fromAuth') \subseteq Range(fromAuth)
<1> USE DEF TypeOK
<1>1. PICK n \in 1..MaxBurst :
         IF peer[s] = AuthPeer
         THEN /\ fromAuth' = SubSeq(fromAuth, n + 1, Len(fromAuth))
              /\ UNCHANGED toServer
         ELSE /\ toServer' = [toServer EXCEPT ![peer[s]] = SubSeq(@, n + 1, Len(@))]
              /\ UNCHANGED fromAuth
  BY DEF Receive
<1>2. n \in Nat /\ n >= 1
  BY SocketAssumption
<1>3. peer[s] \in Clients \cup {AuthPeer} /\ Incoming(s) # <<>> /\ Head(Incoming(s)).type \in types
  BY DEF Receive
<1>4. CASE peer[s] = AuthPeer
  <2>1. Incoming(s) = fromAuth
    BY <1>4 DEF Incoming
  <2>2. Head(fromAuth) \in WebAck /\ Head(fromAuth) \in Range(fromAuth)
    BY <1>3, <2>1, HeadOfQueue
  <2>3. fromAuth' \in Seq(WebAck) /\ Range(fromAuth') \subseteq Range(fromAuth)
    BY <1>1, <1>2, <1>4, SuffixOfQueue
  <2> QED
    BY <1>1, <1>3, <1>4, <2>1, <2>2, <2>3
<1>5. CASE peer[s] \in Clients
  <2>1. peer[s] # AuthPeer
    BY <1>5, ClientAssumption
  <2>2. Incoming(s) = toServer[peer[s]]
    BY <2>1 DEF Incoming
  <2> DEFINE q == toServer[peer[s]]
  <2>3. q \in Seq(Request)
    BY <1>5
  <2>4. Head(q) \in Request /\ Head(q) \in Range(q)
    BY <1>3, <2>2, <2>3, HeadOfQueue
  <2>5. /\ SubSeq(q, n + 1, Len(q)) \in Seq(Request)
        /\ Range(SubSeq(q, n + 1, Len(q))) \subseteq Range(q)
    BY <1>2, <2>3, SuffixOfQueue
  <2>6. /\ toServer' = [toServer EXCEPT ![peer[s]] = SubSeq(q, n + 1, Len(q))]
        /\ fromAuth' = fromAuth
    BY <1>1, <2>1
  <2>7. toServer' \in [Clients -> Seq(Request)]
    BY <1>5, <2>5, <2>6
  <2>8. \A c \in Clients : Range(toServer'[c]) \subseteq Range(toServer[c])
    BY <1>5, <2>5, <2>6
  <2> QED
    BY <1>3, <1>5, <2>2, <2>4, <2>6, <2>7, <2>8
<1> QED
  BY <1>3, <1>4, <1>5

\* However many sends of a handler fail, wsa stays a count.
LEMMA TransmitEffect ==
    ASSUME TypeOK, NEW to, NEW msg, NEW names \in SUBSET Names, NEW ntf,
           Transmit(to, msg, names, ntf)
    PROVE  wsa' \in 0..2
<1>1. PICK lost \in BOOLEAN, failed \in SUBSET names :
         LET failures == Cardinality(failed) + (IF lost THEN 1 ELSE 0)
         IN  wsa' = IF failures < wsa THEN wsa - failures ELSE 0
  BY DEF Transmit, AfterCleanups
<1>2. Cardinality(failed) \in Nat
  BY ClientAssumption, FS_Subset, FS_CardinalityType
<1> QED
  BY <1>1, <1>2 DEF TypeOK
-----------------------------------------------------------------------------
(***************************************************************************)
(* Types.                                                                  *)
(***************************************************************************)
LEMMA WebAnswerType == \A t \in WebAckTypes : WebAnswer[t].request \in AccountTypes
BY DEF WebAckTypes, WebAnswer, AccountTypes

LEMMA AccountMessage ==
    ASSUME NEW m \in Request, m.type \in AccountTypes
    PROVE  /\ m \in AccountRequest
           /\ WebRequestType[m.type] \in {"CREATE_ACCOUNT_WEB_REQ", "AUTHENTICATE_ACCOUNT_WEB_REQ"}
BY DEF Request, AccountRequest, RoomRequest, AccountTypes, RoomTypes, WebRequestType

LEMMA RoomMessage ==
    ASSUME NEW m \in Request, m.type \in RoomTypes
    PROVE  m \in RoomRequest
BY DEF Request, AccountRequest, RoomRequest, AccountTypes, RoomTypes

\* The AuthServer sends no requests, the clients no answers to them.
LEMMA SenderOf ==
    ASSUME TypeOK, NEW s \in Sockets, NEW types, Receive(s, types)
    PROVE  LET m == Head(Incoming(s))
           IN  /\ types \subseteq AccountTypes \cup RoomTypes =>
                     /\ peer[s] \in Clients /\ m \in Request
                     /\ m \in Range(toServer[peer[s]])
               /\ types \subseteq WebAckTypes =>
                     m \in WebAck /\ m \in Range(fromAuth)
<1> DEFINE m == Head(Incoming(s))
<1>1. /\ \/ peer[s] = AuthPeer /\ m \in WebAck /\ m \in Range(fromAuth)
         \/ peer[s] \in Clients /\ m \in Request /\ m \in Range(toServer[peer[s]])
      /\ m.type \in types
  BY ReceiveEffect
<1>2. m \in WebAck => m.type \in WebAckTypes
  BY DEF WebAck
<1>3. m \in Request => m.type \in AccountTypes \cup RoomTypes
  BY DEF Request, AccountRequest, RoomRequest
<1>4. WebAckTypes \cap (AccountTypes \cup RoomTypes) = {}
  BY DEF WebAckTypes, AccountTypes, RoomTypes
<1> HIDE DEF m
<1>5. types \subseteq AccountTypes \cup RoomTypes =>
          peer[s] \in Clients /\ m \in Request /\ m \in Range(toServer[peer[s]])
  BY <1>1, <1>2, <1>4
<1>6. types \subseteq WebAckTypes => m \in WebAck /\ m \in Range(fromAuth)
  BY <1>1, <1>3, <1>4
<1> QED
  BY <1>5, <1>6 DEF m

\* Every step keeps every variable within its type.
LEMMA TypeStep == TypeOK /\ [Next]_vars => TypeOK'
<1> SUFFICES ASSUME TypeOK, [Next]_vars PROVE TypeOK'
  OBVIOUS
<1> USE DEF serverVars, netVars, clientVars, authVars
<1>1. ASSUME NEW s \in Sockets, AccountReq(s) PROVE TypeOK'
  <2> DEFINE m == Head(Incoming(s))
             web == [type |-> WebRequestType[m.type], requestId |-> s, name |-> m.name,
                     from |-> peer[s]]
  <2>1. Receive(s, AccountTypes) /\ Transmit(AuthHandle, web, {}, web)
    BY <1>1 DEF AccountReq, Remember
  <2>2. /\ peer[s] \in Clients /\ m \in Request /\ m.type \in AccountTypes
        /\ toServer' \in [Clients -> Seq(Request)] /\ fromAuth' \in Seq(WebAck)
    BY <2>1, ReceiveEffect, SenderOf
  <2>3. m.name \in Names /\ web \in WebRequest
    BY <2>2, AccountMessage DEF AccountRequest, WebRequest
  <2>4. wsa' \in 0..2
    BY <2>1, TransmitEffect
  <2>5. toAuth' \in Seq(WebRequest)
    <3>1. Append(toAuth, web) \in Seq(WebRequest)
      BY <2>3, AppendToQueue DEF TypeOK
    <3> QED
      BY <1>1, <3>1 DEF AccountReq, Remember, TypeOK
  <2>6. /\ name2socket' = [name2socket EXCEPT ![m.name] = s]
        /\ socket2name' = [socket2name EXCEPT ![s] = m.name]
        /\ UNCHANGED <<running, clients, readfds, rooms, netVars, clientVars, authUp, owed>>
    BY <1>1 DEF AccountReq, Remember
  <2>7. name2socket' \in [Names -> Sockets \cup {NoSocket}]
    BY <2>3, <2>6 DEF TypeOK
  <2>8. socket2name' \in [Sockets -> Names \cup {NoName}]
    BY <2>3, <2>6 DEF TypeOK
  <2> HIDE DEF m, web
  <2> QED
    BY <2>2, <2>4, <2>5, <2>6, <2>7, <2>8 DEF TypeOK
<1>2. ASSUME NEW s \in Sockets, WebAckFrom(s) PROVE TypeOK'
  <2> DEFINE m == Head(Incoming(s))
             ack == [type |-> WebAnswer[m.type].ack, name |-> socket2name[m.requestId]]
  <2>1. Receive(s, WebAckTypes)
    BY <1>2 DEF WebAckFrom
  <2>2. /\ m \in WebAck
        /\ toServer' \in [Clients -> Seq(Request)] /\ fromAuth' \in Seq(WebAck)
    BY <2>1, ReceiveEffect, SenderOf
  <2>3. WebAnswer[m.type].request \in AccountTypes
    BY <2>2, WebAnswerType DEF WebAck
  <2>4. wsa' \in 0..2
    <3>1. CASE socket2name[m.requestId] # NoName
      <4>1. Transmit(m.requestId, ack, {}, ack)
        BY <1>2, <3>1 DEF WebAckFrom
      <4> QED
        BY <4>1, TransmitEffect
    <3>2. CASE socket2name[m.requestId] = NoName
      BY <1>2, <3>2 DEF WebAckFrom, TypeOK
    <3> QED
      BY <3>1, <3>2
  <2>5. owed' \in [Clients -> [AccountTypes -> Int]]
    <3>1. \A c \in Clients :
             [owed[c] EXCEPT ![WebAnswer[m.type].request] = @ - 1] \in [AccountTypes -> Int]
      BY <2>3 DEF TypeOK
    <3>2. CASE socket2name[m.requestId] # NoName
      <4>1. owed' = [c \in Clients |->
                       IF c = peer[m.requestId] /\ Alive(c)
                       THEN [owed[c] EXCEPT ![WebAnswer[m.type].request] = @ - 1]
                       ELSE owed[c]]
        BY <1>2, <3>2 DEF WebAckFrom
      <4> QED
        BY <3>1, <4>1 DEF TypeOK
    <3>3. CASE socket2name[m.requestId] = NoName
      BY <1>2, <3>3 DEF WebAckFrom, TypeOK
    <3> QED
      BY <3>2, <3>3
  <2>6. UNCHANGED <<running, clients, readfds, name2socket, socket2name, rooms, netVars,
                    clientVars, authVars>>
    BY <1>2 DEF WebAckFrom
  <2> HIDE DEF m, ack
  <2> QED
    BY <2>2, <2>4, <2>5, <2>6 DEF TypeOK
<1>3. ASSUME NEW s \in Sockets, JoinRoom(s) PROVE TypeOK'
  <2> DEFINE m == Head(Incoming(s))
             users == rooms[m.room] \cup {m.name}
             ntf == [type |-> "JOIN_ROOM_NTF", room |-> m.room, name |-> m.name]
             Ack(status, us) ==
               [type |-> "JOIN_ROOM_ACK", status |-> status, room |-> m.room, users |-> us]
  <2>1. Receive(s, {"JOIN_ROOM_REQ"})
    BY <1>3 DEF JoinRoom
  <2>2. {"JOIN_ROOM_REQ"} \subseteq AccountTypes \cup RoomTypes
    BY DEF RoomTypes
  <2>3. /\ m \in Request /\ m.type \in RoomTypes
        /\ toServer' \in [Clients -> Seq(Request)] /\ fromAuth' \in Seq(WebAck)
    BY <2>1, <2>2, ReceiveEffect, SenderOf DEF RoomTypes
  <2>4. m.name \in Names
    BY <2>3, RoomMessage DEF RoomRequest
  <2>5. wsa' \in 0..2 /\ rooms' \in [Rooms -> SUBSET Names]
    <3>1. CASE m.room \in Rooms
      <4>1. /\ Transmit(s, Ack("SUCCESS", users), Reachable(users \ {m.name}), ntf)
            /\ rooms' = [rooms EXCEPT ![m.room] = users]
        BY <1>3, <3>1 DEF JoinRoom
      <4>2. users \in SUBSET Names /\ Reachable(users \ {m.name}) \in SUBSET Names
        BY <2>4, <3>1 DEF TypeOK, Reachable
      <4>3. wsa' \in 0..2
        BY <4>1, <4>2, TransmitEffect
      <4>4. rooms' \in [Rooms -> SUBSET Names]
        BY <4>1, <4>2 DEF TypeOK
      <4> QED
        BY <4>3, <4>4
    <3>2. CASE m.room \notin Rooms
      <4>1. Transmit(s, Ack("FAILURE", {}), {}, ntf) /\ rooms' = rooms
        BY <1>3, <3>2 DEF JoinRoom
      <4> QED
        BY <4>1, TransmitEffect DEF TypeOK
    <3> QED
      BY <3>1, <3>2
  <2>6. UNCHANGED <<running, clients, readfds, name2socket, socket2name, netVars, clientVars,
                    authVars, owed>>
    BY <1>3 DEF JoinRoom
  <2> HIDE DEF m
  <2> QED
    BY <2>3, <2>5, <2>6 DEF TypeOK
<1>4. ASSUME NEW s \in Sockets, LeaveRoom(s) PROVE TypeOK'
  <2> DEFINE m == Head(Incoming(s))
             users == rooms[m.room] \ {m.name}
             ntf == [type |-> "LEAVE_ROOM_NTF", room |-> m.room, name |-> m.name]
             Ack(status) ==
               [type |-> "LEAVE_ROOM_ACK", status |-> status, room |-> m.room, name |-> m.name]
  <2>1. Receive(s, {"LEAVE_ROOM_REQ"})
    BY <1>4 DEF LeaveRoom
  <2>2. toServer' \in [Clients -> Seq(Request)] /\ fromAuth' \in Seq(WebAck)
    BY <2>1, ReceiveEffect
  <2>3. wsa' \in 0..2 /\ rooms' \in [Rooms -> SUBSET Names]
    <3>1. CASE m.room \in Rooms
      <4>1. /\ Transmit(s, Ack("SUCCESS"), Reachable(users), ntf)
            /\ rooms' = [rooms EXCEPT ![m.room] = users]
        BY <1>4, <3>1 DEF LeaveRoom
      <4>2. users \in SUBSET Names /\ Reachable(users) \in SUBSET Names
        BY <3>1 DEF TypeOK, Reachable
      <4>3. wsa' \in 0..2
        BY <4>1, <4>2, TransmitEffect
      <4>4. rooms' \in [Rooms -> SUBSET Names]
        BY <4>1, <4>2 DEF TypeOK
      <4> QED
        BY <4>3, <4>4
    <3>2. CASE m.room \notin Rooms
      <4>1. Transmit(s, Ack("FAILURE"), {}, ntf) /\ rooms' = rooms
        BY <1>4, <3>2 DEF LeaveRoom
      <4> QED
        BY <4>1, TransmitEffect DEF TypeOK
    <3> QED
      BY <3>1, <3>2
  <2>4. UNCHANGED <<running, clients, readfds, name2socket, socket2name, netVars, clientVars,
                    authVars, owed>>
    BY <1>4 DEF LeaveRoom
  <2> HIDE DEF m
  <2> QED
    BY <2>2, <2>3, <2>4 DEF TypeOK
<1>5. ASSUME NEW s \in Sockets, ChatInRoom(s) PROVE TypeOK'
  <2> DEFINE m == Head(Incoming(s))
             ntf == [type |-> "CHAT_IN_ROOM_NTF", room |-> m.room, name |-> m.name]
  <2>1. Receive(s, {"CHAT_IN_ROOM_REQ"})
    BY <1>5 DEF ChatInRoom
  <2>2. toServer' \in [Clients -> Seq(Request)] /\ fromAuth' \in Seq(WebAck)
    BY <2>1, ReceiveEffect
  <2>3. wsa' \in 0..2
    <3>1. CASE m.room \in Rooms
      <4>1. Transmit(s, ChatAck("SUCCESS", m.room, m.name), Reachable(rooms[m.room]), ntf)
        BY <1>5, <3>1 DEF ChatInRoom
      <4>2. Reachable(rooms[m.room]) \in SUBSET Names
        BY <3>1 DEF TypeOK, Reachable
      <4> QED
        BY <4>1, <4>2, TransmitEffect
    <3>2. CASE m.room \notin Rooms
      <4>1. Transmit(s, ChatAck("FAILURE", m.room, m.name), {}, ntf)
        BY <1>5, <3>2 DEF ChatInRoom
      <4> QED
        BY <4>1, TransmitEffect
    <3> QED
      BY <3>1, <3>2
  <2>4. UNCHANGED <<running, clients, readfds, name2socket, socket2name, rooms, netVars,
                    clientVars, authVars, owed>>
    BY <1>5 DEF ChatInRoom
  <2> HIDE DEF m
  <2> QED
    BY <2>2, <2>3, <2>4 DEF TypeOK
<1>6. ASSUME NEW s \in Sockets, Disconnect(s) PROVE TypeOK'
  <2>1. <<>> \in Seq(WebAck) /\ <<>> \in Seq(Request)
    BY EmptyQueue
  <2>2. toServer' \in [Clients -> Seq(Request)] /\ fromAuth' \in Seq(WebAck)
    BY <1>6, <2>1 DEF Disconnect, RecvFailed, MarkDisconnected, CloseSocket, TypeOK
  <2> QED
    BY <1>6, <2>2 DEF Disconnect, RecvFailed, MarkDisconnected, CloseSocket, TypeOK
<1>7. ASSUME NEW c \in Clients, Accept(c) PROVE TypeOK'
  <2>1. PICK s \in FreeHandles :
           /\ peer' = [peer EXCEPT ![s] = c]
           /\ readfds' = IF 1 + Cardinality(readfds) < FdSetSize
                         THEN readfds \cup {s} ELSE readfds
           /\ clients' = IF clients[s] = "none"
                         THEN [clients EXCEPT ![s] = "connected"] ELSE clients
    BY <1>7 DEF Accept
  <2>2. s \in Sockets
    BY DEF FreeHandles
  <2>3. readfds' \subseteq Sockets
    BY <2>1, <2>2 DEF TypeOK
  <2>4. /\ peer' \in [Sockets -> Clients \cup {AuthPeer, NoPeer}]
        /\ clients' \in [Sockets -> {"none", "connected", "disconnected"}]
    BY <2>1, <2>2 DEF TypeOK
  <2>5. /\ backlog' = backlog \ {c}
        /\ UNCHANGED <<running, wsa, name2socket, socket2name, rooms, clientVars, toServer,
                       authVars, fromAuth, owed>>
    BY <1>7 DEF Accept
  <2> QED
    BY <2>3, <2>4, <2>5 DEF TypeOK
<1>8. ASSUME NEW c \in Clients, Connect(c) PROVE TypeOK'
  BY <1>8 DEF Connect, TypeOK
<1>9. ASSUME NEW c \in Clients, CloseClient(c) PROVE TypeOK'
  BY <1>9 DEF CloseClient, TypeOK
<1>10. ASSUME NEW c \in Clients, NEW t \in RequestTypes, SendAccountReq(c, t) PROVE TypeOK'
  <2> DEFINE m == [type |-> t, name |-> NameOf[c]]
  <2>1. t \in AccountTypes /\ NameOf[c] \in Names /\ sent[c] < MaxRequests
    BY <1>10 DEF SendAccountReq, CanSend, Names
  <2>2. m \in Request
    BY <2>1 DEF Request, AccountRequest
  <2>3. Append(toServer[c], m) \in Seq(Request)
    BY <2>2, AppendToQueue DEF TypeOK
  <2> HIDE DEF m
  <2>4. toServer' \in [Clients -> Seq(Request)]
    BY <1>10, <2>3 DEF SendAccountReq, TypeOK, m
  <2>5. sent' \in [Clients -> 0..MaxRequests]
    BY <1>10, <2>1, SocketAssumption DEF SendAccountReq, TypeOK
  <2>6. owed' \in [Clients -> [AccountTypes -> Int]]
    BY <1>10, <2>1 DEF SendAccountReq, TypeOK
  <2>7. myName' \in [Clients -> Names]
    BY <1>10, <2>1 DEF SendAccountReq, TypeOK
  <2> QED
    BY <1>10, <2>4, <2>5, <2>6, <2>7 DEF SendAccountReq, TypeOK
<1>11. ASSUME NEW c \in Clients, NEW t \in RequestTypes, NEW r \in RoomNames,
              SendRoomReq(c, t, r) PROVE TypeOK'
  <2> DEFINE m == [type |-> t, name |-> myName[c], room |-> r]
  <2>1. t \in RoomTypes /\ sent[c] < MaxRequests
    BY <1>11 DEF SendRoomReq, CanSend
  <2>2. m \in Request
    BY <2>1 DEF Request, RoomRequest, TypeOK
  <2>3. Append(toServer[c], m) \in Seq(Request)
    BY <2>2, AppendToQueue DEF TypeOK
  <2> HIDE DEF m
  <2>4. toServer' \in [Clients -> Seq(Request)]
    BY <1>11, <2>3 DEF SendRoomReq, TypeOK, m
  <2>5. sent' \in [Clients -> 0..MaxRequests]
    BY <1>11, <2>1, SocketAssumption DEF SendRoomReq, TypeOK
  <2> QED
    BY <1>11, <2>4, <2>5 DEF SendRoomReq, TypeOK
<1>12. CASE LoopEnds
  BY <1>12 DEF LoopEnds, TypeOK
<1>13. CASE AuthAnswers
  <2> DEFINE req == Head(toAuth)
  <2>1. PICK n \in 1..MaxBurst : toAuth' = SubSeq(toAuth, n + 1, Len(toAuth))
    BY <1>13 DEF AuthAnswers
  <2>2. n \in Nat /\ n >= 1
    BY SocketAssumption
  <2>3. toAuth' \in Seq(WebRequest)
    BY <2>1, <2>2, SuffixOfQueue DEF TypeOK
  <2>4. req \in WebRequest
    BY <1>13, HeadOfQueue DEF AuthAnswers, TypeOK
  <2>5. PICK t \in WebAckTypes :
           fromAuth' = IF peer[AuthHandle] = AuthPeer
                       THEN Append(fromAuth, [type |-> t, requestId |-> req.requestId,
                                              from |-> req.from])
                       ELSE fromAuth
    BY <1>13 DEF AuthAnswers, WebAckTypes
  <2>6. [type |-> t, requestId |-> req.requestId, from |-> req.from] \in WebAck
    BY <2>4 DEF WebAck, WebRequest
  <2>7. fromAuth' \in Seq(WebAck)
    BY <2>5, <2>6, AppendToQueue DEF TypeOK
  <2> HIDE DEF req
  <2> QED
    BY <1>13, <2>3, <2>7 DEF AuthAnswers, TypeOK
<1>14. CASE AuthDown
  <2>1. <<>> \in Seq(WebRequest)
    BY EmptyQueue
  <2> QED
    BY <1>14, <2>1 DEF AuthDown, TypeOK
<1>15. CASE UNCHANGED vars
  BY <1>15 DEF vars, TypeOK
<1> QED
  BY <1>1, <1>2, <1>3, <1>4, <1>5, <1>6, <1>7, <1>8, <1>9, <1>10, <1>11, <1>12, <1>13,
     <1>14, <1>15 DEF Next, Serve

\* Initially and after every step every variable is within its type.
THEOREM TypeCorrect == Spec => []TypeOK
<1>1. Init => TypeOK
  <2> SUFFICES ASSUME Init PROVE TypeOK
    OBVIOUS
  <2>1. /\ <<>> \in Seq(Request) /\ <<>> \in Seq(WebRequest) /\ <<>> \in Seq(WebAck)
    BY EmptyQueue
  <2>2. EmptyName \in Names /\ AuthHandle \in Sockets
    BY SocketAssumption DEF Names
  <2>3. 0 \in 0..MaxRequests
    BY SocketAssumption
  <2> QED
    BY <2>1, <2>2, <2>3, SMTT(30) DEF Init, TypeOK
<1> QED
  BY <1>1, TypeStep, PTL DEF Spec
-----------------------------------------------------------------------------
(***************************************************************************)
(* select() is never given a closed socket.                                *)
(***************************************************************************)
\* The two places a socket is watched from are cleared when it is closed.
OnlyOpenSockets ==
    \A s \in Sockets : s \in readfds \/ clients[s] = "connected" => peer[s] # NoPeer

LEMMA OnlyOpenSocketsStep == TypeOK /\ OnlyOpenSockets /\ [Next]_vars => OnlyOpenSockets'
<1> SUFFICES ASSUME TypeOK, OnlyOpenSockets, [Next]_vars PROVE OnlyOpenSockets'
  OBVIOUS
<1> USE DEF serverVars, netVars, clientVars, authVars
<1>1. ASSUME NEW s \in Sockets, Disconnect(s) PROVE OnlyOpenSockets'
  BY <1>1 DEF Disconnect, RecvFailed, MarkDisconnected, CloseSocket, OnlyOpenSockets, TypeOK
<1>2. ASSUME NEW c \in Clients, Accept(c) PROVE OnlyOpenSockets'
  <2>1. c # NoPeer
    BY ClientAssumption
  <2>2. PICK s \in FreeHandles :
           /\ peer' = [peer EXCEPT ![s] = c]
           /\ readfds' \subseteq readfds \cup {s}
           /\ clients' = IF clients[s] = "none"
                         THEN [clients EXCEPT ![s] = "connected"] ELSE clients
    BY <1>2 DEF Accept
  <2> QED
    BY <2>1, <2>2 DEF OnlyOpenSockets, TypeOK, FreeHandles
<1>3. CASE UNCHANGED <<clients, readfds, peer>>
  BY <1>3 DEF OnlyOpenSockets
<1> QED
  BY <1>1, <1>2, <1>3 DEF Next, Serve, vars, AccountReq, WebAckFrom, JoinRoom, LeaveRoom,
     ChatInRoom, LoopEnds, Connect, SendAccountReq, SendRoomReq, CloseClient, AuthAnswers,
     AuthDown

\* select() never gets a closed socket, whatever closes, fills up or is reused.
THEOREM SelectIsSafe == Spec => []SelectNeverFails
<1>1. Init => OnlyOpenSockets
  <2>1. AuthPeer # NoPeer
    BY ClientAssumption
  <2> QED
    BY <2>1 DEF Init, OnlyOpenSockets
<1>2. OnlyOpenSockets => SelectNeverFails
  BY DEF OnlyOpenSockets, SelectNeverFails, Watched
<1> QED
  BY <1>1, <1>2, TypeCorrect, OnlyOpenSocketsStep, PTL DEF Spec
-----------------------------------------------------------------------------
(***************************************************************************)
(* The answers of the AuthServer carry the requester's name.               *)
(***************************************************************************)
Pending == Range(toAuth) \cup Range(fromAuth)

\* A process that has not been accepted has no socket, and no request is pending for it;
\* each process has one socket and asks for accounts under its own name.
Identities ==
    /\ \A c \in Clients : \A m \in Range(toServer[c]) :
          m.type \in AccountTypes => m.name = NameOf[c]
    /\ \A s, t \in Sockets : peer[s] \in Clients /\ peer[s] = peer[t] => s = t
    /\ \A s \in Sockets : peer[s] \in Clients => peer[s] \notin backlog /\ conn[peer[s]] # "new"
    /\ \A c \in backlog : conn[c] # "new"
    /\ \A w \in Pending : w.from \notin backlog /\ conn[w.from] # "new"

AnswerInv == TypeOK /\ Identities /\ RepliesNameTheRequester

\* The elements of the queues have the types the queues have.
LEMMA PendingTypes ==
    ASSUME TypeOK
    PROVE  /\ \A w \in Pending : w.requestId \in Sockets /\ w.from \in Clients
           /\ \A c \in Clients : Range(toServer[c]) \subseteq Request
<1>1. \A S : \A q \in Seq(S) : Range(q) \subseteq S
  BY LenProperties, ElementOfSeq DEF Range
<1>2. Range(toAuth) \subseteq WebRequest /\ Range(fromAuth) \subseteq WebAck
  BY <1>1 DEF TypeOK
<1>3. \A c \in Clients : Range(toServer[c]) \subseteq Request
  BY <1>1 DEF TypeOK
<1> QED
  BY <1>2, <1>3 DEF Pending, WebRequest, WebAck

\* Steps that take messages away and leave connections and names alone keep Identities
\* and the names of the answers.
LEMMA TakingIsHarmless ==
    ASSUME AnswerInv, TypeOK',
           \A c \in Clients : Range(toServer'[c]) \subseteq Range(toServer[c]),
           Pending' \subseteq Pending,
           UNCHANGED <<peer, backlog, conn, socket2name>>
    PROVE  Identities' /\ RepliesNameTheRequester'
<1>1. Identities'
  BY DEF AnswerInv, Identities
<1>2. RepliesNameTheRequester'
  BY DEF AnswerInv, RepliesNameTheRequester, Pending
<1> QED
  BY <1>1, <1>2

LEMMA AnswerStep == AnswerInv /\ [Next]_vars => AnswerInv'
<1> SUFFICES ASSUME AnswerInv, [Next]_vars PROVE Identities' /\ RepliesNameTheRequester'
  BY TypeStep DEF AnswerInv
<1> USE DEF serverVars, netVars, clientVars, authVars
<1>0. TypeOK /\ TypeOK' /\ Identities /\ RepliesNameTheRequester
  BY TypeStep DEF AnswerInv
<1>1. ASSUME NEW s \in Sockets, AccountReq(s)
      PROVE  Identities' /\ RepliesNameTheRequester'
  <2> DEFINE m == Head(Incoming(s))
             web == [type |-> WebRequestType[m.type], requestId |-> s, name |-> m.name,
                     from |-> peer[s]]
  <2>1. Receive(s, AccountTypes)
    BY <1>1 DEF AccountReq, Remember
  <2>2. /\ peer[s] \in Clients /\ m \in Request /\ m.type \in AccountTypes
        /\ m \in Range(toServer[peer[s]])
        /\ \A c \in Clients : Range(toServer'[c]) \subseteq Range(toServer[c])
        /\ Range(fromAuth') \subseteq Range(fromAuth)
    BY <1>0, <2>1, ReceiveEffect, SenderOf
  <2>3. m.name = NameOf[peer[s]] /\ web \in WebRequest
    BY <1>0, <2>2, AccountMessage DEF Identities, AccountRequest, WebRequest
  <2>4. Range(Append(toAuth, web)) = Range(toAuth) \cup {web}
    BY <1>0, <2>3, AppendToQueue DEF TypeOK
  <2>5. Range(toAuth') \subseteq Range(toAuth) \cup {web}
    BY <1>1, <2>4 DEF AccountReq, Remember
  <2>6. /\ socket2name' = [socket2name EXCEPT ![s] = m.name]
        /\ UNCHANGED <<peer, backlog, conn>>
    BY <1>1 DEF AccountReq, Remember
  <2>7. web.requestId = s /\ web.from = peer[s]
    OBVIOUS
  <2> HIDE DEF m, web
  <2>8. Pending' \subseteq Pending \cup {web}
    BY <2>2, <2>5 DEF Pending
  <2>9. Identities'
    BY <1>0, <2>2, <2>6, <2>7, <2>8 DEF Identities
  <2>10. \A w \in Pending : peer[w.requestId] = w.from
                              => socket2name'[w.requestId] = NameOf[w.from]
    BY <1>0, <2>3, <2>6, PendingTypes DEF RepliesNameTheRequester, Pending, TypeOK
  <2>11. socket2name'[s] = NameOf[peer[s]]
    BY <1>0, <2>3, <2>6 DEF TypeOK
  <2>12. RepliesNameTheRequester'
    BY <2>6, <2>7, <2>8, <2>10, <2>11 DEF RepliesNameTheRequester, Pending
  <2> QED
    BY <2>9, <2>12
<1>2. ASSUME NEW s \in Sockets, NEW types, Receive(s, types),
             UNCHANGED <<socket2name, peer, backlog, conn, toAuth>>
      PROVE  Identities' /\ RepliesNameTheRequester'
  <2>1. /\ \A c \in Clients : Range(toServer'[c]) \subseteq Range(toServer[c])
        /\ Range(fromAuth') \subseteq Range(fromAuth)
    BY <1>0, <1>2, ReceiveEffect
  <2>2. Pending' \subseteq Pending
    BY <1>2, <2>1 DEF Pending
  <2> QED
    BY <1>0, <1>2, <2>1, <2>2, TakingIsHarmless
<1>3. ASSUME NEW s \in Sockets, Disconnect(s)
      PROVE  Identities' /\ RepliesNameTheRequester'
  <2>1. /\ peer' = [peer EXCEPT ![s] = NoPeer]
        /\ UNCHANGED <<backlog, conn, socket2name, toAuth>>
    BY <1>3 DEF Disconnect, RecvFailed, MarkDisconnected, CloseSocket
  <2>2. /\ \A c \in Clients : Range(toServer'[c]) \subseteq Range(toServer[c])
        /\ Range(fromAuth') \subseteq Range(fromAuth)
    <3>1. Range(<<>>) = {}
      BY EmptyQueue
    <3>2. \/ fromAuth' = <<>> /\ toServer' = toServer
          \/ toServer' = [toServer EXCEPT ![peer[s]] = <<>>] /\ fromAuth' = fromAuth
      BY <1>3 DEF Disconnect, RecvFailed, MarkDisconnected, CloseSocket
    <3>3. \A c \in Clients : toServer'[c] = <<>> \/ toServer'[c] = toServer[c]
      BY <1>0, <3>2 DEF TypeOK
    <3> QED
      BY <3>1, <3>2, <3>3
  <2>3. Pending' \subseteq Pending
    BY <2>1, <2>2 DEF Pending
  <2>4. \A t \in Sockets : peer'[t] \in Clients => t # s /\ peer'[t] = peer[t]
    BY <1>0, <2>1, ClientAssumption DEF TypeOK
  <2>5. Identities'
    BY <1>0, <2>1, <2>2, <2>3, <2>4 DEF Identities
  <2>6. \A w \in Pending : peer'[w.requestId] = w.from => peer[w.requestId] = w.from
    BY <1>0, <2>4, PendingTypes
  <2>7. RepliesNameTheRequester'
    BY <1>0, <2>1, <2>3, <2>6 DEF RepliesNameTheRequester, Pending
  <2> QED
    BY <2>5, <2>7
<1>4. ASSUME NEW c \in Clients, Accept(c)
      PROVE  Identities' /\ RepliesNameTheRequester'
  <2>1. PICK s \in Sockets : peer' = [peer EXCEPT ![s] = c]
    BY <1>4 DEF Accept, FreeHandles
  <2>2. /\ c \in backlog /\ backlog' = backlog \ {c}
        /\ UNCHANGED <<conn, socket2name, toServer, toAuth, fromAuth>>
    BY <1>4 DEF Accept
  <2>3. \A t \in Sockets : /\ t # s => peer'[t] = peer[t]
                           /\ peer'[s] = c
                           /\ peer[t] # c
    BY <1>0, <2>1, <2>2 DEF TypeOK, Identities
  <2>4. Pending' = Pending /\ \A w \in Pending : w.from # c
    BY <1>0, <2>2 DEF Pending, Identities
  <2>5. Identities'
    BY <1>0, <2>2, <2>3, <2>4 DEF Identities
  <2>6. \A w \in Pending : peer'[w.requestId] = w.from => peer[w.requestId] = w.from
    BY <1>0, <2>3, <2>4, PendingTypes
  <2>7. RepliesNameTheRequester'
    BY <1>0, <2>2, <2>4, <2>6 DEF RepliesNameTheRequester, Pending
  <2> QED
    BY <2>5, <2>7
<1>5. ASSUME NEW c \in Clients, Connect(c)
      PROVE  Identities' /\ RepliesNameTheRequester'
  <2>1. /\ conn[c] = "new" /\ conn' = [conn EXCEPT ![c] = "open"]
        /\ backlog' = backlog \cup {c}
        /\ UNCHANGED <<peer, socket2name, toServer, toAuth, fromAuth>>
    BY <1>5 DEF Connect
  <2>2. \A d \in Clients : conn'[d] = "new" => conn[d] = "new"
    BY <1>0, <2>1 DEF TypeOK
  <2>3. Pending' = Pending
    BY <2>1 DEF Pending
  <2>4. Identities'
    <3>1. \A s \in Sockets : peer[s] \in Clients => peer[s] # c
      BY <1>0, <2>1 DEF Identities
    <3>2. \A w \in Pending : w.from # c /\ w.from \in Clients
      BY <1>0, <2>1, PendingTypes DEF Identities
    <3>3. conn'[c] # "new" /\ backlog \subseteq Clients
      BY <1>0, <2>1 DEF TypeOK
    <3> QED
      BY <1>0, <2>1, <2>2, <2>3, <3>1, <3>2, <3>3 DEF Identities
  <2>5. RepliesNameTheRequester'
    BY <1>0, <2>1, <2>3 DEF RepliesNameTheRequester, Pending
  <2> QED
    BY <2>4, <2>5
<1>6. ASSUME NEW c \in Clients, CloseClient(c)
      PROVE  Identities' /\ RepliesNameTheRequester'
  <2>1. /\ conn' = [conn EXCEPT ![c] = "closed"]
        /\ UNCHANGED <<peer, backlog, socket2name, toServer, toAuth, fromAuth>>
    BY <1>6 DEF CloseClient
  <2>2. \A d \in Clients : conn'[d] = "new" => conn[d] = "new"
    BY <1>0, <2>1 DEF TypeOK
  <2>3. Pending' = Pending /\ backlog \subseteq Clients
    BY <1>0, <2>1 DEF Pending, TypeOK
  <2>4. Identities'
    BY <1>0, <2>1, <2>2, <2>3, PendingTypes DEF Identities
  <2>5. RepliesNameTheRequester'
    BY <1>0, <2>1, <2>3 DEF RepliesNameTheRequester, Pending
  <2> QED
    BY <2>4, <2>5
<1>7. ASSUME NEW c \in Clients, NEW m \in Request,
             toServer' = [toServer EXCEPT ![c] = Append(toServer[c], m)],
             m.type \in AccountTypes => m.name = NameOf[c],
             UNCHANGED <<peer, backlog, conn, socket2name, toAuth, fromAuth>>
      PROVE  Identities' /\ RepliesNameTheRequester'
  <2>1. Range(Append(toServer[c], m)) = Range(toServer[c]) \cup {m}
    BY <1>0, AppendToQueue DEF TypeOK
  <2>2. \A d \in Clients : \A n \in Range(toServer'[d]) :
           n \in Range(toServer[d]) \/ (d = c /\ n = m)
    BY <1>0, <1>7, <2>1 DEF TypeOK
  <2>3. Pending' = Pending
    BY <1>7 DEF Pending
  <2>4. Identities'
    BY <1>0, <1>7, <2>2, <2>3 DEF Identities
  <2>5. RepliesNameTheRequester'
    BY <1>0, <1>7, <2>3 DEF RepliesNameTheRequester, Pending
  <2> QED
    BY <2>4, <2>5
<1>8. ASSUME NEW c \in Clients, NEW t \in RequestTypes, SendAccountReq(c, t)
      PROVE  Identities' /\ RepliesNameTheRequester'
  <2>1. [type |-> t, name |-> NameOf[c]] \in Request
    BY <1>8 DEF SendAccountReq, Request, AccountRequest, Names
  <2> QED
    BY <1>7, <1>8, <2>1 DEF SendAccountReq
<1>9. ASSUME NEW c \in Clients, NEW t \in RequestTypes, NEW r \in RoomNames,
             SendRoomReq(c, t, r)
      PROVE  Identities' /\ RepliesNameTheRequester'
  <2> DEFINE m == [type |-> t, name |-> myName[c], room |-> r]
  <2>1. m \in Request /\ m.type \notin AccountTypes
    BY <1>0, <1>9 DEF SendRoomReq, Request, RoomRequest, TypeOK, AccountTypes, RoomTypes
  <2> QED
    BY <1>7, <1>9, <2>1 DEF SendRoomReq
<1>10. CASE AuthAnswers
  <2> DEFINE req == Head(toAuth)
  <2>1. PICK n \in 1..MaxBurst : toAuth' = SubSeq(toAuth, n + 1, Len(toAuth))
    BY <1>10 DEF AuthAnswers
  <2>2. n \in Nat /\ n >= 1
    BY SocketAssumption
  <2>3. Range(toAuth') \subseteq Range(toAuth)
    BY <1>0, <2>1, <2>2, SuffixOfQueue DEF TypeOK
  <2>4. req \in WebRequest /\ req \in Range(toAuth)
    BY <1>0, <1>10, HeadOfQueue DEF AuthAnswers, TypeOK
  <2>5. PICK t \in WebAckTypes :
           fromAuth' = IF peer[AuthHandle] = AuthPeer
                       THEN Append(fromAuth, [type |-> t, requestId |-> req.requestId,
                                              from |-> req.from])
                       ELSE fromAuth
    BY <1>10 DEF AuthAnswers, WebAckTypes
  <2> DEFINE ack == [type |-> t, requestId |-> req.requestId, from |-> req.from]
  <2>6. ack \in WebAck
    BY <2>4 DEF WebAck, WebRequest
  <2>7. Range(Append(fromAuth, ack)) = Range(fromAuth) \cup {ack}
    BY <1>0, <2>6, AppendToQueue DEF TypeOK
  <2>8. Range(fromAuth') \subseteq Range(fromAuth) \cup {ack}
    BY <2>5, <2>7
  <2>9. req.requestId = ack.requestId /\ req.from = ack.from
    OBVIOUS
  <2> HIDE DEF ack, req
  <2>10. UNCHANGED <<peer, backlog, conn, socket2name, toServer>>
    BY <1>10 DEF AuthAnswers
  <2>11. Pending' \subseteq Pending \cup {ack} /\ req \in Pending
    BY <2>3, <2>4, <2>8 DEF Pending
  <2>12. Identities'
    BY <1>0, <2>9, <2>10, <2>11 DEF Identities
  <2>13. RepliesNameTheRequester'
    BY <1>0, <2>9, <2>10, <2>11 DEF RepliesNameTheRequester, Pending
  <2> QED
    BY <2>12, <2>13
<1>11. CASE AuthDown
  <2>1. Pending' \subseteq Pending
    BY <1>11, EmptyQueue DEF AuthDown, Pending
  <2>2. UNCHANGED <<peer, backlog, conn, socket2name, toServer>>
    BY <1>11 DEF AuthDown
  <2> QED
    BY <1>0, <2>1, <2>2, TakingIsHarmless
<1>12. CASE UNCHANGED <<peer, backlog, conn, socket2name, toServer, toAuth, fromAuth>>
  BY <1>0, <1>12, TakingIsHarmless DEF Pending
<1>13. ASSUME NEW s \in Sockets, Serve(s)
       PROVE  Identities' /\ RepliesNameTheRequester'
  BY <1>1, <1>2, <1>3, <1>13 DEF Serve, WebAckFrom, JoinRoom, LeaveRoom, ChatInRoom
<1>14. CASE LoopEnds \/ UNCHANGED vars
  BY <1>12, <1>14 DEF LoopEnds, vars
<1> QED
  BY <1>4, <1>5, <1>6, <1>8, <1>9, <1>10, <1>11, <1>13, <1>14 DEF Next

\* Initially nobody is connected and nothing is pending.
LEMMA AnswerInit == Init => Identities /\ RepliesNameTheRequester
<1> SUFFICES ASSUME Init PROVE Identities /\ RepliesNameTheRequester
  OBVIOUS
<1>1. Pending = {} /\ \A c \in Clients : Range(toServer[c]) = {}
  BY EmptyQueue DEF Init, Pending
<1>2. \A s \in Sockets : peer[s] \notin Clients
  BY ClientAssumption DEF Init
<1> QED
  BY <1>1, <1>2 DEF Init, Identities, RepliesNameTheRequester, Pending

\* A client that is still connected when an answer to its account request is on its way
\* will be answered under its own name, even if handles of closed sockets are reused.
THEOREM AnswersNameTheRequester == Spec => []RepliesNameTheRequester
<1>1. Spec => []AnswerInv
  <2>1. Init => Identities /\ RepliesNameTheRequester
    BY AnswerInit
  <2>2. TypeOK /\ Identities /\ RepliesNameTheRequester /\ [Next]_vars
            => Identities' /\ RepliesNameTheRequester'
    BY AnswerStep DEF AnswerInv
  <2>3. AnswerInv <=> TypeOK /\ Identities /\ RepliesNameTheRequester
    BY DEF AnswerInv
  <2> QED
    BY <2>1, <2>2, <2>3, TypeCorrect, PTL DEF Spec
<1> QED
  BY <1>1, PTL DEF AnswerInv
=============================================================================
