----------------------------- MODULE PacketStream -----------------------------
(***************************************************************************)
(* One direction of one connection: a process serializes messages into its *)
(* send buffer and sends them; the stream is cut anywhere and any number   *)
(* of bytes that have arrived, at most RecvSize, are returned by a recv(). *)
(* The receiver takes what it gets for one packet and pads it with zeros.  *)
(***************************************************************************)
EXTENDS Packets

CONSTANTS
    RecvSize,       \* kRECV_BUF_SIZE, and kSEND_BUF_SIZE: both are 512
    Links,          \* the kinds of connection, of "C2S", "S2C", "S2A", "A2S"
    Names,          \* user names
    Passwords,
    RoomNames,
    Chats,
    UserLists,      \* the members of a room, in order
    RoomLists,      \* m_RoomNames
    UserIds,        \* as sets of bits
    Reasons,        \* why an account request failed, as sets of bits
    SocketValues,   \* the values of SOCKETs, as sets of bits
    NoMessage,      \* nothing was sent, or nothing was handled
    MaxPackets      \* bound: packets sent

ASSUME StreamAssumption ==
    /\ RecvSize \in Nat /\ RecvSize >= 8 /\ MaxPackets \in Nat
    /\ Links \subseteq {"C2S", "S2C", "S2A", "A2S"}
    /\ Names \cup Passwords \cup RoomNames \cup Chats \subseteq Seq(Byte)
    /\ UserLists \cup RoomLists \subseteq Seq(Seq(Byte))
    /\ UserIds \cup SocketValues \subseteq Bits(64)
    /\ Reasons \subseteq Bits(16)

Msg(types, values) == {[type |-> t, values |-> v] : t \in types, v \in values}

ClientMessages ==
    Msg({"CREATE_ACCOUNT_REQ", "AUTHENTICATE_ACCOUNT_REQ"}, [name : Names, password : Passwords])
    \cup Msg({"JOIN_ROOM_REQ", "LEAVE_ROOM_REQ"}, [name : Names, room : RoomNames])
    \cup Msg({"CHAT_IN_ROOM_REQ"}, [room : RoomNames, name : Names, chat : Chats])

\* A room that does not exist has no members; AckChatInRoom() always says success.
ServerMessages ==
    Msg({"CREATE_ACCOUNT_SUCCESS_ACK"}, [name : Names, userId : UserIds])
    \cup Msg({"CREATE_ACCOUNT_FAILURE_ACK", "AUTHENTICATE_ACCOUNT_FAILURE_ACK"},
             [reason : Reasons, name : Names])
    \cup Msg({"AUTHENTICATE_ACCOUNT_SUCCESS_ACK"}, [name : Names, rooms : RoomLists])
    \cup Msg({"JOIN_ROOM_ACK"}, [status : {SUCCESS}, room : RoomNames, users : UserLists])
    \cup Msg({"JOIN_ROOM_ACK"}, [status : {FAILURE}, room : RoomNames, users : {<<>>}])
    \cup Msg({"LEAVE_ROOM_ACK"},
             [status : {SUCCESS, FAILURE}, room : RoomNames, name : Names])
    \cup Msg({"CHAT_IN_ROOM_ACK"}, [status : {SUCCESS}, room : RoomNames, name : Names])
    \cup Msg({"JOIN_ROOM_NTF", "LEAVE_ROOM_NTF"}, [room : RoomNames, name : Names])
    \cup Msg({"CHAT_IN_ROOM_NTF"}, [room : RoomNames, name : Names, chat : Chats])

\* Names and passwords come out of packets of clients that the server could receive.
WebRequests ==
    {m \in Msg({"CREATE_ACCOUNT_WEB_REQ", "AUTHENTICATE_ACCOUNT_WEB_REQ"},
               [requestId : SocketValues, email : Names, plaintextPassword : Passwords]) :
        16 + Len(m.values.email) + Len(m.values.plaintextPassword) <= RecvSize}

WebAnswers ==
    Msg({"CREATE_ACCOUNT_WEB_SUCCESS_ACK", "AUTHENTICATE_ACCOUNT_WEB_SUCCESS_ACK"},
        [requestId : SocketValues, userId : UserIds])
    \cup Msg({"CREATE_ACCOUNT_WEB_FAILURE_ACK", "AUTHENTICATE_ACCOUNT_WEB_FAILURE_ACK"},
             [requestId : SocketValues, reason : Reasons])

Messages(kind) == CASE kind = "C2S" -> ClientMessages
                    [] kind = "S2C" -> ServerMessages
                    [] kind = "S2A" -> WebRequests
                    [] kind = "A2S" -> WebAnswers

VARIABLES
    link,       \* which kind of connection this is
    sendBuf,    \* m_SendBuf of the sender
    packets,    \* how many packets were sent
    sent,       \* history: the message sent by this step
    flight,     \* the bytes not received yet: each with its message and its place in it
    chunk,      \* history: the packet this step's recv() begins in, whether it begins at
                \* its start and whether it reaches its end
    handled     \* history: what HandleMessage() made of that

vars == <<link, sendBuf, packets, sent, flight, chunk, handled>>

Nothing == [type |-> "none", values |-> <<>>, inside |-> TRUE]

Init ==
    /\ link \in Links
    /\ sendBuf = NewBuffer(RecvSize)
    /\ packets = 0
    /\ sent = NoMessage
    /\ flight = <<>>
    /\ chunk = NoMessage
    /\ handled = Nothing

\* SendRequest(), SendMsg(), SendResponse(): packetSize bytes from the start of the buffer.
Send(msg) ==
    /\ packets < MaxPackets
    /\ packets' = packets + 1
    /\ sendBuf' = Serialized(sendBuf, msg)
    /\ sent' = msg
    /\ flight' = flight \o [i \in 1..PacketSize(msg) |->
                               [msg |-> msg, at |-> i, byte |-> sendBuf'.data[i]]]
    /\ chunk' = NoMessage /\ handled' = Nothing
    /\ UNCHANGED link

\* The cases of the receiver's switch.
WebRequestTypes == {"CREATE_ACCOUNT_WEB_REQ", "AUTHENTICATE_ACCOUNT_WEB_REQ"}
Cases(kind) == CASE kind = "S2C" -> DOMAIN ClientReads
                 [] kind = "S2A" -> WebRequestTypes
                 [] OTHER -> DOMAIN ServerReads \cup (DOMAIN WebClass \ WebRequestTypes)

\* What a parser is given: the AuthServer computes the size of the payload from that of
\* the packet, the chat server takes all that is left of its buffer.
Payload(kind, buf, size) ==
    SubSeq(buf.data, 9, IF kind = "S2A" THEN size ELSE Len(buf.data))

\* HandleMessage(): what it may read.
Handling(kind, buf, size, type) ==
    IF IsWeb(type)
    THEN {[type |-> type, values |-> WebFields(WebClass[type], Payload(kind, buf, size)),
           inside |-> TRUE]}
    ELSE LET fields == IF kind = "S2C" THEN ClientReads[type] ELSE ServerReads[type]
         IN  {[type |-> type, values |-> r.values,
               inside |-> r.buf.readIndex <= Len(r.buf.data)] :
                 r \in ReadFields(Skip(buf, 8), fields)}

\* Mutated form of Dispatched: there is no size check.
DispatchedUnchecked(kind, raw) ==
    LET buf == Loaded(raw)
        type == TypeOf(LengthAt(Skip(buf, 4)))
    IN  IF type \in Cases(kind) THEN Handling(kind, buf, LengthAt(buf), type) ELSE {Nothing}

\* The size check compares with the size of the buffer, which is always RecvSize, and not
\* with the number of bytes received.
Dispatched(kind, raw) ==
    LET buf == Loaded(raw)
        size == LengthAt(buf)
        type == TypeOf(LengthAt(Skip(buf, 4)))
    IN  IF size <= RecvSize /\ type \in Cases(kind)
        THEN Handling(kind, buf, size, type) ELSE {Nothing}

\* The receive buffer after a recv() of n bytes: it has been cleared before.
Received(n) == [i \in 1..RecvSize |-> IF i <= n THEN flight[i].byte ELSE {}]

\* RunLoop(), RecvResponse(): a recv() of n bytes.
Recv(n) ==
    /\ n <= Len(flight)
    /\ flight' = SubSeq(flight, n + 1, Len(flight))
    /\ chunk' = [packet |-> flight[1].msg, atStart |-> flight[1].at = 1,
                 whole |-> flight[1].at + n > PacketSize(flight[1].msg)]
    /\ handled' \in Dispatched(link, Received(n))
    /\ sent' = NoMessage
    /\ UNCHANGED <<link, sendBuf, packets>>

Next ==
    \/ \E msg \in Messages(link) : Send(msg)
    \/ \E n \in 1..RecvSize : Recv(n)

Spec == Init /\ [][Next]_vars
-----------------------------------------------------------------------------
\* No message is written past the end of the send buffer: the integer writes grow it by
\* one step only, and the messages for the other server do not grow it at all.
WritesStayInside == sendBuf.inside

\* The size in the header, which the constructor adds up, and ByteSizeLong() before the
\* payload is written, is the number of bytes written.
PacketSizesAreExact == sent # NoMessage => WrittenUpTo(sendBuf, sent) = PacketSize(sent)

\* A packet that a recv() returns whole and from its start is handled with the values
\* that were sent, whatever was in either buffer before and whatever follows it in the
\* same recv(): for the answers of the AuthServer, the packets that follow are parsed too.
WholePacketsAreRead ==
    chunk # NoMessage /\ chunk.atStart /\ chunk.whole =>
        /\ handled.type = chunk.packet.type
        /\ \A f \in DOMAIN chunk.packet.values :
              IF f \in DOMAIN handled.values
              THEN handled.values[f] = chunk.packet.values[f]
              ELSE chunk.packet.values.status = FAILURE

\* Bytes from the middle of a packet are never taken for a message: not when a packet was
\* cut, and not when the first part of one longer than the buffer was dropped.
OnlyPacketStartsAreHandled ==
    handled.type # "none" => chunk.atStart /\ handled.type = chunk.packet.type

\* A packet of which only a part has arrived is handled with zeros for the rest, and with
\* lengths that may be part of that: still nothing is read behind the buffer.
ReadsStayInside == handled.inside
=============================================================================
