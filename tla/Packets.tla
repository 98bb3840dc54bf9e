------------------------------- MODULE Packets --------------------------------
(***************************************************************************)
(* The packets of Shared/message.h: how each message is laid out in the    *)
(* send buffer of the process that constructs it, and which fields the     *)
(* handler that receives it reads.  The two servers exchange the messages  *)
(* of WebMessages behind the same header.                                  *)
(***************************************************************************)
EXTENDS Buffer, WebMessages

\* enum MessageType, in order.
MessageTypes ==
    <<"CREATE_ACCOUNT_REQ", "CREATE_ACCOUNT_SUCCESS_ACK", "CREATE_ACCOUNT_FAILURE_ACK",
      "CREATE_ACCOUNT_WEB_REQ", "CREATE_ACCOUNT_WEB_SUCCESS_ACK",
      "CREATE_ACCOUNT_WEB_FAILURE_ACK",
      "AUTHENTICATE_ACCOUNT_REQ", "AUTHENTICATE_ACCOUNT_SUCCESS_ACK",
      "AUTHENTICATE_ACCOUNT_FAILURE_ACK",
      "AUTHENTICATE_ACCOUNT_WEB_REQ", "AUTHENTICATE_ACCOUNT_WEB_SUCCESS_ACK",
      "AUTHENTICATE_ACCOUNT_WEB_FAILURE_ACK",
      "JOIN_ROOM_REQ", "JOIN_ROOM_ACK", "JOIN_ROOM_NTF",
      "LEAVE_ROOM_REQ", "LEAVE_ROOM_ACK", "LEAVE_ROOM_NTF",
      "CHAT_IN_ROOM_REQ", "CHAT_IN_ROOM_ACK", "CHAT_IN_ROOM_NTF">>

\* Mutated form of FirstType: the enum starts with 1.
FirstTypeOne == 1

FirstType == 1001

TypeNumber(type) ==
    FirstType - 1 + CHOOSE i \in DOMAIN MessageTypes : MessageTypes[i] = type

\* static_cast<MessageType>: any number may come.
TypeOf(number) ==
    IF number - FirstType + 1 \in DOMAIN MessageTypes
    THEN MessageTypes[number - FirstType + 1] ELSE "unknown"

SUCCESS == BitsOf(200)
FAILURE == BitsOf(400)

(***************************************************************************)
(* The fields.  A message is a record of its type and its values.          *)
(***************************************************************************)
\* How a field is written: an integer of so many bytes, a string behind its length, or a
\* list: its length, the lengths of the strings, the strings.
IntSize == [status |-> 2, reason |-> 2, userId |-> 8]
Lists == {"users", "rooms"}

\* The order in which each Serialize() writes.
WrittenFields ==
    [CREATE_ACCOUNT_REQ |-> <<"name", "password">>,
     CREATE_ACCOUNT_SUCCESS_ACK |-> <<"name", "userId">>,
     CREATE_ACCOUNT_FAILURE_ACK |-> <<"reason", "name">>,
     AUTHENTICATE_ACCOUNT_REQ |-> <<"name", "password">>,
     AUTHENTICATE_ACCOUNT_SUCCESS_ACK |-> <<"name", "rooms">>,
     AUTHENTICATE_ACCOUNT_FAILURE_ACK |-> <<"reason", "name">>,
     JOIN_ROOM_REQ |-> <<"name", "room">>,
     JOIN_ROOM_ACK |-> <<"status", "room", "users">>,
     JOIN_ROOM_NTF |-> <<"room", "name">>,
     LEAVE_ROOM_REQ |-> <<"room", "name">>,
     LEAVE_ROOM_ACK |-> <<"status", "room", "name">>,
     LEAVE_ROOM_NTF |-> <<"room", "name">>,
     CHAT_IN_ROOM_REQ |-> <<"room", "name", "chat">>,
     CHAT_IN_ROOM_ACK |-> <<"status", "room", "name">>,
     CHAT_IN_ROOM_NTF |-> <<"room", "name", "chat">>]

\* Mutated form of ServerReads: joining is read in the order of the other room requests.
ServerReadsRoomFirst ==
    [CREATE_ACCOUNT_REQ |-> <<"name", "password">>,
     AUTHENTICATE_ACCOUNT_REQ |-> <<"name", "password">>,
     JOIN_ROOM_REQ |-> <<"room", "name">>,
     LEAVE_ROOM_REQ |-> <<"room", "name">>,
     CHAT_IN_ROOM_REQ |-> <<"room", "name", "chat">>]

\* The order in which the cases of ChatServer::HandleMessage() read.
ServerReads ==
    [CREATE_ACCOUNT_REQ |-> <<"name", "password">>,
     AUTHENTICATE_ACCOUNT_REQ |-> <<"name", "password">>,
     JOIN_ROOM_REQ |-> <<"name", "room">>,
     LEAVE_ROOM_REQ |-> <<"room", "name">>,
     CHAT_IN_ROOM_REQ |-> <<"room", "name", "chat">>]

\* The order in which the cases of ChatClient::HandleMessage() read.
ClientReads ==
    [CREATE_ACCOUNT_SUCCESS_ACK |-> <<"name", "userId">>,
     CREATE_ACCOUNT_FAILURE_ACK |-> <<"reason", "name">>,
     AUTHENTICATE_ACCOUNT_SUCCESS_ACK |-> <<"name", "rooms">>,
     AUTHENTICATE_ACCOUNT_FAILURE_ACK |-> <<"reason", "name">>,
     JOIN_ROOM_ACK |-> <<"status", "room", "users">>,
     JOIN_ROOM_NTF |-> <<"room", "name">>,
     LEAVE_ROOM_ACK |-> <<"status", "room", "name">>,
     LEAVE_ROOM_NTF |-> <<"room", "name">>,
     CHAT_IN_ROOM_ACK |-> <<"status", "room", "name">>,
     CHAT_IN_ROOM_NTF |-> <<"room", "name", "chat">>]

\* The class a server parses the payload of each message between the servers with.
WebClass ==
    [CREATE_ACCOUNT_WEB_REQ |-> CreateAccountWeb,
     CREATE_ACCOUNT_WEB_SUCCESS_ACK |-> CreateAccountWebSuccess,
     CREATE_ACCOUNT_WEB_FAILURE_ACK |-> CreateAccountWebFailure,
     AUTHENTICATE_ACCOUNT_WEB_REQ |-> AuthenticateWeb,
     AUTHENTICATE_ACCOUNT_WEB_SUCCESS_ACK |-> AuthenticateWebSuccess,
     AUTHENTICATE_ACCOUNT_WEB_FAILURE_ACK |-> AuthenticateWebFailure]

IsWeb(type) == type \in DOMAIN WebClass
-----------------------------------------------------------------------------
(***************************************************************************)
(* Sending.                                                                *)
(***************************************************************************)
AddLength(sum, str) == sum + Len(str)

\* The part of a packet's size a field is given in the constructor of its message.
SizeGiven(field, value) ==
    IF field \in DOMAIN IntSize THEN IntSize[field]
    ELSE IF field \in Lists
    THEN 4 + 4 * Len(value) + FoldLeft(AddLength, 0, value)
    ELSE 4 + Len(value)

\* Mutated form of PacketSize: the two bytes of a status are forgotten.
PacketSizeWithoutStatus(msg) ==
    8 + (IF IsWeb(msg.type) THEN ByteSize(WebClass[msg.type], msg.values)
         ELSE SumFunction([f \in DOMAIN msg.values \ {"status"} |->
                             SizeGiven(f, msg.values[f])]))

\* header.packetSize.
PacketSize(msg) ==
    8 + (IF IsWeb(msg.type) THEN ByteSize(WebClass[msg.type], msg.values)
         ELSE SumFunction([f \in DOMAIN msg.values |-> SizeGiven(f, msg.values[f])]))

\* Message::Serialize().
WriteHeader(buf, msg) ==
    WriteUInt(WriteUInt(Reset(buf), BitsOf(PacketSize(msg)), 4), BitsOf(TypeNumber(msg.type)), 4)

WriteLength(buf, str) == WriteUInt(buf, BitsOf(Len(str)), 4)

WriteField(buf, field) ==
    IF field.name \in DOMAIN IntSize THEN WriteUInt(buf, field.value, IntSize[field.name])
    ELSE IF field.name \in Lists
    THEN FoldLeft(WriteString,
                  FoldLeft(WriteLength, WriteLength(buf, field.value), field.value),
                  field.value)
    ELSE WriteString(WriteLength(buf, field.value), field.value)

\* The values of a message in the order they are written.
FieldsOf(msg) ==
    [k \in DOMAIN WrittenFields[msg.type] |->
        [name |-> WrittenFields[msg.type][k], value |-> msg.values[WrittenFields[msg.type][k]]]]

\* SerializeToArray() at Data() + headerSize: the buffer does not grow, and its index
\* stays behind the header.
WritePayload(buf, msg) ==
    Store(buf, SerializeWeb(WebClass[msg.type], msg.values))

\* The send buffer after Serialize(), or after one of the functions that send to the
\* other server has written its message.
Serialized(buf, msg) ==
    IF IsWeb(msg.type) THEN WritePayload(WriteHeader(buf, msg), msg)
    ELSE FoldLeft(WriteField, WriteHeader(buf, msg), FieldsOf(msg))

\* How far into the buffer that has written.
WrittenUpTo(buf, msg) ==
    IF IsWeb(msg.type) THEN 8 + Len(SerializeWeb(WebClass[msg.type], msg.values))
    ELSE buf.writeIndex
-----------------------------------------------------------------------------
(***************************************************************************)
(* Receiving: the values a handler may read, with the buffer behind them.  *)
(***************************************************************************)
ReadInt(buf, size) ==
    {[value |-> v, buf |-> Skip(buf, size)] : v \in UIntsAt(buf, size)}

\* A length is an unsigned integer of 4 bytes, for which there is one decoding.
LengthAt(buf) == Number(DecodeUInt32(Unread(buf, 4)))

ReadText(buf) ==
    LET length == LengthAt(buf)
        chars == Skip(buf, 4)
    IN  [value |-> StringAt(chars, length), buf |-> Skip(chars, length)]

\* One more string of a list, of which the length has been read before.
ReadNext(read, length) ==
    [value |-> Append(read.value, StringAt(read.buf, length)), buf |-> Skip(read.buf, length)]

ReadList(buf) ==
    LET count == LengthAt(buf)
        lengths == [i \in 1..count |-> LengthAt(Skip(buf, 4 * i))]
    IN  FoldLeft(ReadNext, [value |-> <<>>, buf |-> Skip(buf, 4 * (count + 1))], lengths)

ReadField(buf, field) ==
    IF field \in DOMAIN IntSize THEN ReadInt(buf, IntSize[field])
    ELSE IF field \in Lists THEN {ReadList(buf)}
    ELSE {ReadText(buf)}

\* An answer that is not a success is not read any further than its status.
GoesOn(read) == "status" \in DOMAIN read.values => read.values.status = SUCCESS

\* The local variables of a handler, once one more of them has its value.
WithField(values, field, value) ==
    [f \in {field} \cup DOMAIN values |-> IF f = field THEN value ELSE values[f]]

\* What a handler may have read once it has read one more field.
ReadFurther(reads, field) ==
    UNION {IF GoesOn(r)
           THEN {[values |-> WithField(r.values, field, v.value), buf |-> v.buf] :
                    v \in ReadField(r.buf, field)}
           ELSE {r} : r \in reads}

ReadFields(buf, fields) == FoldLeft(ReadFurther, {[values |-> <<>>, buf |-> buf]}, fields)
=============================================================================
