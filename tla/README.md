# A verification project for the chat room with an authentication service

TLA+ models of the chat room of this repository (`ChatServer`, `AuthServer`, `ChatClient` and
the code they share), checked with TLC on small instances, and theorems about the models
proved with TLAPS for all instances.

## 1. The system

Three Windows programs that talk over TCP.

    ChatClient --(buffers, Shared/message.cpp)--> ChatServer --(Protobuf)--> AuthServer --> MySQL

| Part | Where | State | Operations |
|---|---|---|---|
| ChatServer | `ChatServer/server.cpp` | listening socket and the socket to the AuthServer, `clients` (SOCKET -> connected), `readfds`, user name <-> SOCKET maps, members of the four rooms, one send and one receive buffer | select loop: accept, receive, dispatch, close; account requests forwarded; answers of the AuthServer passed on; join, leave, chat with broadcasts |
| AuthServer | `AuthServer/server.cpp` | the same kind of loop over the chat servers' sockets | create account, authenticate; one request at a time from the first byte to the answer |
| DBHandler | `AuthServer/db_handler.cpp`, `mysqlutil.cpp` | tables `user` and `web_auth` | the checks and SQL statements of both requests |
| ChatClient | `ChatClient/client.cpp`, `client_main.cpp` | user name, joined rooms and who is in them; a receiving thread and a key loop | five requests; eleven messages to handle |
| Buffer | `Shared/buffer.cpp` | bytes, a write and a read index | write and read integers and strings, grow, `Set()`, `Reset()` |
| Messages | `Shared/message.cpp` | - | layout and size of each packet |
| Web messages | `Shared/auth.proto`, `auth.pb.cc` | - | size, serializing and parsing of six Protobuf classes |
| Startup, shutdown | the constructors, `Initialize()`, `Shutdown()` | sockets, addrinfos, WSAStartup count | a dozen Winsock and database calls with their error paths |

How they interact:

- The client sends requests as packets and does not wait for the answers. The chat server
  forwards an account request with the client's SOCKET as the request id and goes on; the
  answer of the AuthServer carries that number back, and the server looks up which user
  name the socket has *now*.
- Room requests are answered at once, then broadcast to the members, found by name in a map
  that the last account request of that name has filled.
- Both servers are single-threaded; a broadcast, or a create request with its four SQL
  statements, is not interrupted by another message. Between two messages everything may
  have changed: clients have gone, their handles have been given to others.
- `recv()` returns what has arrived, up to 512 bytes. All three programs handle the first
  packet in it and clear the rest.
- A `send()` that fails calls `WSACleanup()`, in a process that has called `WSAStartup()`
  twice (chat server) or once (AuthServer; the MySQL connector may do it a second time).
- A client has two threads, one that sends and one that receives, and no lock between them.

What is hard here: requests in flight across disconnects and reused handles, packets that
arrive together or in parts, partial broadcasts, statements with a crash in between, integers
that are narrower than what they hold, initialization that fails half-way and is ignored.
`PROJECT.json` lists each place under `hazards`, with the properties that cover it.

What makes the parts correct:

- ChatServer: an answer goes to the one who asked and names the right user; notifications
  go to members and reach them; `select()` never gets a dead socket; nobody is starved; a
  leaving client costs the others nothing; requests are answered.
- AuthServer and DBHandler: one account per email, one user id per account, no answer
  that the tables do not bear out, at most one half-done account for every crash.
- ChatClient: it shows the rooms it is in, and in each of them those who are there.
- Buffer and messages: the size in a header is what was written, what arrives whole is read
  back, no access outside, nothing but the start of a packet is taken for a packet.
- Startup and shutdown: only a process that has got what it needs goes on; nothing is freed
  twice; what can come up comes up; what is asked to end ends.

## 2. Modules

| Module | Models | Checked by | Proved in |
|---|---|---|---|
| `ChatServer` | the chat server, with clients, AuthServer and Winsock as its environment | `MCChatServer`, `ChatRooms`, `ChatReuse`, `ChatStarved`, `ChatStrayAck`, `ChatLostRequest`, `ChatUnknownRoom` | `ChatServerProofs`, `ChatServerPeersProofs` |
| `ChatClient` | what a client makes of the server's messages, as operators on its view | in `ChatSystem` | `ChatSystemProofs` |
| `ChatSystem` | `ChatServer` composed with the receiving side of its clients | `MCChatSystem`, `ChatViews`, `ChatStaleUsers` | `ChatSystemProofs` |
| `AccountStore` | abstract: what the AuthServer promises | as a property of `AuthServer` | |
| `AuthServer` | the AuthServer with its database, statement by statement | `MCAuthServer`, `AuthAccounts`, `AuthRefines` | `AuthServerProofs` |
| `Codec` | integers to bytes and back, as sets of bits | in `PacketStream` | `CodecProofs` |
| `Buffer` | the buffer as a data type | in `PacketStream` | `PacketStreamProofs` |
| `WebMessages` | Protobuf: sizes, wire format, parser | in `PacketStream` | `PacketStreamProofs` |
| `Packets` | the layout of every message, written and read | in `PacketStream` | `PacketStreamProofs` |
| `PacketStream` | one direction of one connection: send buffer, byte stream, receives | `MCPacketStream`, `Packets.cfg` | `PacketStreamProofs` |
| `ServiceLifecycle` | how processes of all three programs come up and go down | `MCServiceLifecycle`, `Startup` | `ServiceLifecycleProofs` |

`Folding` has no model in it: it proves what folds, sums and concatenations of the community
modules compute, which `ChatSystemProofs` needs for a client that handles its inbox and
`PacketStreamProofs` for the fields of a message.

A definition with a comment "Mutated form of X" is not part of a model: it is X with a
plausible mistake, and putting it in the place of X makes the property named in
`PROJECT.json` fail.

### ChatServer

One action per group of cases of `HandleMessage()`; each includes the receive that leads to
it, the changes of the maps and all its sends.

| Variable | Code |
|---|---|
| `clients` | `m_ChatConn.clients`: "none" (no entry), "connected" (true), "disconnected" (false) |
| `readfds` | `m_ChatConn.readfds`, less the listening socket, which never leaves it |
| `name2socket`, `socket2name`, `rooms` | the three maps of the server cache |
| `wsa`, `running` | the WSAStartup count, and whether `RunLoop()` has not returned |
| `peer` | who is at the other end of each handle; `NoPeer` when closed |
| `backlog`, `toServer`, `toAuth`, `fromAuth` | connections and packets on their way |
| `conn`, `myName`, `sent` | the clients |
| `out`, `owed` | history: what the last step delivered, and the requests not yet answered |

- `Watched` is the copy of `readfds` with the `clients` added, up to `FdSetSize`, in the
  order of the handles. A socket may thus be watched because of either.
- `Receive` takes up to `MaxBurst` packets and keeps the first. `MaxBurst = 1` is the case
  in which packets always arrive apart.
- `Transmit` is all sends of a handler. A send to a closed handle fails; one to a peer that
  has gone may fail or be lost; each failure is a `WSACleanup()`. After the last of them the
  handler goes on, and nothing it sends arrives: the model leaves open how many of the
  members had been reached, because the set of members has an order of its own.
- `ReuseHandles` says whether `accept()` may return a value that was closed before. Windows
  does that. Runs of properties that hold only without it say so by having it `FALSE`, and
  theorems by having `~ReuseHandles` as a hypothesis; the others hold with and without it.
- A client is one run of the program: one name, one connection. Running the program twice
  for the same user is two clients with the same name. A client that has not sent an
  account request uses the empty name, as the code does.

### ChatClient, ChatSystem

`HandleResponse(view, message)` is the client's `HandleMessage()`: `joined` is
`m_JoinedRoomNames`, `members` is `m_JoinedRoomMap`, whose entries outlive a leave, and `left`
is history. `ChatSystem` starts when every client has logged in and the AuthServer has ended,
which leaves the rooms alone and the state space small; then the actions are those of
`ChatServer`, what a step delivers (`out`) is appended to an inbox per client, and
`RecvResponse` takes the first packet of up to `ClientBurst`. The properties speak of the
view a client will have when it has handled its inbox (`Upcoming`).

### AuthServer

`Receive` takes a request, makes the check of the password and reads `web_auth`; `InsertUser`,
`InsertWebAuth` are the two INSERTs, each committed by itself, and `Answer` the send.
`Crash` may come between any two of them and stands for a killed process and for an
`SQLException`, which nobody catches. `MAX(id)` is read in `InsertWebAuth`: nothing can come
between it and the INSERT but a crash, which has the same effect before and after a read.
The ids of `user` are 1 to `maxUserId`: AUTO_INCREMENT never goes back, no code deletes.
`Key` is what the collation of `web_auth` makes equal. The hash of a password is the password.
`winsock` starts at 1 or 2: whether the connector calls `WSAStartup()` is not this code's.

`AccountStore` has a table of accounts by email and a request in hand, on which a verdict is
reached in one step. `ImplementsAccountStore` is the refinement: `AccountFor` maps the rows
to the table, `InsertUser` is a stutter, `InsertWebAuth` is `Commit` or `GiveUp`, `Crash` and
failed sends are `Forget` or a stutter.

### Codec, Buffer, WebMessages, Packets, PacketStream

A byte is a set of bits, so shifts, unions and truncations are exact and need no arithmetic
of large numbers. A byte is promoted to a 32-bit `int` before it is shifted; an `int` with
bit 31 set is sign-extended to 64 bits; a shift by 32 or more is undefined and modelled as
either of the results compilers give (shift count taken modulo 32, or 0). `Buffer` keeps, as
history, whether every write has been `inside` the vector.

`WebMessages` describes the classes of `auth.proto` by their fields, in order of their
numbers, and translates what the generated code and the inline functions of the Protobuf
headers do with them: `ByteSize`, `SerializeWeb`, and `ParseWeb`, which skips unknown fields,
lets the last value of a field count and stops with what it has at a malformed one. Strings
are shorter than 128 bytes, so that a length is one byte.

`Packets` has a table of the fields each `Serialize()` writes, one of those each
`HandleMessage()` reads, and the sizes the constructors add up. The tables are separate
because the code is: a field that is written and read in different places is what can go
wrong. `PacketStream` is a sender with its reused buffer, a stream that may be cut anywhere,
and a receiver that takes each `recv()` for one packet, padded with zeros (`Received`). A byte
in flight carries, as history, its message and its place in it.

### ServiceLifecycle

Any number of processes of each program; those of one server program share a port. The
constructors make the same calls in the same order, so one action stands for one call in all
of them, and `part` says which part of the process is initialized: the socket that listens,
that of the connection to the AuthServer, or that of a client. `EndPart` is both success and
failure: the results are ignored. The loop itself is one state here; what happens in it is in
the other modules. A client's main thread is `pc`, its receiving thread `receiver`; they
share the socket and the WSAStartup count.

## 3. Runs

All have `CHECK_DEADLOCK FALSE`: clients stop after `MaxRequests`, streams after `MaxPackets`,
the user may start nothing more, and the servers then have nothing to do.

| Run | Question | Bounds |
|---|---|---|
| `chat_rooms` | Do answers and notifications go where they belong? What can cost the others? Is the clients map right? | 2 clients with their own names, 2 requests each, 1 room and 1 name that is no room, bursts of 2, no reuse of handles |
| `chat_reuse` | Does reuse of handles confuse names or `select()`? Does a name lead to its client? Are requests answered, departures noticed? | 2 clients with their own names, 2 requests each, 3 handles (that of the AuthServer included), bursts of 1 |
| `chat_views` | Does a client show the rooms it is in and those who are there? | 2 clients that have logged in, 3 more requests each to join or leave 1 room, bursts of 1 at both ends |
| `auth_accounts` | Are tables and answers consistent? | 2 chat servers, 2 requests each, bursts of 2, 2 spellings of one email and another with an account, a good and a short password, 1 crash, ids from 65533 on, across the end of 16 bits |
| `auth_refines` | Is it an account store? Are requests answered? | 2 chat servers, bursts of 1, 1 email, 2 passwords, 1 crash; the next id is the one that is 0 in 16 bits |
| `packets` | Is what was written read back, what is cut never taken for something else, nothing touched outside? | every message of all four kinds of connection, two packets on one, receives of any size up to 28 bytes, names of 0 and 1 and passwords of 1 and 11 letters, up to 3 members, user ids and SOCKETs of one and more bytes as varints |
| `startup` | Who gets into its loop, who frees twice, who comes up, who can end? | 2 chat servers and an AuthServer, or one of each and a client; 2 failed calls; 2 handle values, used again; any number of restarts and kills |

Why these bounds. Every hazard of the chat server involves at most the requester, one other
client and the AuthServer; the third handle lets a second client arrive before or after the
first has been closed; two requests are what it takes to have one coalesced, one in flight
across a disconnect, or an account request before a room request; three are join, leave and
join again. One crash reaches every place between two statements, and the restarted process
has requests left to run into what it left. With a buffer of 28 bytes in place of 512 the
longest request and the longest member list are longer than a receive, and the integer at
the very end of the buffer is one that a list can reach; what is compared are lengths with the
size of the buffer, for which nothing else in the code stands. Two failed calls let both
parts of a chat server fail, and each of the two handle values be left behind and used again.

What the bounds of `packets` leave out. A SOCKET value is below 2^14. The answer of the
AuthServer is parsed to the end of the receive buffer, so a packet behind it is parsed too,
and the size of that packet is read as the tag of a field: 16, which takes a SOCKET and a user
id of three varint bytes each, would be that of the user id, which then becomes 0. And a
receive that begins inside a packet would be taken for one if its first four bytes were a
number up to 512 and the next four the number of a type: the answer to a client of the empty
name, cut before that name, would with a user id of 1002 to 1021. No user id in the run is.

Five runs show that something the repository says of itself does not hold (`findings`):

- `chat_stray_ack`: the answer to an account request goes to the client that has been given
  the requester's handle meanwhile, which is told of a request it never made.
- `chat_lost_request`: with two packets in one `recv()`, the second request is never
  answered, although everyone goes on.
- `chat_unknown_room`: a chat in a room that does not exist is acknowledged with success. The
  keys of `client_main.cpp` offer no such name; `ReqChatInRoom()` does, and the server has a
  branch for it.
- `chat_starved`: a client accepted on a handle that was used before keeps the entry
  "disconnected" in the map, since `insert()` changes nothing, and depends on `readfds` alone;
  if that is full at the time, the client is not served when there is room again (3 clients
  and an fd_set of 3 sockets).
- `chat_stale_users`: a client that leaves a room and joins it again shows users who have
  left in between. `UserListsAreExact` of `chat_views` is what remains true.

Three more follow from what is checked. A uint64 from 2^31 on is not read back (theorem
`SignSmears64`), which no user id of today reaches. The id of a new user is read back into 16
bits, while `db_handler.cpp:114` says that it is the highest one; `UserIdsUnique` therefore has
a premise, and `UserRowsExist` holds beyond it. And `LoopRunsOnlyWhenReady` names the one way
in which a server runs without listening: its `bind()` has failed and the value of the closed
socket is that of the next connection. Somebody else's socket on that value is outside the
model, as is the order the repository's README asks for (database, AuthServer, ChatServer,
clients): `startup` covers every order.

Fairness. `RunLoop()` waits in `select()` with a timeout, then goes through every socket
that is ready, so a socket that stays ready is served: weak fairness of `Serve(s)` for each
socket and of `Accept(c)`. A handle whose actions change with what arrives first is still
one ready handle, hence `WF(Serve(s))` and not one per message type. The loop ends once
`select()` fails (`LoopEnds`). The AuthServer is a running program: it answers
(`AuthAnswers`; in `AuthServer` its statements and `Answer`). In `ServiceLifecycle` a process
makes its next call, and a thread its next step (`Run`, `Receive`); connections need not be
reset, nobody has to press a key, start, end or kill anything, and a blocking `recv()` need
not return. No fairness is assumed of clients sending, closing or connecting, of crashes or
of restarts.

## 4. Theorems

The theorems hold for all values of the constants that satisfy the assumptions named in the
modules, which TLC evaluates in the runs.

`ChatServerProofs`, for all clients, handles, rooms, names, requests and bursts, with or
without reuse of handles; all of it is what the later modules build on:

- `TypeCorrect`. The types are inductive as they are; the work is in the packets taken off
  the queues (`ReceiveEffect`) and in the count of cleanups (`TransmitEffect`).
- `SelectIsSafe`. The invariant behind it is `OnlyOpenSockets`: a handle in `readfds` or
  marked connected is open. `Watched` adds the limit of the fd_set and is not inductive.
- `AnswersNameTheRequester`. `AnswerInv` adds `Identities`: a client with a socket has no
  place in the backlog and no second socket, and every account request on its way carries
  its own name. Then a reply can name another user only after the requester's socket has
  been closed, since only an account request of the socket's present owner changes the
  socket's name.

`ChatServerPeersProofs`, under the same assumptions and on `AnswerInv`:

- `NamesLeadToTheirClients`. `NamesInv` adds `NamesAreOfAccepted`: a socket has the name of a
  client that was accepted, so a client that has a name to itself and is accepted only now
  finds that name on no handle that was used before.
- `ClientsMapIsRight` assumes that handles are not reused; with reuse `insert()` leaves the
  old entry "disconnected" and the property is false (it is not checked by `ChatReuse`).
- `OnlyRequestersCostTheServer`. Sends go to sockets taken from three places: the one just
  read from, the request id of an answer, and `m_UserName2ClientSocketMap`. `SocketsHaveUsers`
  says that each is used for a client that has sent some request and, if the socket is no
  longer its own, has left; a send that fails therefore names somebody who has left. It holds
  with reuse too, where the socket may be another client's by then.
- `BroadcastsStayInTheRoom` states `NotificationsReachMembers`, without reuse of handles. Who
  gets a notification is decided by two maps, the members of the room and the sockets of
  their names. `EntriesAreOwn` says that the socket a name leads to was never anybody's but a
  client's of that name: an entry outlives its client, but a closed handle stays closed. So
  what a broadcast sends to a member's name reaches that member or nobody.
- `NoStrayAnswers` states `AcksAnswerRequests`, without reuse. `owed` counts the requests a
  client has sent and not yet got the answer to; the invariant `OwedCoversLoad` compares it
  with the packets that may still lead to an answer, wherever they are: in the client's own
  stream, on the way to the AuthServer, on the way back (`Load`). Each step moves a packet
  from one of the three queues to the next, drops it, or answers it, and the lemmas on `Hits`
  say by how much it changes each count. `PendingAreOwn` is what ties the last two queues to
  the client: the request id in such a packet is a handle that was never anybody else's. With
  reuse that is false, and `chat_stray_ack` is the counterexample.

`ChatSystemProofs`, for all clients, handles, rooms and numbers of requests, with the server's
burst as it is, and under two hypotheses:

- `OneNameEach`: no two clients have the same name. Two processes of one user share an entry
  of the room and of the socket map: what is sent to that name reaches the one that has
  logged in last, and the view of the other is not kept up.
- `ClientBurst = 1`: what the server sends arrives apart. From a longer `recv()` the client
  takes the first packet only, and no view survives that.

`JoinedRoomsRight`, `NobodyMissed` and `UserListsExact` state `JoinedRoomsAgree`,
`NobodyIsMissed` and `UserListsAreExact`. The server's rooms and a client's view change at
different times, so the invariant is not about the view the client has but about the one it
is going to have (`Upcoming`): a step of the server that changes a room also appends to the
inboxes of those concerned what makes the same change there, and a step of a client changes
nothing. `SystemInv` has the parts `TypeOK`; `Settled`, which says what remains as it was in
the beginning, every client having logged in; `AtHome`, every client is at the other end of
its own socket or has closed it, and both maps and its requests name it; and `ViewsAgree`,
the relation between rooms and upcoming views. TLC has found it to hold in the 58,609 states of the
constants of `chat_views`.

`Folding` gives the proofs above their one fact about inboxes, and those below theirs about
fields: a fold over `Append(s, e)` is
the fold over `s`, with `e` put in at the end, and an invariant of the operator is one of the
fold (`FoldInvariant`). These are inductions over the length. The library's induction
theorems take the statement as an operator, which the provers cannot instantiate; here the
set of lengths at which the statement fails is formed instead, and a well-founded order has a
minimum in every set that is not empty.

`AuthServerProofs`, for all chat servers, emails, collations, passwords, tables to start
with, bursts and numbers of crashes:

- `TypeCorrect`, `OneAccountPerEmail`, `AccountsNameUsers`, `OneAccountPerUser`,
  `ReportsAreTrue` follow from one inductive invariant (`Inv`, theorem `Invariance`). None of
  the properties is inductive alone: that the row to be inserted is the only one for its
  email depends on a read two statements earlier. `JobInv` says what the request in hand
  keeps true: until the account is stored no row has its email, and once the row of `user`
  is inserted every user id in `web_auth` is below the highest one.
- `OrphansAreExplained` counts: the rows of `user` without an account are at most the
  crashes, the ids that are 0 in 16 bits, and the request in hand if it has inserted its
  user. `OrphanInv` tells these apart; `ZeroIds` is the lemma that the set of such ids
  grows by at most the new one.
- `Refinement`. Every step of the AuthServer is one of the `AccountStore` or a stutter, with
  the table and the job mapped by `AccountFor`; the invariant gives that an email's last row
  is its only one, so that the mapped table changes in one place only.

`ServiceLifecycleProofs`, for any number of processes, failures, handle values and restarts:

- `OnlyReadyServersServe` and `DoubleFreesAreUnready` follow from `Inv`, which says for every
  call what the process has got when it makes it. The hard part is `ServiceSocketInv`: the
  socket that was to listen does, or is closed, or has given its value to the connection
  that was opened next. Every step concerns one process, and `Frame` carries the invariant
  over for the others.

`CodecProofs` proves `RoundTrip16`, `RoundTrip32` and `RoundTrip64` (below 2^31, for each
outcome of the undefined shifts), and with `SignSmears64` that 2^31 is a true limit.

`PacketStreamProofs`, for messages with strings and lists of every length, any buffer
contents and any growth step:

- `SizesAreExact` states `PacketSizesAreExact`. The size of a packet is a sum over its fields
  made in the constructor, before anything is written; what is written is a fold over the
  fields in the order of `Serialize()`. `HasWritten(old, new, n)` says of one write what the
  next needs: the index has moved by `n`, the vector is at least as long as the index and not
  shorter than before, and nothing was written outside. It is proved for integers of each
  width, for strings, which may need several growth steps, and by induction for the lengths
  and for the strings of a list; `TwoWritten` and `ThreeWritten` put the fields together. For
  the Protobuf messages it rests on `VarintSizesAreExact`, that the varint written has the
  length `VarintSize64()` computes, for all values of 64 bits: `(h * 9 + 73) / 64` is the
  right quotient for every highest bit `h`.
- `NoWriteOutside` states `WritesStayInside`, under `PayloadsFit`. The integers and strings of
  `Buffer` grow the vector, so those messages need no hypothesis. The payload for the other
  server is stored with `SerializeToArray()` into the vector as it is, which `BufferInv` says
  is never shorter than it was made. An answer is at most 23 bytes. A request is made of a
  packet that the server has received: where that had two lengths of four bytes, the request
  has three tags, two lengths as varints and a SOCKET, which is no more as long as the strings
  are shorter than 128 bytes and the SOCKET is below 2^21. For longer strings the theorem
  says nothing.
- The theorems on reading rest on `BufferInv` and `FlightInv`: what is in flight are the bytes
  of packets, one behind the other, the first one perhaps begun, the last one complete. TLC
  has checked `FlightInv` on the constants of `packets`. Both are proved for packets that are
  written inside the buffer (`WritesFit`, which is `PayloadsFit` where there is a connection
  between the servers). `RecvSize <= 1023`, 512 in the code, is what `Number()` can count to.
- `WholePacketsReadRight` states `WholePacketsAreRead` for every connection but that of the
  AuthServer to the chat server, with user ids below 2^31 (`SmallUserIds`, the limit of the
  decoder). The proof follows the readers field by field: `Holds(raw, k, bytes)` says that
  bytes are found at a place of the receive buffer, `ReadsRight` that whatever the shifts give
  a field is read from there as it was written and the index moves behind it. The strings of a
  list are an induction over the list. The requests to the AuthServer are parsed by a
  recursion over the bytes. `ParserExists` gives the function that it defines, by an induction
  from the end of the bytes; `VarintHeld` puts the groups of 7 bits of a varint together again,
  and with `WebFieldHeld` the parser takes one step for each field that was written.
- `SinglePacketsReadRight` says the same of all four kinds for a `recv()` that returns exactly
  one packet. It is what can be said of an answer of the AuthServer: the chat server gives the
  parser all of its buffer, so that the packets behind are parsed too, with the effect that
  section 3 describes. Behind a single answer are zeros, and a tag 0 ends the message
  (`ZerosEnd`). The reason of a failure is one that both enums have (`ReasonsAreValid`).
- `OnlyStartsHandled` states `OnlyPacketStartsAreHandled` for all four kinds of connection. A
  receive that is taken for a packet has, in its bytes 4 to 6, a byte 0, a byte with the bits
  5 to 7, and a byte 3. `Tame` says of a sequence of bytes that this is nowhere in it, and
  lemmas give it for texts in ASCII, lengths and numbers below 992, and varints, in which a
  byte with bit 7 comes before every other; and tame sequences joined are tame. So the only
  such place in a packet is its type, and the receive has begun where the packet begins.
  `TypesStandOut` has the hypotheses. Those on the user ids and on the sizes are needed: the
  answer with a user id of 1002, in section 3, is what `Tame(Encode(id, 8))` excludes.
- `NoReadOutside` states `ReadsStayInside` under the same hypotheses. By `OnlyStartsHandled`
  what is handled is the start of a packet whose size was read whole and fits into the buffer,
  with zeros behind (`HoldsStart`). A length of which only some bytes have arrived is at most
  the one that was sent (`NumberCut`), and one that has not arrived is 0; if any byte of a list
  is missing then so are all strings behind it (`StringsCut`, `ListCut`). So no index exceeds
  the one that reading the whole packet would have reached (`IsNear`).

The constants of `packets` satisfy the hypotheses of all these theorems.

Only model-checked:

- liveness (`AccountRequestsAreAnswered`, `DeparturesAreNoticed`, `RequestsAreAnswered`,
  `ChatServersComeUp`, `ClientsQuit`), which the prover does not reach;
- `WholePacketsAreRead` for an answer of the AuthServer with other packets behind it. It is
  false for larger SOCKETs, as section 3 says, and depends on the bytes that follow.

## 5. Not modelled, and the plan

Left out for good:

- logging and what the programs print; `m_ClientState`, which is assigned and never read
  (`connect()` sets `kONLINE` for what `client.h` calls logged in);
- bcrypt and the MySQL connector, which are headers of libraries that are not in the
  repository; `UpdateUserLastLoginInUser()`, which nobody calls;
- of Protobuf everything but the inline functions that the six classes use to size, write
  and read their fields. These vendored headers, with the generated `auth.pb.h`, are nine
  tenths of the repository's lines: declarations, templates and reflection that no program
  here runs.

What remains to be done, in this order:

1. `AccountService`: `ChatServer` and `AuthServer` together, in place of the abstract
   AuthServer of the present model; that the abstract one allows what the AuthServer does.
2. A `ChatSystem` with three clients, and with the AuthServer still there.
