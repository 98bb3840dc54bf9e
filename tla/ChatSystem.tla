----------------------------- MODULE ChatSystem ------------------------------
(***************************************************************************)
(* The chat server together with the receiving side of its clients.  What  *)
(* a step of the server delivers to a client waits there until the thread  *)
(* that calls RecvResponse() takes it; the client's requests are those of  *)
(* ChatServer.  The system starts once all clients have logged in and the  *)
(* AuthServer, which the rooms do without, has ended.                      *)
(***************************************************************************)
EXTENDS ChatServer, ChatClient

CONSTANTS
    SocketOf,       \* the socket each client was accepted on
    ClientBurst     \* the most packets one recv() of a client may return

ASSUME SystemAssumption ==
    /\ SocketOf \in [Clients -> Sockets \ {AuthHandle}]
    /\ \A c, d \in Clients : SocketOf[c] = SocketOf[d] => c = d
    /\ ClientBurst \in Nat \ {0}
    /\ MaxRequests >= 1      \* the account request that SystemInit says was made

VARIABLES
    inbox,      \* the packets that have arrived at each client
    view        \* m_JoinedRoomNames and m_JoinedRoomMap of each client

systemVars == <<vars, inbox, view>>

ClientAt(s) == CHOOSE c \in Clients : SocketOf[c] = s
Taken == Range(SocketOf)

\* Every client has been accepted, has made one account request and has its answer.  Then
\* the AuthServer has ended, and its connection has been closed.
SystemInit ==
    /\ running = TRUE
    /\ wsa = 2
    /\ clients = [s \in Sockets |-> IF s \in Taken THEN "connected" ELSE "none"]
    /\ readfds = Taken
    /\ name2socket = [n \in Names |-> IF n = EmptyName THEN NoSocket
                                      ELSE SocketOf[CHOOSE c \in Clients : NameOf[c] = n]]
    /\ socket2name = [s \in Sockets |-> IF s \in Taken THEN NameOf[ClientAt(s)] ELSE NoName]
    /\ rooms = [r \in Rooms |-> {}]
    /\ peer = [s \in Sockets |-> IF s \in Taken THEN ClientAt(s) ELSE NoPeer]
    /\ backlog = {}
    /\ conn = [c \in Clients |-> "open"]
    /\ myName = NameOf
    /\ sent = [c \in Clients |-> 1]
    /\ toServer = [c \in Clients |-> <<>>]
    /\ authUp = FALSE
    /\ toAuth = <<>>
    /\ fromAuth = <<>>
    /\ out = Silent
    /\ owed = [c \in Clients |-> [t \in AccountTypes |-> 0]]
    /\ inbox = [c \in Clients |-> <<>>]
    /\ view = [c \in Clients |-> NewView]

\* A step of the server, of the AuthServer or of a client's keyboard thread.  A client
\* that has closed its socket receives nothing any more.
ServerStep ==
    /\ Next
    /\ inbox' = [c \in Clients |-> IF conn'[c] = "open" THEN inbox[c] \o out'[c] ELSE <<>>]
    /\ UNCHANGED view

\* RecvResponse(): like the servers, a client handles the first of the packets a recv()
\* returns.
RecvResponse(c) ==
    /\ conn[c] = "open"
    /\ inbox[c] # <<>>
    /\ \E n \in 1..ClientBurst :
          /\ n <= Len(inbox[c])
          /\ inbox' = [inbox EXCEPT ![c] = SubSeq(@, n + 1, Len(@))]
    /\ view' = [view EXCEPT ![c] = HandleResponse(@, Head(inbox[c]))]
    /\ out' = Silent
    /\ UNCHANGED <<serverVars, netVars, clientVars, toServer, authVars, fromAuth, owed>>

SystemNext == ServerStep \/ \E c \in Clients : RecvResponse(c)

SystemSpec == SystemInit /\ [][SystemNext]_systemVars
-----------------------------------------------------------------------------
\* A client's view once it has handled everything that has arrived.
Upcoming(c) == FoldLeft(HandleResponse, view[c], inbox[c])

\* The server still answers this client.
InTouch(c) == Serving /\ conn[c] = "open"

\* When a client has handled what has arrived, the rooms it lists as joined are those the
\* server has it in: a notification never overtakes the answer it belongs to.
JoinedRoomsAgree ==
    \A c \in Clients : InTouch(c) =>
        Upcoming(c).joined = {r \in Rooms : NameOf[c] \in rooms[r]}

\* A member of a room is shown every other member, whoever joined first.
NobodyIsMissed ==
    \A c \in Clients : InTouch(c) =>
        \A r \in Upcoming(c).joined : rooms[r] \subseteq Upcoming(c).members[r]

\* As long as a client has never left a room it is in, it is shown exactly the members.
UserListsAreExact ==
    \A c \in Clients : InTouch(c) =>
        \A r \in Upcoming(c).joined \ Upcoming(c).left :
            Upcoming(c).members[r] = rooms[r]

\* Every user shown in a room the client has joined is in that room.
UsersShownAreMembers ==
    \A c \in Clients : InTouch(c) =>
        \A r \in Upcoming(c).joined : Upcoming(c).members[r] \subseteq rooms[r]
=============================================================================
