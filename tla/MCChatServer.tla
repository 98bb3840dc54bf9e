---------------------------- MODULE MCChatServer ----------------------------
(* Small instances of ChatServer for TLC. *)
EXTENDS ChatServer, TLC

CONSTANTS c1, c2, c3

\* Each process has its own user name.
OwnNames == [c \in Clients |-> <<"name of", c>>]
\* The same person started the program twice.
SharedName == [c \in Clients |-> "ann"]

\* The processes are interchangeable: names and properties mention each in the same way.
Interchangeable == Permutations(Clients)

FourSockets == 0..3
ThreeSockets == 0..2

Accounts == {"CREATE_ACCOUNT_REQ"}
AuthAndRooms == {"AUTHENTICATE_ACCOUNT_REQ"} \cup RoomTypes
BothAccounts == AccountTypes
AuthAndJoin == {"AUTHENTICATE_ACCOUNT_REQ", "JOIN_ROOM_REQ"}
=============================================================================
