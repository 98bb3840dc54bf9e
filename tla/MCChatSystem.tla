---------------------------- MODULE MCChatSystem -----------------------------
(* Small instances of ChatSystem for TLC. *)
EXTENDS ChatSystem

CONSTANTS c1, c2

OwnNames == [c \in Clients |-> <<"name of", c>>]
OwnSockets == (c1 :> 1) @@ (c2 :> 2)
ThreeSockets == 0..2
JoinAndLeave == {"JOIN_ROOM_REQ", "LEAVE_ROOM_REQ"}
=============================================================================
