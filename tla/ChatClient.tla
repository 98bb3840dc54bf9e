----------------------------- MODULE ChatClient ------------------------------
(***************************************************************************)
(* What a client of ChatClient/client.cpp makes of the messages of the     *)
(* chat server: the set of the rooms it has joined and, per room, the set  *)
(* of user names it shows.  m_ClientState is not modelled: it is assigned  *)
(* and never read.                                                         *)
(***************************************************************************)
EXTENDS FiniteSets, Sequences, SequencesExt

\* "left" is history: the rooms the client has ever left.
NewView == [joined |-> {}, members |-> <<>>, left |-> {}]

Entries(view) == DOMAIN view.members

\* Mutated form of JoinAck: insert() in place of merging into the entry of an earlier visit.
JoinAckInsert(view, m) ==
    [view EXCEPT !.joined = @ \cup {m.room}, !.members = @ @@ (m.room :> m.users)]

\* kJOIN_ROOM_ACK: the users are merged into the entry the room has from an earlier visit.
JoinAck(view, m) ==
    LET shown == IF m.room \in Entries(view) THEN view.members[m.room] ELSE {}
    IN  [view EXCEPT !.joined = @ \cup {m.room},
                     !.members = [r \in Entries(view) \cup {m.room} |->
                                    IF r = m.room THEN shown \cup m.users
                                    ELSE view.members[r]]]

\* kJOIN_ROOM_NTF: rooms the client has never joined have no entry.
JoinNtf(view, m) ==
    IF m.room \in Entries(view) THEN [view EXCEPT !.members[m.room] = @ \cup {m.name}] ELSE view

Erased(view, m) ==
    IF m.room \in Entries(view) THEN [view EXCEPT !.members[m.room] = @ \ {m.name}] ELSE view

\* Mutated form of LeaveAck: the room stays among the joined ones.
LeaveAckKeepsRoom(view, m) == [Erased(view, m) EXCEPT !.left = @ \cup {m.room}]

\* kLEAVE_ROOM_ACK: the entry of the room stays, without the client's own name.
LeaveAck(view, m) ==
    [Erased(view, m) EXCEPT !.joined = @ \ {m.room}, !.left = @ \cup {m.room}]

\* Mutated form of LeaveNtf: the user stays on the list.
LeaveNtfIgnored(view, m) == view

\* kLEAVE_ROOM_NTF.
LeaveNtf(view, m) == Erased(view, m)

\* ChatClient::HandleMessage(): answers that are no success, account answers and chats
\* leave the view as it is.
HandleResponse(view, m) ==
    CASE m.type = "JOIN_ROOM_ACK" /\ m.status = "SUCCESS" -> JoinAck(view, m)
      [] m.type = "JOIN_ROOM_NTF" -> JoinNtf(view, m)
      [] m.type = "LEAVE_ROOM_ACK" /\ m.status = "SUCCESS" -> LeaveAck(view, m)
      [] m.type = "LEAVE_ROOM_NTF" -> LeaveNtf(view, m)
      [] OTHER -> view
=============================================================================
