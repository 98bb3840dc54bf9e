--------------------------- MODULE MCPacketStream ----------------------------
(* Small instances of PacketStream for TLC. *)
EXTENDS PacketStream

\* The letters a and b in ASCII.
a == {0, 5, 6}
b == {1, 5, 6}

AllLinks == {"C2S", "S2C", "S2A", "A2S"}
\* A client that has not logged in has the empty name.
SomeNames == {<<>>, <<a>>}
\* The longer one makes a request with a name as long as RecvSize.
SomePasswords == {<<b>>, [i \in 1..11 |-> b]}
OneRoom == {<<b>>}
OneChat == {<<b, b>>}
\* Three members make the answer to a join longer than RecvSize; the last length begins one
\* byte before the end of the buffer.
Members == {<<<<a>>>>, <<<<>>, <<a>>, <<b>>>>}
TwoRooms == {<<<<a>>, <<b>>>>}
\* 1 and 2^15 + 1: one byte as a varint, and three bytes.
SomeUserIds == {{0}, {0, 15}}
OneReason == {BitsOf(2)}
\* Values below and above 2^7.
SomeSockets == {BitsOf(4), BitsOf(148)}
=============================================================================
