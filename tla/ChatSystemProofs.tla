-------------------------- MODULE ChatSystemProofs ---------------------------
(***************************************************************************)
(* Proofs about ChatSystem: what the clients will have made of everything  *)
(* that has been delivered to them agrees with the rooms of the server, as *)
(* long as no two clients share a name and each recv() of a client returns *)
(* one packet.                                                             *)
(***************************************************************************)
EXTENDS ChatSystem, ChatServerProofs, Folding

(***************************************************************************)
(* The inductive invariant.                                                *)
(***************************************************************************)
\* The packets the server sends to a client that has logged in.
RoomNotification ==
    [type : {"JOIN_ROOM_NTF", "LEAVE_ROOM_NTF", "CHAT_IN_ROOM_NTF"},
     room : RoomNames, name : Names]
RoomAnswer ==
    [type : {"JOIN_ROOM_ACK"}, status : {"SUCCESS", "FAILURE"},
     room : RoomNames, users : SUBSET Names]
        \cup [type : {"LEAVE_ROOM_ACK", "CHAT_IN_ROOM_ACK"}, status : {"SUCCESS", "FAILURE"},
              room : RoomNames, name : Names]
Response == RoomAnswer \cup RoomNotification

\* No two clients share a name.
OneNameEach == \A c, d \in Clients : NameOf[c] = NameOf[d] => c = d

\* The names that have a client.
ClientNames == {NameOf[c] : c \in Clients}

\* The AuthServer has ended and nobody connects any more.
Settled ==
    /\ authUp = FALSE /\ toAuth = <<>> /\ fromAuth = <<>> /\ backlog = {}
    /\ \A c \in Clients : conn[c] \in {"open", "closed"}

\* Every client is on its own socket, and known by its own name.
AtHome ==
    /\ \A s \in Sockets : peer[s] # AuthPeer /\ (peer[s] \in Clients => s = SocketOf[peer[s]])
    /\ \A c \in Clients : /\ conn[c] = "open" => peer[SocketOf[c]] = c
                          /\ name2socket[NameOf[c]] = SocketOf[c]
                          /\ socket2name[SocketOf[c]] = NameOf[c]
                          /\ myName[c] = NameOf[c]
                          /\ \A m \in Range(toServer[c]) : m.name = NameOf[c]
    /\ \A r \in Rooms : rooms[r] \subseteq ClientNames

\* What a client shows: its rooms, their members, and the rooms it has left at some time.
View == [joined : SUBSET Rooms,
         members : UNION {[known -> SUBSET Names] : known \in SUBSET Rooms},
         left : SUBSET Rooms]

\* The view of a client of this name agrees with the members of the rooms.
Agrees(v, name, members) ==
    /\ v \in View
    /\ v.joined = {r \in Rooms : name \in members[r]}
    /\ v.joined \subseteq Entries(v) /\ Entries(v) \subseteq v.joined \cup v.left
    /\ \A r \in v.joined : members[r] \subseteq v.members[r]
    /\ \A r \in v.joined \ v.left : v.members[r] = members[r]

\* Once everything that was delivered has been handled, every client's view agrees.
ViewsAgree ==
    /\ DOMAIN inbox = Clients /\ DOMAIN view = Clients
    /\ \A c \in Clients : InTouch(c) =>
          inbox[c] \in Seq(Response) /\ Agrees(Upcoming(c), NameOf[c], rooms)

SystemInv == TypeOK /\ Settled /\ AtHome /\ ViewsAgree
-----------------------------------------------------------------------------
(***************************************************************************)
(* What a client makes of each message, while the server changes the room. *)
(***************************************************************************)
\* The parts of a view.
LEMMA PartsOfView ==
    ASSUME NEW v \in View
    PROVE  /\ v = [joined |-> v.joined, members |-> v.members, left |-> v.left]
           /\ v.joined \in SUBSET Rooms /\ v.left \in SUBSET Rooms
           /\ Entries(v) \in SUBSET Rooms
           /\ v.members \in [Entries(v) -> SUBSET Names]
BY DEF View, Entries

\* A view is made of its three parts.
LEMMA MakeView ==
    ASSUME NEW joined \in SUBSET Rooms, NEW left \in SUBSET Rooms, NEW members,
           DOMAIN members \in SUBSET Rooms, members \in [DOMAIN members -> SUBSET Names]
    PROVE  [joined |-> joined, members |-> members, left |-> left] \in View
BY DEF View

\* The user who joins: the answer brings the members.
LEMMA JoinAckAgrees ==
    ASSUME NEW rs \in [Rooms -> SUBSET Names], NEW n \in Names, NEW v, Agrees(v, n, rs),
           NEW r \in Rooms, NEW m, m.room = r, m.users = rs[r] \cup {n}
    PROVE  Agrees(JoinAck(v, m), n, [rs EXCEPT ![r] = rs[r] \cup {n}])
<1> DEFINE shown == IF r \in Entries(v) THEN v.members[r] ELSE {}
           ms == [x \in Entries(v) \cup {r} |->
                     IF x = r THEN shown \cup (rs[r] \cup {n}) ELSE v.members[x]]
           w == [joined |-> v.joined \cup {r}, members |-> ms, left |-> v.left]
           after == [rs EXCEPT ![r] = rs[r] \cup {n}]
<1>1. /\ v = [joined |-> v.joined, members |-> v.members, left |-> v.left]
      /\ v.joined \in SUBSET Rooms /\ v.left \in SUBSET Rooms
      /\ Entries(v) \in SUBSET Rooms /\ v.members \in [Entries(v) -> SUBSET Names]
  BY PartsOfView DEF Agrees
<1>2. JoinAck(v, m) = w
  <2>1. JoinAck(v, m) = [v EXCEPT !.joined = @ \cup {r}, !.members = ms]
    BY DEF JoinAck
  <2> QED
    BY <1>1, <2>1
<1>3. w \in View
  <2>1. ms \in [Entries(v) \cup {r} -> SUBSET Names]
    BY <1>1
  <2> QED
    BY <1>1, <2>1, MakeView
<1>4. \A x \in Rooms : after[x] = IF x = r THEN rs[r] \cup {n} ELSE rs[x]
  OBVIOUS
<1>5. Entries(w) = Entries(v) \cup {r}
  BY DEF Entries
<1>6. w.joined = {x \in Rooms : n \in after[x]}
  BY <1>1, <1>4 DEF Agrees
<1>7. \A x \in w.joined : after[x] \subseteq w.members[x]
  BY <1>1, <1>4 DEF Agrees
<1>8. ASSUME NEW x \in w.joined \ w.left PROVE w.members[x] = after[x]
  <2>1. CASE x = r
    <3>1. shown \subseteq rs[r]
      BY <1>1, <1>8, <2>1 DEF Agrees
    <3> QED
      BY <1>4, <2>1, <3>1
  <2>2. CASE x # r
    BY <1>1, <1>4, <1>8, <2>2 DEF Agrees
  <2> QED
    BY <2>1, <2>2
<1>9. w.joined \subseteq Entries(w) /\ Entries(w) \subseteq w.joined \cup w.left
  BY <1>1, <1>5 DEF Agrees
<1> HIDE DEF w, after
<1> QED
  BY <1>2, <1>3, <1>6, <1>7, <1>8, <1>9 DEF Agrees, after

\* A member of the room another user joins.
LEMMA JoinNtfAgrees ==
    ASSUME NEW rs \in [Rooms -> SUBSET Names], NEW n \in Names, NEW v, Agrees(v, n, rs),
           NEW r \in Rooms, n \in rs[r], NEW m, m.room = r, m.name \in Names
    PROVE  Agrees(JoinNtf(v, m), n, [rs EXCEPT ![r] = rs[r] \cup {m.name}])
<1> DEFINE ms == [v.members EXCEPT ![r] = v.members[r] \cup {m.name}]
           w == [joined |-> v.joined, members |-> ms, left |-> v.left]
           after == [rs EXCEPT ![r] = rs[r] \cup {m.name}]
<1>1. /\ v = [joined |-> v.joined, members |-> v.members, left |-> v.left]
      /\ v.joined \in SUBSET Rooms /\ v.left \in SUBSET Rooms
      /\ Entries(v) \in SUBSET Rooms /\ v.members \in [Entries(v) -> SUBSET Names]
  BY PartsOfView DEF Agrees
<1>2. r \in v.joined /\ r \in Entries(v)
  BY DEF Agrees
<1>3. JoinNtf(v, m) = w
  <2>1. JoinNtf(v, m) = [v EXCEPT !.members[r] = @ \cup {m.name}]
    BY <1>2 DEF JoinNtf
  <2> QED
    BY <1>1, <2>1
<1>4. ms \in [Entries(v) -> SUBSET Names] /\ Entries(w) = Entries(v)
  BY <1>1 DEF Entries
<1>5. w \in View
  BY <1>1, <1>4, MakeView
<1>6. /\ \A x \in Rooms : after[x] = IF x = r THEN rs[r] \cup {m.name} ELSE rs[x]
      /\ \A x \in Entries(v) : ms[x] = IF x = r THEN v.members[r] \cup {m.name} ELSE v.members[x]
  BY <1>1
<1> HIDE DEF ms, after
<1>7. w.joined = {x \in Rooms : n \in after[x]}
  BY <1>1, <1>2, <1>6 DEF Agrees
<1>8. \A x \in w.joined : after[x] \subseteq w.members[x]
  BY <1>1, <1>2, <1>6 DEF Agrees
<1>9. \A x \in w.joined \ w.left : w.members[x] = after[x]
  BY <1>1, <1>2, <1>6 DEF Agrees
<1>10. w.joined \subseteq Entries(w) /\ Entries(w) \subseteq w.joined \cup w.left
  BY <1>1, <1>4 DEF Agrees
<1> HIDE DEF w
<1> QED
  BY <1>3, <1>5, <1>7, <1>8, <1>9, <1>10 DEF Agrees, after

\* The user who leaves: the entry stays without their name.
LEMMA LeaveAckAgrees ==
    ASSUME NEW rs \in [Rooms -> SUBSET Names], NEW n \in Names, NEW v, Agrees(v, n, rs),
           NEW r \in Rooms, NEW m, m.room = r, m.name = n
    PROVE  Agrees(LeaveAck(v, m), n, [rs EXCEPT ![r] = rs[r] \ {n}])
<1> DEFINE ms == [x \in Entries(v) |-> IF x = r THEN v.members[r] \ {n} ELSE v.members[x]]
           w == [joined |-> v.joined \ {r}, members |-> ms, left |-> v.left \cup {r}]
           after == [rs EXCEPT ![r] = rs[r] \ {n}]
<1>1. /\ v = [joined |-> v.joined, members |-> v.members, left |-> v.left]
      /\ v.joined \in SUBSET Rooms /\ v.left \in SUBSET Rooms
      /\ Entries(v) \in SUBSET Rooms /\ v.members \in [Entries(v) -> SUBSET Names]
  BY PartsOfView DEF Agrees
<1>2. Erased(v, m) = [joined |-> v.joined, members |-> ms, left |-> v.left]
  <2>1. CASE r \in Entries(v)
    <3>1. Erased(v, m) = [v EXCEPT !.members[r] = @ \ {n}]
      BY <2>1 DEF Erased
    <3>2. [v.members EXCEPT ![r] = v.members[r] \ {n}] = ms
      BY <1>1, <2>1
    <3> QED
      BY <1>1, <3>1, <3>2
  <2>2. CASE r \notin Entries(v)
    <3>1. Erased(v, m) = v
      BY <2>2 DEF Erased
    <3>2. v.members = ms
      BY <1>1, <2>2
    <3> QED
      BY <1>1, <3>1, <3>2
  <2> QED
    BY <2>1, <2>2
<1>3. LeaveAck(v, m) = w
  <2> DEFINE e == Erased(v, m)
  <2>1. LeaveAck(v, m) = [e EXCEPT !.joined = @ \ {r}, !.left = @ \cup {r}]
    BY DEF LeaveAck
  <2> HIDE DEF ms, e
  <2>2. e.joined = v.joined /\ e.members = ms /\ e.left = v.left
    BY <1>2 DEF e
  <2>3. e = [joined |-> e.joined, members |-> e.members, left |-> e.left]
    BY <1>2, <2>2 DEF e
  <2>4. LeaveAck(v, m) = [joined |-> e.joined \ {r}, members |-> e.members,
                          left |-> e.left \cup {r}]
    BY <2>1, <2>3
  <2> QED
    BY <2>2, <2>4
<1>4. ms \in [Entries(v) -> SUBSET Names] /\ Entries(w) = Entries(v)
  <2>1. \A x \in Entries(v) : v.members[x] \in SUBSET Names /\ v.members[x] \ {n} \in SUBSET Names
    BY <1>1
  <2>2. ms \in [Entries(v) -> SUBSET Names]
    BY <2>1
  <2> QED
    BY <2>2 DEF Entries
<1>5. w \in View
  BY <1>1, <1>4, MakeView
<1>6. \A x \in Rooms : after[x] = IF x = r THEN rs[r] \ {n} ELSE rs[x]
  OBVIOUS
<1> HIDE DEF after
<1>7. w.joined = {x \in Rooms : n \in after[x]}
  <2>1. \A x \in Rooms : n \in after[x] <=> x # r /\ n \in rs[x]
    BY <1>6
  <2> QED
    BY <2>1 DEF Agrees
<1>8. \A x \in w.joined : after[x] \subseteq w.members[x]
  BY <1>1, <1>6 DEF Agrees
<1>9. \A x \in w.joined \ w.left : w.members[x] = after[x]
  BY <1>1, <1>6 DEF Agrees
<1>10. w.joined \subseteq Entries(w) /\ Entries(w) \subseteq w.joined \cup w.left
  BY <1>1, <1>4 DEF Agrees
<1> HIDE DEF w
<1> QED
  BY <1>3, <1>5, <1>7, <1>8, <1>9, <1>10 DEF Agrees, after

\* A member of the room another user leaves.
LEMMA LeaveNtfAgrees ==
    ASSUME NEW rs \in [Rooms -> SUBSET Names], NEW n \in Names, NEW v, Agrees(v, n, rs),
           NEW r \in Rooms, n \in rs[r], NEW m, m.room = r, m.name # n
    PROVE  Agrees(LeaveNtf(v, m), n, [rs EXCEPT ![r] = rs[r] \ {m.name}])
<1> DEFINE ms == [v.members EXCEPT ![r] = v.members[r] \ {m.name}]
           w == [joined |-> v.joined, members |-> ms, left |-> v.left]
           after == [rs EXCEPT ![r] = rs[r] \ {m.name}]
<1>1. /\ v = [joined |-> v.joined, members |-> v.members, left |-> v.left]
      /\ v.joined \in SUBSET Rooms /\ v.left \in SUBSET Rooms
      /\ Entries(v) \in SUBSET Rooms /\ v.members \in [Entries(v) -> SUBSET Names]
  BY PartsOfView DEF Agrees
<1>2. r \in v.joined /\ r \in Entries(v)
  BY DEF Agrees
<1>3. LeaveNtf(v, m) = w
  <2>1. LeaveNtf(v, m) = [v EXCEPT !.members[r] = @ \ {m.name}]
    BY <1>2 DEF LeaveNtf, Erased
  <2> QED
    BY <1>1, <2>1
<1>4. ms \in [Entries(v) -> SUBSET Names] /\ Entries(w) = Entries(v)
  <2>1. v.members[r] \ {m.name} \in SUBSET Names
    BY <1>1, <1>2
  <2>2. ms \in [Entries(v) -> SUBSET Names]
    BY <1>1, <2>1
  <2> QED
    BY <2>2 DEF Entries
<1>5. w \in View
  BY <1>1, <1>4, MakeView
<1>6. /\ \A x \in Rooms : after[x] = IF x = r THEN rs[r] \ {m.name} ELSE rs[x]
      /\ \A x \in Entries(v) : ms[x] = IF x = r THEN v.members[r] \ {m.name} ELSE v.members[x]
  BY <1>1
<1> HIDE DEF ms, after
<1>7. w.joined = {x \in Rooms : n \in after[x]}
  <2>1. \A x \in Rooms : n \in after[x] <=> n \in rs[x]
    BY <1>6
  <2> QED
    BY <2>1 DEF Agrees
<1>8. \A x \in w.joined : after[x] \subseteq w.members[x]
  BY <1>1, <1>2, <1>6 DEF Agrees
<1>9. ASSUME NEW x \in w.joined \ w.left PROVE w.members[x] = after[x]
  <2>1. x \in Rooms /\ x \in Entries(v) /\ v.members[x] = rs[x]
    BY <1>1, <1>9 DEF Agrees
  <2> QED
    BY <1>6, <2>1
<1>10. w.joined \subseteq Entries(w) /\ Entries(w) \subseteq w.joined \cup w.left
  BY <1>1, <1>4 DEF Agrees
<1> HIDE DEF w
<1> QED
  BY <1>3, <1>5, <1>7, <1>8, <1>9, <1>10 DEF Agrees, after

\* Everybody else: rooms the client is not in may change.
LEMMA BystanderAgrees ==
    ASSUME NEW rs \in [Rooms -> SUBSET Names], NEW n, NEW v, Agrees(v, n, rs),
           NEW r \in Rooms, n \notin rs[r], NEW users, n \notin users
    PROVE  Agrees(v, n, [rs EXCEPT ![r] = users])
<1> DEFINE after == [rs EXCEPT ![r] = users]
<1>1. \A x \in Rooms : after[x] = IF x = r THEN users ELSE rs[x]
  OBVIOUS
<1>2. r \notin v.joined /\ v.joined \subseteq Rooms
  BY DEF Agrees
<1> HIDE DEF after
<1>3. v.joined = {x \in Rooms : n \in after[x]}
  BY <1>1 DEF Agrees
<1>4. \A x \in v.joined : after[x] = rs[x]
  BY <1>1, <1>2
<1>5. Agrees(v, n, after)
  BY <1>3, <1>4 DEF Agrees
<1> QED
  BY <1>5 DEF after

\* What a client makes of each kind of message.
LEMMA Handled ==
    ASSUME NEW v, NEW m
    PROVE  /\ m.type = "JOIN_ROOM_ACK" /\ m.status = "SUCCESS" =>
                 HandleResponse(v, m) = JoinAck(v, m)
           /\ m.type = "JOIN_ROOM_NTF" => HandleResponse(v, m) = JoinNtf(v, m)
           /\ m.type = "LEAVE_ROOM_ACK" /\ m.status = "SUCCESS" =>
                 HandleResponse(v, m) = LeaveAck(v, m)
           /\ m.type = "LEAVE_ROOM_NTF" => HandleResponse(v, m) = LeaveNtf(v, m)
           /\ m.type \in {"JOIN_ROOM_ACK", "LEAVE_ROOM_ACK"} /\ m.status = "FAILURE" =>
                 HandleResponse(v, m) = v
           /\ m.type \in {"CHAT_IN_ROOM_ACK", "CHAT_IN_ROOM_NTF"} => HandleResponse(v, m) = v
BY DEF HandleResponse
-----------------------------------------------------------------------------
(***************************************************************************)
(* What a step of the server delivers.                                     *)
(***************************************************************************)
LEMMA TwoPackets ==
    ASSUME NEW a, NEW b
    PROVE  Append(<<a>>, b) = <<a, b>> /\ <<a>> \o <<b>> = <<a, b>>
<1> DEFINE q == Append(<<a>>, b)
<1>1. <<a>> \in Seq({a, b}) /\ b \in {a, b} /\ Len(<<a>>) = 1 /\ <<a>>[1] = a
  OBVIOUS
<1>2. q \in Seq({a, b}) /\ Len(q) = 2 /\ q[1] = a /\ q[2] = b
  BY <1>1, AppendProperties
<1>3. <<a, b>> \in Seq({a, b}) /\ Len(<<a, b>>) = 2 /\ <<a, b>>[1] = a /\ <<a, b>>[2] = b
  OBVIOUS
<1>4. \A i \in 1..2 : q[i] = <<a, b>>[i]
  BY <1>2, <1>3
<1> HIDE DEF q
<1>5. q = <<a, b>>
  BY <1>2, <1>3, <1>4, SeqEqual
<1> QED
  BY <1>1, <1>5, AppendIsConcat DEF q

\* A broadcast to users who are all known leaves none of them out.
LEMMA EverybodyReachable ==
    ASSUME AtHome, NEW users \in SUBSET ClientNames
    PROVE  Reachable(users) = users
<1>1. \A n \in users : name2socket[n] \in Sockets
  BY SystemAssumption DEF AtHome, ClientNames
<1>2. NoSocket \notin Sockets
  BY SocketAssumption DEF NoSocket
<1> QED
  BY <1>1, <1>2 DEF Reachable

\* As long as Winsock is up, a client that is connected gets the answer if it made the
\* request, and after it the notification if it is to be notified.
LEMMA Delivered ==
    ASSUME OneNameEach, AtHome, NEW to \in Sockets, NEW msg, NEW names \in SUBSET ClientNames,
           NEW ntf, Transmit(to, msg, names, ntf), wsa' > 0,
           NEW c \in Clients, conn[c] = "open"
    PROVE  /\ peer[to] = c /\ NameOf[c] \in names => out'[c] = <<msg, ntf>>
           /\ peer[to] = c /\ NameOf[c] \notin names => out'[c] = <<msg>>
           /\ peer[to] # c /\ NameOf[c] \in names => out'[c] = <<ntf>>
           /\ peer[to] # c /\ NameOf[c] \notin names => out'[c] = <<>>
<1>1. PICK lost \in BOOLEAN, failed \in SUBSET names, reached \in SUBSET names :
         /\ IF lost THEN ~Alive(peer[to]) ELSE peer[to] # NoPeer
         /\ \A n \in failed : ~Alive(peer[name2socket[n]])
         /\ \A n \in reached : n \notin failed /\ peer[name2socket[n]] # NoPeer
         /\ LET failures == Cardinality(failed) + (IF lost THEN 1 ELSE 0)
            IN  wsa' = AfterCleanups(failures)
         /\ wsa' > 0 => names = failed \cup reached
         /\ out' = [d \in Clients |->
                      IF ~Alive(d) THEN <<>>
                      ELSE (IF ~lost /\ peer[to] = d THEN <<msg>> ELSE <<>>)
                           \o [i \in 1..Cardinality({n \in reached : peer[name2socket[n]] = d})
                                 |-> ntf]]
  BY DEF Transmit
<1>2. Alive(c)
  BY ClientAssumption DEF Alive
<1>3. ~lost /\ peer[to] = c <=> peer[to] = c
  BY <1>1, <1>2
<1> DEFINE found == {n \in reached : peer[name2socket[n]] = c}
           copies == [i \in 1..Cardinality(found) |-> ntf]
<1>4. peer[SocketOf[c]] = c /\ name2socket[NameOf[c]] = SocketOf[c]
  BY DEF AtHome
<1>5. \A n \in found : n = NameOf[c]
  <2> SUFFICES ASSUME NEW n \in found PROVE n = NameOf[c]
    OBVIOUS
  <2>1. PICK d \in Clients : n = NameOf[d]
    BY DEF ClientNames
  <2>2. name2socket[n] = SocketOf[d] /\ SocketOf[d] \in Sockets
    BY <2>1, SystemAssumption DEF AtHome
  <2>3. peer[SocketOf[d]] = c
    BY <2>2
  <2>4. SocketOf[d] = SocketOf[c]
    BY <2>2, <2>3 DEF AtHome
  <2> QED
    BY <2>1, <2>4, SystemAssumption
<1>6. copies = IF NameOf[c] \in names THEN <<ntf>> ELSE <<>>
  <2>1. CASE NameOf[c] \in names
    <3>1. NameOf[c] \in found
      BY <1>1, <1>2, <1>4, <2>1
    <3>2. found = {NameOf[c]}
      BY <1>5, <3>1
    <3>3. Cardinality(found) = 1
      BY <3>2, FS_Singleton
    <3>4. [i \in 1..1 |-> ntf] = <<ntf>>
      OBVIOUS
    <3> HIDE DEF found
    <3> QED
      BY <2>1, <3>3, <3>4
  <2>2. CASE NameOf[c] \notin names
    <3>1. found = {}
      BY <1>5, <2>2
    <3>2. Cardinality(found) = 0
      BY <3>1, FS_EmptySet
    <3>3. [i \in 1..0 |-> ntf] = <<>>
      OBVIOUS
    <3> HIDE DEF found
    <3> QED
      BY <2>2, <3>2, <3>3
  <2> QED
    BY <2>1, <2>2
<1>7. out'[c] = (IF ~lost /\ peer[to] = c THEN <<msg>> ELSE <<>>) \o copies
  BY <1>1, <1>2
<1>8. /\ <<msg>> \o <<ntf>> = <<msg, ntf>> /\ <<msg>> \o <<>> = <<msg>>
      /\ <<>> \o <<ntf>> = <<ntf>> /\ <<>> \o <<>> = <<>>
  <2>1. <<msg>> \o <<ntf>> = <<msg, ntf>>
    BY TwoPackets
  <2> QED
    BY <2>1
<1> HIDE DEF copies
<1> QED
  BY <1>3, <1>6, <1>7, <1>8

\* The view of a client after some packets.
Later(v, packets) == FoldLeft(HandleResponse, v, packets)

\* Packets can be handled in two parts.
LEMMA LaterConcat ==
    ASSUME NEW v, NEW S, NEW p \in Seq(S), NEW q \in Seq(S)
    PROVE  Later(v, p \o q) = Later(Later(v, p), q)
BY FoldConcat DEF Later

\* The views after no packet, one packet and one packet more.
LEMMA LaterViews ==
    ASSUME NEW v
    PROVE  /\ Later(v, <<>>) = v
           /\ \A m : Later(v, <<m>>) = HandleResponse(v, m)
           /\ \A m, n : Later(v, <<m, n>>) = HandleResponse(HandleResponse(v, m), n)
<1>1. Later(v, <<>>) = v
  BY FoldEmpty DEF Later
<1>2. ASSUME NEW w, NEW m PROVE Later(w, <<m>>) = HandleResponse(w, m)
  <2>1. Later(w, <<m>>) = Applied(HandleResponse, w, m)
    BY FoldOne DEF Later
  <2> QED
    BY <2>1 DEF Applied
<1>3. ASSUME NEW m, NEW n PROVE Later(v, <<m, n>>) = HandleResponse(HandleResponse(v, m), n)
  <2> DEFINE S == {m, n}
             p == <<m>>
             q == <<n>>
  <2>1. p \in Seq(S) /\ q \in Seq(S) /\ p \o q = <<m, n>>
    BY TwoPackets
  <2>2. Later(v, p) = HandleResponse(v, m) /\ \A w : Later(w, q) = HandleResponse(w, n)
    BY <1>2
  <2> HIDE DEF S, p, q
  <2>3. p \in Seq(S)
    BY <2>1
  <2>4. q \in Seq(S)
    BY <2>1
  <2>5. Later(v, p \o q) = Later(Later(v, p), q)
    BY <2>3, <2>4, LaterConcat
  <2> QED
    BY <2>1, <2>2, <2>5
<1> QED
  BY <1>1, <1>2, <1>3

\* The view of a client that has handled what was delivered to it.
LEMMA DeliveredLater ==
    ASSUME OneNameEach, AtHome, NEW to \in Sockets, NEW msg \in Response,
           NEW names \in SUBSET ClientNames, NEW ntf \in Response,
           Transmit(to, msg, names, ntf), wsa' > 0,
           NEW c \in Clients, conn[c] = "open", NEW v
    PROVE  /\ out'[c] \in Seq(Response)
           /\ Later(v, out'[c]) =
                 LET w == IF peer[to] = c THEN HandleResponse(v, msg) ELSE v
                 IN  IF NameOf[c] \in names THEN HandleResponse(w, ntf) ELSE w
<1>1. /\ <<>> \in Seq(Response) /\ <<msg>> \in Seq(Response) /\ <<ntf>> \in Seq(Response)
      /\ <<msg, ntf>> \in Seq(Response)
  OBVIOUS
<1>2. /\ peer[to] = c /\ NameOf[c] \in names => out'[c] = <<msg, ntf>>
      /\ peer[to] = c /\ NameOf[c] \notin names => out'[c] = <<msg>>
      /\ peer[to] # c /\ NameOf[c] \in names => out'[c] = <<ntf>>
      /\ peer[to] # c /\ NameOf[c] \notin names => out'[c] = <<>>
  BY Delivered
<1>3. Later(v, <<msg>>) = HandleResponse(v, msg)
  BY LaterViews
<1>4. Later(v, <<ntf>>) = HandleResponse(v, ntf)
  BY LaterViews
<1>5. Later(v, <<msg, ntf>>) = HandleResponse(HandleResponse(v, msg), ntf)
  <2>1. \A m, n : Later(v, <<m, n>>) = HandleResponse(HandleResponse(v, m), n)
    BY LaterViews
  <2> QED
    BY <2>1
<1>6. Later(v, <<>>) = v
  BY LaterViews
<1> QED
  BY <1>1, <1>2, <1>3, <1>4, <1>5, <1>6
-----------------------------------------------------------------------------
(***************************************************************************)
(* The steps of the server and of its environment.                         *)
(***************************************************************************)
\* A request comes from the client on its own socket, in its own name.
LEMMA FromClient ==
    ASSUME TypeOK, AtHome, NEW s \in Sockets, NEW types,
           types \subseteq AccountTypes \cup RoomTypes, Receive(s, types)
    PROVE  LET m == Head(Incoming(s))
           IN  /\ peer[s] \in Clients /\ s = SocketOf[peer[s]]
               /\ m \in Request /\ m.type \in types /\ m.name = NameOf[peer[s]]
               /\ fromAuth' = fromAuth /\ Serving
<1> DEFINE m == Head(Incoming(s))
<1>1. peer[s] \in Clients /\ m \in Request /\ m \in Range(toServer[peer[s]])
  BY SenderOf
<1>2. m.type \in types /\ Serving
  BY DEF Receive
<1>3. peer[s] # AuthPeer
  BY DEF AtHome
<1>4. fromAuth' = fromAuth
  BY <1>3 DEF Receive
<1> HIDE DEF m
<1>5. s = SocketOf[peer[s]] /\ m.name = NameOf[peer[s]]
  BY <1>1 DEF AtHome
<1> QED
  BY <1>1, <1>2, <1>4, <1>5 DEF m

\* Nothing comes from the AuthServer any more.
LEMMA NoWebAnswers ==
    ASSUME TypeOK, Settled, NEW s \in Sockets, WebAckFrom(s) PROVE FALSE
<1>1. Receive(s, WebAckTypes)
  BY DEF WebAckFrom
<1>2. Head(Incoming(s)) \in Range(fromAuth)
  BY <1>1, SenderOf
<1> QED
  BY <1>2, EmptyQueue DEF Settled

\* Clients stay on their sockets and keep their names.
LEMMA HomeStep ==
    ASSUME OneNameEach, TypeOK, Settled, AtHome, Next
    PROVE  Settled' /\ AtHome'
<1> USE DEF serverVars, netVars, clientVars, authVars
<1>1. ASSUME NEW s \in Sockets, AccountReq(s) PROVE Settled' /\ AtHome'
  <2> DEFINE m == Head(Incoming(s))
             d == peer[s]
  <2>1. Receive(s, AccountTypes)
    BY <1>1 DEF AccountReq
  <2>2. d \in Clients /\ s = SocketOf[d] /\ m.name = NameOf[d] /\ fromAuth' = fromAuth
    BY <2>1, FromClient
  <2>3. \A c \in Clients : Range(toServer'[c]) \subseteq Range(toServer[c])
    BY <2>1, ReceiveEffect
  <2>4. /\ name2socket' = [name2socket EXCEPT ![m.name] = s]
        /\ socket2name' = [socket2name EXCEPT ![s] = m.name]
        /\ toAuth' = toAuth
        /\ UNCHANGED <<rooms, netVars, clientVars, authUp>>
    BY <1>1 DEF AccountReq, Remember, Settled
  <2> HIDE DEF m
  <2>5. \A c \in Clients : /\ name2socket'[NameOf[c]] = SocketOf[c]
                           /\ socket2name'[SocketOf[c]] = NameOf[c]
    BY <2>2, <2>4, SystemAssumption, ClientAssumption DEF OneNameEach, AtHome, TypeOK
  <2>6. Settled'
    BY <2>2, <2>4 DEF Settled
  <2> QED
    BY <2>3, <2>4, <2>5, <2>6 DEF AtHome
<1>2. ASSUME NEW s \in Sockets, WebAckFrom(s) PROVE Settled' /\ AtHome'
  BY <1>2, NoWebAnswers
<1>3. ASSUME NEW s \in Sockets, NEW types, types \subseteq RoomTypes, Receive(s, types),
             rooms' \in [Rooms -> SUBSET ClientNames],
             UNCHANGED <<name2socket, socket2name, netVars, clientVars, authVars>>
      PROVE  Settled' /\ AtHome'
  <2>1. fromAuth' = fromAuth
    BY <1>3, FromClient
  <2>2. \A c \in Clients : Range(toServer'[c]) \subseteq Range(toServer[c])
    BY <1>3, ReceiveEffect
  <2>3. Settled'
    BY <1>3, <2>1 DEF Settled
  <2> QED
    BY <1>3, <2>2, <2>3 DEF AtHome
<1>4. rooms \in [Rooms -> SUBSET ClientNames]
  BY DEF AtHome, TypeOK
<1>5. ASSUME NEW s \in Sockets, JoinRoom(s) PROVE Settled' /\ AtHome'
  <2> DEFINE m == Head(Incoming(s))
  <2>1. Receive(s, {"JOIN_ROOM_REQ"}) /\ {"JOIN_ROOM_REQ"} \subseteq RoomTypes
    BY <1>5 DEF JoinRoom, RoomTypes
  <2>2. m.name \in ClientNames
    BY <2>1, FromClient DEF ClientNames
  <2>3. rooms' = rooms \/ rooms' = [rooms EXCEPT ![m.room] = rooms[m.room] \cup {m.name}]
    BY <1>5 DEF JoinRoom
  <2> HIDE DEF m
  <2>4. rooms' \in [Rooms -> SUBSET ClientNames]
    BY <1>4, <2>2, <2>3
  <2>5. UNCHANGED <<name2socket, socket2name, netVars, clientVars, authVars>>
    BY <1>5 DEF JoinRoom
  <2> QED
    BY <1>3, <2>1, <2>4, <2>5
<1>6. ASSUME NEW s \in Sockets, LeaveRoom(s) PROVE Settled' /\ AtHome'
  <2> DEFINE m == Head(Incoming(s))
  <2>1. Receive(s, {"LEAVE_ROOM_REQ"}) /\ {"LEAVE_ROOM_REQ"} \subseteq RoomTypes
    BY <1>6 DEF LeaveRoom, RoomTypes
  <2>2. rooms' = rooms \/ rooms' = [rooms EXCEPT ![m.room] = rooms[m.room] \ {m.name}]
    BY <1>6 DEF LeaveRoom
  <2> HIDE DEF m
  <2>3. rooms' \in [Rooms -> SUBSET ClientNames]
    BY <1>4, <2>2
  <2>4. UNCHANGED <<name2socket, socket2name, netVars, clientVars, authVars>>
    BY <1>6 DEF LeaveRoom
  <2> QED
    BY <1>3, <2>1, <2>3, <2>4
<1>7. ASSUME NEW s \in Sockets, ChatInRoom(s) PROVE Settled' /\ AtHome'
  <2>1. Receive(s, {"CHAT_IN_ROOM_REQ"}) /\ {"CHAT_IN_ROOM_REQ"} \subseteq RoomTypes
    BY <1>7 DEF ChatInRoom, RoomTypes
  <2>2. UNCHANGED <<rooms, name2socket, socket2name, netVars, clientVars, authVars>>
    BY <1>7 DEF ChatInRoom
  <2> QED
    BY <1>3, <1>4, <2>1, <2>2
<1>8. ASSUME NEW s \in Sockets, Disconnect(s) PROVE Settled' /\ AtHome'
  <2>1. peer[s] \in Clients /\ s = SocketOf[peer[s]] /\ conn[peer[s]] # "open"
    <3>1. peer[s] # NoPeer /\ peer[s] # AuthPeer /\ ~Alive(peer[s])
      BY <1>8 DEF Disconnect, RecvFailed, AtHome
    <3>2. peer[s] \in Clients
      BY <3>1 DEF TypeOK
    <3> QED
      BY <3>1, <3>2 DEF AtHome, Alive
  <2>2. /\ peer' = [peer EXCEPT ![s] = NoPeer]
        /\ toServer' = [toServer EXCEPT ![peer[s]] = <<>>] /\ fromAuth' = fromAuth
        /\ UNCHANGED <<name2socket, socket2name, rooms, backlog, clientVars, authVars>>
    BY <1>8 DEF Disconnect, CloseSocket, AtHome
  <2>3. \A c \in Clients : Range(toServer'[c]) \subseteq Range(toServer[c])
    BY <2>1, <2>2, EmptyQueue DEF TypeOK
  <2>4. \A t \in Sockets : peer'[t] # AuthPeer /\ (peer'[t] \in Clients => peer'[t] = peer[t])
    BY <2>2, ClientAssumption DEF TypeOK, AtHome
  <2>5. \A c \in Clients : conn[c] = "open" => peer'[SocketOf[c]] = c
    BY <2>1, <2>2, SystemAssumption DEF TypeOK, AtHome
  <2>6. Settled'
    BY <2>2 DEF Settled
  <2> QED
    BY <2>2, <2>3, <2>4, <2>5, <2>6 DEF AtHome
<1>9. ASSUME NEW c \in Clients, Accept(c) PROVE Settled' /\ AtHome'
  BY <1>9 DEF Accept, Settled
<1>10. ASSUME NEW c \in Clients, Connect(c) PROVE Settled' /\ AtHome'
  BY <1>10 DEF Connect, Settled
<1>11. ASSUME NEW c \in Clients, CloseClient(c) PROVE Settled' /\ AtHome'
  BY <1>11 DEF CloseClient, Settled, AtHome, TypeOK
<1>12. ASSUME NEW c \in Clients, NEW t \in RequestTypes, SendAccountReq(c, t)
       PROVE  Settled' /\ AtHome'
  <2> DEFINE m == [type |-> t, name |-> NameOf[c]]
  <2>1. t \in AccountTypes /\ NameOf[c] \in Names
    BY <1>12 DEF SendAccountReq, Names
  <2>2. m \in Request
    BY <2>1 DEF Request, AccountRequest
  <2>3. Range(Append(toServer[c], m)) = Range(toServer[c]) \cup {m}
    BY <2>2, AppendToQueue DEF TypeOK
  <2>4. /\ toServer' = [toServer EXCEPT ![c] = Append(toServer[c], m)]
        /\ myName' = [myName EXCEPT ![c] = NameOf[c]]
        /\ UNCHANGED <<serverVars, netVars, conn, authVars, fromAuth>>
    BY <1>12 DEF SendAccountReq
  <2>5. m.name = NameOf[c]
    OBVIOUS
  <2> HIDE DEF m
  <2>6. \A d \in Clients : /\ \A x \in Range(toServer'[d]) : x.name = NameOf[d]
                           /\ myName'[d] = NameOf[d]
    BY <2>3, <2>4, <2>5 DEF AtHome, TypeOK
  <2>7. Settled'
    BY <2>4 DEF Settled
  <2> QED
    BY <2>4, <2>6, <2>7 DEF AtHome
<1>13. ASSUME NEW c \in Clients, NEW t \in RequestTypes, NEW r \in RoomNames,
              SendRoomReq(c, t, r)
       PROVE  Settled' /\ AtHome'
  <2> DEFINE m == [type |-> t, name |-> myName[c], room |-> r]
  <2>1. t \in RoomTypes /\ myName[c] = NameOf[c]
    BY <1>13 DEF SendRoomReq, AtHome
  <2>2. m \in Request
    BY <2>1 DEF Request, RoomRequest, TypeOK
  <2>3. Range(Append(toServer[c], m)) = Range(toServer[c]) \cup {m}
    BY <2>2, AppendToQueue DEF TypeOK
  <2>4. /\ toServer' = [toServer EXCEPT ![c] = Append(toServer[c], m)]
        /\ UNCHANGED <<serverVars, netVars, conn, myName, authVars, fromAuth>>
    BY <1>13 DEF SendRoomReq
  <2>5. m.name = NameOf[c]
    BY <2>1
  <2> HIDE DEF m
  <2>6. \A d \in Clients : \A x \in Range(toServer'[d]) : x.name = NameOf[d]
    BY <2>3, <2>4, <2>5 DEF AtHome, TypeOK
  <2>7. Settled'
    BY <2>4 DEF Settled
  <2> QED
    BY <2>4, <2>6, <2>7 DEF AtHome
<1>14. CASE LoopEnds
  BY <1>14 DEF LoopEnds, Settled, AtHome
<1>15. CASE AuthAnswers
  BY <1>15 DEF AuthAnswers, Settled
<1>16. CASE AuthDown
  BY <1>16 DEF AuthDown, Settled
<1> QED
  BY <1>1, <1>2, <1>5, <1>6, <1>7, <1>8, <1>9, <1>10, <1>11, <1>12, <1>13, <1>14, <1>15, <1>16
     DEF Next, Serve

\* A client that is in touch after a step was so before.
LEMMA StillInTouch ==
    ASSUME TypeOK, Settled, Next, NEW c \in Clients, InTouch(c)'
    PROVE  InTouch(c)
<1> USE DEF serverVars, netVars, clientVars, authVars
<1>1. running' = TRUE /\ wsa' > 0 /\ conn'[c] = "open"
  BY DEF InTouch, Serving, TypeOK
<1>2. ASSUME NEW s \in Sockets, Serve(s) PROVE Serving /\ conn' = conn
  BY <1>2 DEF Serve, AccountReq, WebAckFrom, JoinRoom, LeaveRoom, ChatInRoom, Disconnect, Receive
<1>3. CASE \E s \in Sockets : Serve(s)
  BY <1>1, <1>2, <1>3 DEF InTouch
<1>4. CASE LoopEnds
  BY <1>1, <1>4 DEF LoopEnds
<1>5. ASSUME NEW d \in Clients, Accept(d) \/ Connect(d) \/ CloseClient(d) PROVE InTouch(c)
  <2>1. CASE Accept(d)
    BY <2>1 DEF Accept, Settled
  <2>2. CASE Connect(d)
    BY <2>2 DEF Connect, Settled
  <2>3. CASE CloseClient(d)
    BY <1>1, <2>3 DEF CloseClient, InTouch, Serving, TypeOK
  <2> QED
    BY <1>5, <2>1, <2>2, <2>3
<1>6. CASE AuthAnswers \/ AuthDown
  BY <1>6 DEF AuthAnswers, AuthDown, Settled
<1>7. ASSUME NEW d \in Clients, NEW t \in RequestTypes,
             SendAccountReq(d, t) \/ \E r \in RoomNames : SendRoomReq(d, t, r)
      PROVE  InTouch(c)
  BY <1>1, <1>7 DEF SendAccountReq, SendRoomReq, InTouch, Serving
<1> QED
  BY <1>3, <1>4, <1>5, <1>6, <1>7 DEF Next

\* What a step delivers to a client that stays in touch takes its view to the rooms as
\* they are after the step.
LEMMA DeliveriesAgree ==
    ASSUME OneNameEach, TypeOK, Settled, AtHome, Next, NEW c \in Clients, InTouch(c)', NEW v,
           Agrees(v, NameOf[c], rooms)
    PROVE  /\ out'[c] \in Seq(Response)
           /\ Agrees(Later(v, out'[c]), NameOf[c], rooms')
<1> DEFINE Goal == /\ out'[c] \in Seq(Response)
                   /\ Agrees(Later(v, out'[c]), NameOf[c], rooms')
           n == NameOf[c]
<1> USE DEF serverVars, netVars, clientVars, authVars
<1>1. conn[c] = "open" /\ wsa' > 0
  BY StillInTouch DEF InTouch, Serving
<1>2. n \in Names /\ rooms \in [Rooms -> SUBSET Names] /\ \A r \in Rooms : rooms[r] \in SUBSET ClientNames
  BY DEF Names, TypeOK, AtHome
<1>3. ASSUME out'[c] = <<>>, rooms' = rooms PROVE Goal
  BY <1>3, LaterViews, EmptyQueue
<1>4. ASSUME out' = Silent, rooms' = rooms PROVE Goal
  BY <1>3, <1>4 DEF Silent
<1>5. ASSUME NEW s \in Sockets, AccountReq(s) PROVE Goal
  <2> DEFINE m == Head(Incoming(s))
             web == [type |-> WebRequestType[m.type], requestId |-> s, name |-> m.name,
                     from |-> peer[s]]
  <2>1. Transmit(AuthHandle, web, {}, web) /\ rooms' = rooms
    BY <1>5 DEF AccountReq
  <2>2. AuthHandle \in Sockets /\ peer[AuthHandle] # c
    BY SystemAssumption, SocketAssumption DEF AtHome
  <2> HIDE DEF web
  <2>3. {} \in SUBSET ClientNames /\ n \notin {}
    OBVIOUS
  <2>4. out'[c] = <<>>
    BY <1>1, <2>1, <2>2, <2>3, Delivered
  <2> QED
    BY <1>3, <2>1, <2>4
<1>6. ASSUME NEW s \in Sockets, JoinRoom(s) PROVE Goal
  <2> DEFINE m == Head(Incoming(s))
             d == peer[s]
             r == m.room
             ntf == [type |-> "JOIN_ROOM_NTF", room |-> m.room, name |-> m.name]
             Ack(status, us) ==
               [type |-> "JOIN_ROOM_ACK", status |-> status, room |-> m.room, users |-> us]
  <2>1. Receive(s, {"JOIN_ROOM_REQ"}) /\ {"JOIN_ROOM_REQ"} \subseteq RoomTypes
    BY <1>6 DEF JoinRoom, RoomTypes
  <2>2. d \in Clients /\ m.name = NameOf[d] /\ m \in Request /\ m.type \in RoomTypes
    BY <2>1, FromClient
  <2>3. r \in RoomNames /\ m.name \in Names /\ m.name \in ClientNames
    BY <2>2, RoomMessage DEF RoomRequest, ClientNames
  <2>4. c = d <=> n = m.name
    BY <2>2 DEF OneNameEach
  <2>5. CASE r \in Rooms
    <3> DEFINE users == rooms[r] \cup {m.name}
               names == users \ {m.name}
               ack == Ack("SUCCESS", users)
    <3>1. /\ rooms' = [rooms EXCEPT ![r] = users]
          /\ Transmit(s, ack, Reachable(users \ {m.name}), ntf)
      BY <1>6, <2>5 DEF JoinRoom
    <3>2. users \in SUBSET Names /\ names \in SUBSET ClientNames
      BY <1>2, <2>3, <2>5
    <3>3. ack \in Response /\ ntf \in Response
      BY <2>3, <3>2 DEF Response, RoomAnswer, RoomNotification
    <3>4. /\ ack.type = "JOIN_ROOM_ACK" /\ ack.status = "SUCCESS" /\ ack.room = r
          /\ ack.users = users
          /\ ntf.type = "JOIN_ROOM_NTF" /\ ntf.room = r /\ ntf.name = m.name
      OBVIOUS
    <3> HIDE DEF ack, ntf, m
    <3> HIDE DEF names
    <3>5. names \in SUBSET ClientNames /\ Transmit(s, ack, names, ntf)
      BY <3>1, <3>2, EverybodyReachable DEF names
    <3>6. /\ out'[c] \in Seq(Response)
          /\ Later(v, out'[c]) =
                LET w == IF peer[s] = c THEN HandleResponse(v, ack) ELSE v
                IN  IF n \in names THEN HandleResponse(w, ntf) ELSE w
      BY <1>1, <3>3, <3>5, DeliveredLater
    <3>7. CASE c = d
      <4>1. n \notin names
        BY <2>4, <3>7 DEF names
      <4>2. Later(v, out'[c]) = HandleResponse(v, ack)
        BY <3>6, <3>7, <4>1
      <4>3. Later(v, out'[c]) = JoinAck(v, ack)
        BY <3>4, <4>2, Handled
      <4>4. m.name = n
        BY <2>4, <3>7
      <4>5. Agrees(JoinAck(v, ack), n, [rooms EXCEPT ![r] = rooms[r] \cup {n}])
        BY <1>2, <2>5, <3>4, <4>4, JoinAckAgrees
      <4> QED
        BY <3>1, <3>6, <4>3, <4>4, <4>5
    <3>8. CASE c # d /\ n \in rooms[r]
      <4>1. n \in names
        BY <2>4, <3>8 DEF names
      <4>2. Later(v, out'[c]) = HandleResponse(v, ntf)
        BY <3>6, <3>8, <4>1
      <4>3. Later(v, out'[c]) = JoinNtf(v, ntf)
        BY <3>4, <4>2, Handled
      <4>4. Agrees(JoinNtf(v, ntf), n, [rooms EXCEPT ![r] = rooms[r] \cup {ntf.name}])
        BY <1>2, <2>3, <2>5, <3>4, <3>8, JoinNtfAgrees
      <4> QED
        BY <3>1, <3>4, <3>6, <4>3, <4>4
    <3>9. CASE c # d /\ n \notin rooms[r]
      <4>1. n \notin users /\ n \notin names
        BY <2>4, <3>9 DEF names
      <4>2. Later(v, out'[c]) = v
        BY <3>6, <3>9, <4>1
      <4>3. Agrees(v, n, [rooms EXCEPT ![r] = users])
        BY <1>2, <2>5, <3>9, <4>1, BystanderAgrees
      <4> QED
        BY <3>1, <3>6, <4>2, <4>3
    <3> QED
      BY <3>7, <3>8, <3>9
  <2>6. CASE r \notin Rooms
    <3> DEFINE ack == Ack("FAILURE", {})
    <3>1. rooms' = rooms /\ Transmit(s, ack, {}, ntf)
      BY <1>6, <2>6 DEF JoinRoom
    <3>2. /\ ack \in Response /\ ntf \in Response
          /\ ack.type = "JOIN_ROOM_ACK" /\ ack.status = "FAILURE"
      BY <2>3 DEF Response, RoomAnswer, RoomNotification
    <3> HIDE DEF ack, ntf, m
    <3>3. /\ out'[c] \in Seq(Response)
          /\ Later(v, out'[c]) =
                LET w == IF peer[s] = c THEN HandleResponse(v, ack) ELSE v
                IN  IF n \in {} THEN HandleResponse(w, ntf) ELSE w
      BY <1>1, <3>1, <3>2, DeliveredLater
    <3>4. HandleResponse(v, ack) = v
      BY <3>2, Handled
    <3>5. out'[c] \in Seq(Response) /\ Later(v, out'[c]) = v
      BY <3>3, <3>4
    <3> QED
      BY <3>1, <3>5
  <2> QED
    BY <2>5, <2>6
<1>7. ASSUME NEW s \in Sockets, LeaveRoom(s) PROVE Goal
  <2> DEFINE m == Head(Incoming(s))
             d == peer[s]
             r == m.room
             ntf == [type |-> "LEAVE_ROOM_NTF", room |-> m.room, name |-> m.name]
             Ack(status) ==
               [type |-> "LEAVE_ROOM_ACK", status |-> status, room |-> m.room, name |-> m.name]
  <2>1. Receive(s, {"LEAVE_ROOM_REQ"}) /\ {"LEAVE_ROOM_REQ"} \subseteq RoomTypes
    BY <1>7 DEF LeaveRoom, RoomTypes
  <2>2. d \in Clients /\ m.name = NameOf[d] /\ m \in Request /\ m.type \in RoomTypes
    BY <2>1, FromClient
  <2>3. r \in RoomNames /\ m.name \in Names
    BY <2>2, RoomMessage DEF RoomRequest
  <2>4. c = d <=> n = m.name
    BY <2>2 DEF OneNameEach
  <2>5. CASE r \in Rooms
    <3> DEFINE users == rooms[r] \ {m.name}
               names == users
               ack == Ack("SUCCESS")
    <3>1. /\ rooms' = [rooms EXCEPT ![r] = users]
          /\ Transmit(s, ack, Reachable(users), ntf)
      BY <1>7, <2>5 DEF LeaveRoom
    <3>2. names \in SUBSET ClientNames
      BY <1>2, <2>5
    <3>3. ack \in Response /\ ntf \in Response
      BY <2>3 DEF Response, RoomAnswer, RoomNotification
    <3>4. /\ ack.type = "LEAVE_ROOM_ACK" /\ ack.status = "SUCCESS" /\ ack.room = r
          /\ ack.name = m.name
          /\ ntf.type = "LEAVE_ROOM_NTF" /\ ntf.room = r /\ ntf.name = m.name
      OBVIOUS
    <3> HIDE DEF ack, ntf, m
    <3> HIDE DEF names
    <3>5. names \in SUBSET ClientNames /\ Transmit(s, ack, names, ntf)
      BY <3>1, <3>2, EverybodyReachable DEF names
    <3>6. /\ out'[c] \in Seq(Response)
          /\ Later(v, out'[c]) =
                LET w == IF peer[s] = c THEN HandleResponse(v, ack) ELSE v
                IN  IF n \in names THEN HandleResponse(w, ntf) ELSE w
      BY <1>1, <3>3, <3>5, DeliveredLater
    <3>7. CASE c = d
      <4>1. n \notin names
        BY <2>4, <3>7 DEF names
      <4>2. Later(v, out'[c]) = HandleResponse(v, ack)
        BY <3>6, <3>7, <4>1
      <4>3. Later(v, out'[c]) = LeaveAck(v, ack)
        BY <3>4, <4>2, Handled
      <4>4. m.name = n
        BY <2>4, <3>7
      <4>5. Agrees(LeaveAck(v, ack), n, [rooms EXCEPT ![r] = rooms[r] \ {n}])
        BY <1>2, <2>5, <3>4, <4>4, LeaveAckAgrees
      <4> QED
        BY <3>1, <3>6, <4>3, <4>4, <4>5
    <3>8. CASE c # d /\ n \in rooms[r]
      <4>1. n \in names
        BY <2>4, <3>8 DEF names
      <4>2. Later(v, out'[c]) = HandleResponse(v, ntf)
        BY <3>6, <3>8, <4>1
      <4>3. Later(v, out'[c]) = LeaveNtf(v, ntf)
        BY <3>4, <4>2, Handled
      <4>4. ntf.name # n
        BY <2>4, <3>4, <3>8
      <4>5. Agrees(LeaveNtf(v, ntf), n, [rooms EXCEPT ![r] = rooms[r] \ {ntf.name}])
        BY <1>2, <2>5, <3>4, <3>8, <4>4, LeaveNtfAgrees
      <4> QED
        BY <3>1, <3>4, <3>6, <4>3, <4>5
    <3>9. CASE c # d /\ n \notin rooms[r]
      <4>1. n \notin users /\ n \notin names
        BY <3>9 DEF names
      <4>2. Later(v, out'[c]) = v
        BY <3>6, <3>9, <4>1
      <4>3. Agrees(v, n, [rooms EXCEPT ![r] = users])
        BY <1>2, <2>5, <3>9, <4>1, BystanderAgrees
      <4> QED
        BY <3>1, <3>6, <4>2, <4>3
    <3> QED
      BY <3>7, <3>8, <3>9
  <2>6. CASE r \notin Rooms
    <3> DEFINE ack == Ack("FAILURE")
    <3>1. rooms' = rooms /\ Transmit(s, ack, {}, ntf)
      BY <1>7, <2>6 DEF LeaveRoom
    <3>2. /\ ack \in Response /\ ntf \in Response
          /\ ack.type = "LEAVE_ROOM_ACK" /\ ack.status = "FAILURE"
      BY <2>3 DEF Response, RoomAnswer, RoomNotification
    <3> HIDE DEF ack, ntf, m
    <3>3. /\ out'[c] \in Seq(Response)
          /\ Later(v, out'[c]) =
                LET w == IF peer[s] = c THEN HandleResponse(v, ack) ELSE v
                IN  IF n \in {} THEN HandleResponse(w, ntf) ELSE w
      BY <1>1, <3>1, <3>2, DeliveredLater
    <3>4. HandleResponse(v, ack) = v
      BY <3>2, Handled
    <3>5. out'[c] \in Seq(Response) /\ Later(v, out'[c]) = v
      BY <3>3, <3>4
    <3> QED
      BY <3>1, <3>5
  <2> QED
    BY <2>5, <2>6
<1>8. ASSUME NEW s \in Sockets, ChatInRoom(s) PROVE Goal
  <2> DEFINE m == Head(Incoming(s))
             ntf == [type |-> "CHAT_IN_ROOM_NTF", room |-> m.room, name |-> m.name]
             ack == ChatAck("SUCCESS", m.room, m.name)
  <2>1. Receive(s, {"CHAT_IN_ROOM_REQ"}) /\ {"CHAT_IN_ROOM_REQ"} \subseteq RoomTypes
    BY <1>8 DEF ChatInRoom, RoomTypes
  <2>2. m \in Request /\ m.type \in RoomTypes
    BY <2>1, FromClient
  <2>3. m.room \in RoomNames /\ m.name \in Names
    BY <2>2, RoomMessage DEF RoomRequest
  <2>4. PICK names \in SUBSET ClientNames : Transmit(s, ack, names, ntf)
    <3>1. CASE m.room \in Rooms
      <4>1. rooms[m.room] \in SUBSET ClientNames /\ Reachable(rooms[m.room]) = rooms[m.room]
        BY <1>2, <3>1, EverybodyReachable
      <4> QED
        BY <1>8, <3>1, <4>1 DEF ChatInRoom
    <3>2. CASE m.room \notin Rooms
      <4>1. Transmit(s, ChatAck("FAILURE", m.room, m.name), {}, ntf)
        BY <1>8, <3>2 DEF ChatInRoom
      <4>2. ChatAck("FAILURE", m.room, m.name) = ack
        BY DEF ChatAck
      <4> QED
        BY <4>1, <4>2
    <3> QED
      BY <3>1, <3>2
  <2>5. /\ ack \in Response /\ ntf \in Response
        /\ ack.type = "CHAT_IN_ROOM_ACK" /\ ntf.type = "CHAT_IN_ROOM_NTF"
    BY <2>3 DEF Response, RoomAnswer, RoomNotification, ChatAck
  <2>6. rooms' = rooms
    BY <1>8 DEF ChatInRoom
  <2> HIDE DEF ack, ntf, m
  <2>7. /\ out'[c] \in Seq(Response)
        /\ Later(v, out'[c]) =
              LET w == IF peer[s] = c THEN HandleResponse(v, ack) ELSE v
              IN  IF n \in names THEN HandleResponse(w, ntf) ELSE w
    BY <1>1, <2>4, <2>5, DeliveredLater
  <2>8. HandleResponse(v, ack) = v /\ HandleResponse(v, ntf) = v
    BY <2>5, Handled
  <2>9. out'[c] \in Seq(Response) /\ Later(v, out'[c]) = v
    BY <2>7, <2>8
  <2> QED
    BY <2>6, <2>9
<1>9. ASSUME NEW s \in Sockets, Serve(s) PROVE Goal
  <2>1. CASE WebAckFrom(s)
    BY <2>1, NoWebAnswers
  <2>2. CASE Disconnect(s)
    BY <1>4, <2>2 DEF Disconnect
  <2> QED
    BY <1>5, <1>6, <1>7, <1>8, <1>9, <2>1, <2>2 DEF Serve
<1>10. ASSUME NEW d \in Clients, Accept(d) \/ Connect(d) \/ CloseClient(d) PROVE Goal
  BY <1>4, <1>10 DEF Accept, Connect, CloseClient
<1>11. ASSUME NEW d \in Clients, NEW t \in RequestTypes,
              SendAccountReq(d, t) \/ \E r \in RoomNames : SendRoomReq(d, t, r)
       PROVE  Goal
  BY <1>4, <1>11 DEF SendAccountReq, SendRoomReq
<1>12. ASSUME LoopEnds \/ AuthAnswers \/ AuthDown PROVE Goal
  BY <1>4, <1>12 DEF LoopEnds, AuthAnswers, AuthDown
<1> HIDE DEF Goal
<1>13. Goal
  <2>1. CASE \E s \in Sockets : Serve(s)
    BY <1>9, <2>1
  <2>2. CASE \E d \in Clients : Accept(d) \/ Connect(d) \/ CloseClient(d)
    BY <1>10, <2>2
  <2>3. CASE \E d \in Clients, t \in RequestTypes : SendAccountReq(d, t)
    BY <1>11, <2>3
  <2>4. CASE \E d \in Clients, t \in RequestTypes, r \in RoomNames : SendRoomReq(d, t, r)
    BY <1>11, <2>4
  <2> QED
    BY <1>12, <2>1, <2>2, <2>3, <2>4 DEF Next
<1> QED
  BY <1>13 DEF Goal
-----------------------------------------------------------------------------
(***************************************************************************)
(* The invariant holds.                                                    *)
(***************************************************************************)
LEMMA UpcomingIsLater == \A c : Upcoming(c) = Later(view[c], inbox[c])
BY DEF Upcoming, Later

\* The accounts have been authenticated, nobody is in a room and nothing is on its way.
LEMMA SystemStart ==
    ASSUME OneNameEach, SystemInit
    PROVE  SystemInv
<1> USE DEF SystemInit
<1>1. \A c \in Clients : SocketOf[c] \in Taken /\ ClientAt(SocketOf[c]) = c
  <2>1. \A c \in Clients : ClientAt(SocketOf[c]) = c
    BY SystemAssumption DEF ClientAt
  <2>2. \A c \in Clients : SocketOf[c] \in Taken
    BY SystemAssumption DEF Taken, Range
  <2> QED
    BY <2>1, <2>2
<1>2. Taken \subseteq Sockets \ {AuthHandle} /\ \A s \in Taken : \E c \in Clients : s = SocketOf[c]
  BY SystemAssumption DEF Taken, Range
<1>3. \A s \in Taken : ClientAt(s) \in Clients /\ s = SocketOf[ClientAt(s)]
  BY <1>1, <1>2
<1>4. \A c \in Clients : /\ NameOf[c] \in Names /\ NameOf[c] # EmptyName
                         /\ (CHOOSE d \in Clients : NameOf[d] = NameOf[c]) = c
  <2>1. \A c \in Clients : NameOf[c] \in Names /\ NameOf[c] # EmptyName
    BY ClientAssumption
  <2>2. \A c \in Clients : (CHOOSE d \in Clients : NameOf[d] = NameOf[c]) = c
    BY DEF OneNameEach
  <2> QED
    BY <2>1, <2>2
<1>5. \A n \in Names \ {EmptyName} : \E c \in Clients : n = NameOf[c]
  BY DEF Names
<1>6. name2socket \in [Names -> Sockets \cup {NoSocket}]
  <2>1. ASSUME NEW n \in Names, n # EmptyName
        PROVE  SocketOf[CHOOSE c \in Clients : NameOf[c] = n] \in Sockets
    <3>1. PICK c \in Clients : n = NameOf[c]
      BY <1>5, <2>1
    <3>2. (CHOOSE d \in Clients : NameOf[d] = n) = c
      BY <1>4, <3>1
    <3> QED
      BY <3>2, SystemAssumption
  <2> QED
    BY <2>1
<1>7. \A c \in Clients : name2socket[NameOf[c]] = SocketOf[c]
  BY <1>4
<1>8. /\ peer \in [Sockets -> Clients \cup {AuthPeer, NoPeer}]
      /\ socket2name \in [Sockets -> Names \cup {NoName}]
      /\ clients \in [Sockets -> {"none", "connected", "disconnected"}]
  BY <1>2, <1>3, <1>4
<1>9. TypeOK
  <2>1. \A S : <<>> \in Seq(S)
    BY EmptyQueue
  <2>2. sent \in [Clients -> 0..MaxRequests] /\ MaxRequests \in Nat
    BY SystemAssumption, SocketAssumption
  <2>3. myName \in [Clients -> Names]
    BY ClientAssumption
  <2>4. toServer \in [Clients -> Seq(Request)] /\ toAuth \in Seq(WebRequest) /\ fromAuth \in Seq(WebAck)
    BY <2>1
  <2>5. owed \in [Clients -> [AccountTypes -> Int]] /\ rooms \in [Rooms -> SUBSET Names]
    <3>1. [t \in AccountTypes |-> 0] \in [AccountTypes -> Int] /\ {} \in SUBSET Names
      OBVIOUS
    <3> QED
      BY <3>1
  <2>6. /\ readfds \subseteq Sockets /\ conn \in [Clients -> {"new", "open", "closed"}]
        /\ running \in BOOLEAN /\ wsa \in 0..2 /\ authUp \in BOOLEAN /\ backlog \subseteq Clients
    <3>1. readfds \subseteq Sockets
      BY <1>2
    <3>2. conn \in [Clients -> {"new", "open", "closed"}]
      OBVIOUS
    <3>3. wsa \in 0..2
      OBVIOUS
    <3>4. running \in BOOLEAN /\ authUp \in BOOLEAN
      OBVIOUS
    <3>5. backlog \subseteq Clients
      OBVIOUS
    <3> QED
      BY <3>1, <3>2, <3>3, <3>4, <3>5
  <2> QED
    BY <1>6, <1>8, <2>2, <2>3, <2>4, <2>5, <2>6 DEF TypeOK
<1>10. Settled
  BY DEF Settled
<1>11. AtHome
  <2>1. \A s \in Sockets : peer[s] # AuthPeer /\ (peer[s] \in Clients => s = SocketOf[peer[s]])
    BY <1>3, ClientAssumption
  <2>2. \A c \in Clients : /\ peer[SocketOf[c]] = c
                           /\ socket2name[SocketOf[c]] = NameOf[c]
    BY <1>1, SystemAssumption
  <2>3. \A c \in Clients : Range(toServer[c]) = {}
    BY EmptyQueue
  <2>4. \A r \in Rooms : rooms[r] = {}
    OBVIOUS
  <2> QED
    BY <1>7, <2>1, <2>2, <2>3, <2>4 DEF AtHome
<1>12. ViewsAgree
  <2>1. ASSUME NEW c \in Clients
        PROVE  inbox[c] \in Seq(Response) /\ Agrees(Upcoming(c), NameOf[c], rooms)
    <3>1. inbox[c] = <<>> /\ view[c] = NewView /\ <<>> \in Seq(Response)
      BY EmptyQueue
    <3>2. Upcoming(c) = NewView
      BY <3>1, UpcomingIsLater, LaterViews
    <3>3. <<>> \in [{} -> SUBSET Names] /\ DOMAIN <<>> = {}
      OBVIOUS
    <3>4. NewView \in View
      BY <3>3, MakeView DEF NewView
    <3>5. NewView.joined = {} /\ Entries(NewView) = {}
      BY <3>3 DEF NewView, Entries
    <3>6. Agrees(NewView, NameOf[c], rooms)
      BY <3>4, <3>5 DEF Agrees
    <3> QED
      BY <3>1, <3>2, <3>6
  <2> QED
    BY <2>1 DEF ViewsAgree
<1> QED
  BY <1>9, <1>10, <1>11, <1>12 DEF SystemInv

\* What a client takes from its inbox was already part of its upcoming view.
LEMMA SystemStep ==
    ASSUME OneNameEach, ClientBurst = 1, SystemInv, [SystemNext]_systemVars
    PROVE  SystemInv'
<1> USE DEF SystemInv
<1>1. CASE ServerStep
  <2>1. Next
    BY <1>1 DEF ServerStep
  <2>2. TypeOK' /\ Settled' /\ AtHome'
    BY <2>1, TypeStep, HomeStep
  <2>3. ASSUME NEW c \in Clients, InTouch(c)'
        PROVE  inbox'[c] \in Seq(Response) /\ Agrees(Upcoming(c)', NameOf[c], rooms')
    <3>1. InTouch(c)
      BY <2>1, <2>3, StillInTouch
    <3>2. inbox[c] \in Seq(Response) /\ Agrees(Upcoming(c), NameOf[c], rooms)
      BY <3>1 DEF ViewsAgree
    <3>3. out'[c] \in Seq(Response) /\ Agrees(Later(Upcoming(c), out'[c]), NameOf[c], rooms')
      BY <2>1, <2>3, <3>2, DeliveriesAgree
    <3>4. inbox'[c] = inbox[c] \o out'[c] /\ view' = view
      <4>1. conn'[c] = "open"
        BY <2>3 DEF InTouch
      <4> QED
        BY <1>1, <4>1 DEF ServerStep
    <3>5. Upcoming(c) = Later(view[c], inbox[c]) /\ Upcoming(c)' = Later(view'[c], inbox'[c])
      BY DEF Upcoming, Later
    <3>6. Later(view[c], inbox[c] \o out'[c]) = Later(Later(view[c], inbox[c]), out'[c])
      BY <3>2, <3>3, LaterConcat
    <3>7. inbox[c] \o out'[c] \in Seq(Response)
      BY <3>2, <3>3, ConcatProperties
    <3> QED
      BY <3>3, <3>4, <3>5, <3>6, <3>7
  <2>4. DOMAIN inbox' = Clients /\ DOMAIN view' = Clients
    BY <1>1 DEF ServerStep, ViewsAgree
  <2> QED
    BY <2>2, <2>3, <2>4 DEF ViewsAgree
<1>2. ASSUME NEW d \in Clients, RecvResponse(d) PROVE SystemInv'
  <2>1. UNCHANGED <<serverVars, netVars, clientVars, toServer, authVars, fromAuth, owed>>
    BY <1>2 DEF RecvResponse
  <2>2. TypeOK' /\ Settled' /\ AtHome'
    BY <2>1 DEF TypeOK, Settled, AtHome, serverVars, netVars, clientVars, authVars
  <2>3. /\ inbox[d] # <<>>
        /\ inbox' = [inbox EXCEPT ![d] = SubSeq(inbox[d], 2, Len(inbox[d]))]
        /\ view' = [view EXCEPT ![d] = HandleResponse(view[d], Head(inbox[d]))]
    <3>1. PICK n \in 1..1 : inbox' = [inbox EXCEPT ![d] = SubSeq(@, n + 1, Len(@))]
      BY <1>2 DEF RecvResponse
    <3>2. n + 1 = 2
      OBVIOUS
    <3> QED
      BY <1>2, <3>1, <3>2 DEF RecvResponse
  <2>4. \A c : InTouch(c)' = InTouch(c)
    BY <2>1 DEF InTouch, Serving, serverVars, clientVars
  <2>5. ASSUME NEW c \in Clients, InTouch(c)
        PROVE  inbox'[c] \in Seq(Response) /\ Upcoming(c)' = Upcoming(c)
    <3>1. inbox[c] \in Seq(Response)
      BY <2>5 DEF ViewsAgree
    <3>2. Upcoming(c) = Later(view[c], inbox[c]) /\ Upcoming(c)' = Later(view'[c], inbox'[c])
      BY DEF Upcoming, Later
    <3>3. CASE c = d
      <4> DEFINE q == inbox[d]
                 w == HandleResponse(view[d], Head(q))
      <4>1. inbox'[c] = SubSeq(q, 2, Len(q)) /\ view'[c] = w
        BY <2>3, <3>3 DEF ViewsAgree
      <4>2. q \in Seq(Response) /\ q # <<>>
        BY <2>3, <3>1, <3>3
      <4>3. Tail(q) \in Seq(Response) /\ Tail(q) = SubSeq(q, 2, Len(q))
        BY <4>2, HeadTailProperties, TailIsSubSeq
      <4> HIDE DEF q, w
      <4>4. Later(view[d], q) = Later(Applied(HandleResponse, view[d], Head(q)), Tail(q))
        BY <4>2, FoldFirst DEF Later
      <4>5. Applied(HandleResponse, view[d], Head(q)) = w
        BY DEF Applied, w
      <4> QED
        BY <3>2, <3>3, <4>1, <4>3, <4>4, <4>5 DEF q
    <3>4. CASE c # d
      BY <2>3, <3>1, <3>2, <3>4 DEF ViewsAgree
    <3> QED
      BY <3>3, <3>4
  <2>6. DOMAIN inbox' = Clients /\ DOMAIN view' = Clients /\ rooms' = rooms
    BY <2>1, <2>3 DEF ViewsAgree, serverVars
  <2>7. ViewsAgree'
    BY <2>4, <2>5, <2>6 DEF ViewsAgree
  <2> QED
    BY <2>2, <2>7
<1>3. CASE UNCHANGED systemVars
  BY <1>3 DEF systemVars, vars, TypeOK, Settled, AtHome, ViewsAgree, InTouch, Serving, Upcoming,
              serverVars, netVars, clientVars, authVars
<1> QED
  BY <1>1, <1>2, <1>3 DEF SystemNext

\* The invariant holds of every reachable state.
LEMMA SystemInvariant ==
    ASSUME OneNameEach, ClientBurst = 1
    PROVE  SystemSpec => []SystemInv
<1>1. SystemInit => SystemInv
  BY SystemStart
<1>2. SystemInv /\ [SystemNext]_systemVars => SystemInv'
  BY SystemStep
<1> QED
  BY <1>1, <1>2, PTL DEF SystemSpec

\* Once a client has handled what has arrived, the rooms it lists as joined are exactly those
\* the server has it in: HandleMessage() sends the answer before the notifications, and one
\* select loop serves all.
THEOREM JoinedRoomsRight ==
    ASSUME OneNameEach, ClientBurst = 1
    PROVE  SystemSpec => []JoinedRoomsAgree
<1>1. SystemInv => JoinedRoomsAgree
  BY DEF SystemInv, ViewsAgree, Agrees, JoinedRoomsAgree
<1> QED
  BY <1>1, SystemInvariant, PTL

\* A client in a room is shown every user the server has in it, in whatever order they came:
\* kJOIN_ROOM_ACK brings those who were there, kJOIN_ROOM_NTF those who come later.
THEOREM NobodyMissed ==
    ASSUME OneNameEach, ClientBurst = 1
    PROVE  SystemSpec => []NobodyIsMissed
<1>1. SystemInv => NobodyIsMissed
  BY DEF SystemInv, ViewsAgree, Agrees, NobodyIsMissed
<1> QED
  BY <1>1, SystemInvariant, PTL

\* In a room the client has never left, the list is exact: what makes it stale is only the
\* entry that LeaveAck keeps from an earlier visit.
THEOREM UserListsExact ==
    ASSUME OneNameEach, ClientBurst = 1
    PROVE  SystemSpec => []UserListsAreExact
<1>1. SystemInv => UserListsAreExact
  BY DEF SystemInv, ViewsAgree, Agrees, UserListsAreExact
<1> QED
  BY <1>1, SystemInvariant, PTL
=============================================================================
