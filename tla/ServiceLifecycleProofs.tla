----------------------- MODULE ServiceLifecycleProofs ------------------------
(***************************************************************************)
(* Proofs about ServiceLifecycle, for any number of processes of the three *)
(* programs, any number of calls that fail, and whether or not the values  *)
(* of closed sockets are handed out again.                                 *)
(***************************************************************************)
EXTENDS ServiceLifecycle, TLAPS

Calls == {"off", "WSAStartup", "getaddrinfo", "socket", "bind", "listen", "connect",
          "ioctlsocket", "database", "select", "loop", "keys", "join", "Shutdown"}
InfoStates == {"null", "allocated", "freed", "freed twice"}
SocketStates == Open \cup {"unused", "closed"}

Types ==
    /\ pc \in [Processes -> Calls]
    /\ part \in [Processes -> Part]
    /\ info \in [Processes -> [Part -> InfoStates]]
    /\ own \in [Processes -> [Part -> SocketValues \cup {INVALID_SOCKET}]]
    /\ sock \in [Processes -> [SocketValues -> SocketStates]]
    /\ prepared \in [Processes -> BOOLEAN]

IsOpen(p, w) == own[p][w] \in SocketValues /\ sock[p][own[p][w]] \in Open

(***************************************************************************)
(* What a server has got at each call.                                     *)
(***************************************************************************)
Off(p) ==
    /\ part[p] = "service"
    /\ own[p] = NoneOwned
    /\ p \in listened => info[p]["service"] \in {"allocated", "freed"}
    /\ info[p]["authConn"] \in {"null", "allocated", "freed"}

\* The part that listens is being initialized.
FirstPartInv(p) ==
    /\ pc[p] \in {"WSAStartup", "getaddrinfo", "socket", "bind", "listen"}
    /\ p \notin listened
    /\ own[p]["authConn"] = INVALID_SOCKET
    /\ info[p]["authConn"] = "null"
    /\ info[p]["service"] = IF pc[p] \in {"WSAStartup", "getaddrinfo"} THEN "null" ELSE "allocated"
    /\ pc[p] \in {"WSAStartup", "getaddrinfo", "socket"} => own[p]["service"] = INVALID_SOCKET
    /\ pc[p] = "bind" => own[p]["service"] \in SocketValues /\ sock[p][own[p]["service"]] = "open"
    /\ pc[p] = "listen" => own[p]["service"] \in SocketValues /\ sock[p][own[p]["service"]] = "bound"

\* It has been, or was given up: then its socket is closed or its value is used again.
ServiceSocketInv(p) ==
    own[p]["service"] \in SocketValues =>
        \/ sock[p][own[p]["service"]] = "listening"
        \/ info[p]["service"] = "freed" /\ sock[p][own[p]["service"]] = "closed"
        \/ /\ info[p]["service"] = "freed" /\ ReuseHandles
           /\ p \in ChatServers => own[p]["service"] = own[p]["authConn"]
           /\ p \in AuthServers => sock[p][own[p]["service"]] = "connected"

ChatPartInv(p) ==
    /\ pc[p] \in {"WSAStartup", "getaddrinfo", "socket", "connect", "select", "loop", "Shutdown"}
    /\ pc[p] \in {"WSAStartup", "getaddrinfo"} => info[p]["authConn"] = "null"
    /\ pc[p] \in {"socket", "connect"} => info[p]["authConn"] = "allocated"
    /\ pc[p] \in {"WSAStartup", "getaddrinfo", "socket"} => own[p]["authConn"] = INVALID_SOCKET
    /\ pc[p] = "connect" => own[p]["authConn"] \in SocketValues /\ sock[p][own[p]["authConn"]] = "open"
    /\ pc[p] \in {"select", "loop"} /\ IsOpen(p, "authConn") => sock[p][own[p]["authConn"]] = "connected"

AuthPartInv(p) ==
    /\ pc[p] \in {"database", "select", "loop", "Shutdown"}
    /\ pc[p] \in {"select", "loop"} => prepared[p]

SecondPartInv(p) ==
    /\ info[p]["service"] \in {"null", "allocated", "freed"}
    /\ p \in listened => info[p]["service"] = "allocated"
    /\ info[p]["authConn"] \in {"null", "allocated", "freed"}
    /\ pc[p] # "Shutdown" => ServiceSocketInv(p)
    /\ p \in ChatServers => ChatPartInv(p)
    /\ p \in AuthServers => AuthPartInv(p)
    /\ pc[p] = "loop" => \A w \in PartsOf(p) : IsOpen(p, w)

ServerInv(p) ==
    /\ info[p]["chatConn"] = "null"
    /\ part[p] \in {"service", "authConn"}
    /\ pc[p] = "off" => Off(p)
    /\ pc[p] # "off" /\ part[p] = "service" => FirstPartInv(p)
    /\ pc[p] # "off" /\ part[p] = "authConn" => SecondPartInv(p)

(***************************************************************************)
(* What a client has got.                                                  *)
(***************************************************************************)
ClientInv(p) ==
    /\ part[p] = "chatConn"
    /\ pc[p] \in {"off", "WSAStartup", "getaddrinfo", "socket", "connect", "ioctlsocket",
                  "keys", "join", "Shutdown"}
    /\ info[p]["service"] = "null" /\ info[p]["authConn"] = "null"
    /\ info[p]["chatConn"] \in {"null", "allocated", "freed"}
    /\ pc[p] \in {"WSAStartup", "getaddrinfo"} => info[p]["chatConn"] = "null"
    /\ pc[p] \in {"socket", "connect", "ioctlsocket"} => info[p]["chatConn"] = "allocated"
    /\ pc[p] \in {"off", "WSAStartup", "getaddrinfo", "socket"} =>
          own[p]["chatConn"] = INVALID_SOCKET
    /\ IsOpen(p, "chatConn") => info[p]["chatConn"] = "allocated"

ProcessInv(p) ==
    /\ p \in Servers => ServerInv(p)
    /\ p \in ChatClients => ClientInv(p)

Inv == Types /\ \A p \in Processes : ProcessInv(p)
-----------------------------------------------------------------------------
\* A step that leaves what belongs to a process alone keeps what is said of it.
Same(q) ==
    /\ pc'[q] = pc[q] /\ part'[q] = part[q] /\ info'[q] = info[q] /\ own'[q] = own[q]
    /\ sock'[q] = sock[q] /\ prepared'[q] = prepared[q] /\ (q \in listened' <=> q \in listened)

LEMMA SameServer ==
    ASSUME NEW q \in Servers, Same(q), ServerInv(q)
    PROVE  ServerInv(q)'
<1>1. Off(q) => Off(q)'
  BY DEF Same, Off
<1>2. FirstPartInv(q) => FirstPartInv(q)'
  BY DEF Same, FirstPartInv
<1>3. ServiceSocketInv(q) => ServiceSocketInv(q)'
  BY DEF Same, ServiceSocketInv
<1>4. \A w : IsOpen(q, w)' <=> IsOpen(q, w)
  BY DEF Same, IsOpen
<1>5. ChatPartInv(q) => ChatPartInv(q)'
  BY <1>4 DEF Same, ChatPartInv
<1>6. AuthPartInv(q) => AuthPartInv(q)'
  BY DEF Same, AuthPartInv
<1>7. SecondPartInv(q) => SecondPartInv(q)'
  BY <1>3, <1>4, <1>5, <1>6 DEF Same, SecondPartInv
<1> QED
  BY <1>1, <1>2, <1>7 DEF Same, ServerInv

LEMMA SameClient ==
    ASSUME NEW q \in ChatClients, Same(q), ClientInv(q)
    PROVE  ClientInv(q)'
BY DEF Same, ClientInv, IsOpen

LEMMA Frame ==
    ASSUME Inv, NEW p \in Processes, Types', ProcessInv(p)',
           \A q \in Processes : q # p => Same(q)
    PROVE  Inv'
<1>1. ASSUME NEW q \in Processes, q # p PROVE ProcessInv(q)'
  BY <1>1, SameServer, SameClient DEF Inv, ProcessInv
<1> QED
  BY <1>1 DEF Inv

LEMMA Kinds ==
    ASSUME NEW p \in Processes
    PROVE  /\ p \in Servers <=> p \notin ChatClients
           /\ p \in Servers <=> (p \in ChatServers \/ p \in AuthServers)
           /\ ~(p \in ChatServers /\ p \in AuthServers)
BY ProcessAssumption DEF Processes, Servers
-----------------------------------------------------------------------------
LEMMA StartInv == ASSUME Inv, NEW p \in Processes, Start(p) PROVE Inv'
<1>1. Types'
  BY DEF Inv, Types, Start, At, GoTo, Calls, InfoStates
<1>2. \A q \in Processes : q # p => Same(q)
  BY DEF Inv, Types, Start, At, GoTo, Same
<1>3. /\ pc[p] = "off" /\ pc'[p] = "WSAStartup" /\ part'[p] = part[p] /\ own'[p] = own[p]
      /\ info'[p] = [w \in Part |-> "null"] /\ p \notin listened'
  BY DEF Inv, Types, Start, At, GoTo
<1>4. p \in Servers => ServerInv(p)'
  BY <1>3 DEF Inv, ProcessInv, ServerInv, Off, FirstPartInv, NoneOwned, Part
<1>5. p \in ChatClients => ClientInv(p)'
  BY <1>3, ProcessAssumption DEF Inv, ProcessInv, ClientInv, IsOpen, Part
<1> QED
  BY <1>1, <1>2, <1>4, <1>5, Frame DEF ProcessInv

LEMMA NextCall ==
    ASSUME NEW p \in Processes
    PROVE  /\ AfterPart(p) \in Calls
           /\ p \in ChatClients => AfterPart(p) = "keys"
           /\ p \in AuthServers => AfterPart(p) = "database"
           /\ p \in ChatServers =>
                  AfterPart(p) = IF part[p] = "service" THEN "WSAStartup" ELSE "select"
<1>1. CASE p \in ChatClients
  BY <1>1, Kinds DEF AfterPart, Calls
<1>2. CASE p \in AuthServers
  BY <1>2, Kinds DEF AfterPart, Calls
<1>3. CASE p \in ChatServers
  BY <1>3, Kinds DEF AfterPart, Calls
<1> QED
  BY <1>1, <1>2, <1>3, Kinds

\* What the end of a part, in an error path, does to the process.
LEMMA GiveUpEffect ==
    ASSUME Types, NEW p \in Processes, NEW free \in BOOLEAN, NEW close \in BOOLEAN,
           GiveUp(p, free, close)
    PROVE  /\ pc' \in [Processes -> Calls] /\ part' \in [Processes -> Part]
           /\ info' \in [Processes -> [Part -> InfoStates]]
           /\ sock' \in [Processes -> [SocketValues -> SocketStates]]
           /\ \A q \in Processes : q # p =>
                 pc'[q] = pc[q] /\ part'[q] = part[q] /\ info'[q] = info[q] /\ sock'[q] = sock[q]
           /\ pc'[p] = AfterPart(p)
           /\ part'[p] = IF p \in ChatClients THEN "chatConn" ELSE "authConn"
           /\ info'[p] = IF free THEN [info[p] EXCEPT ![part[p]] = Freed(@)] ELSE info[p]
           /\ sock'[p] = IF close THEN Closed(sock[p], own[p][part[p]]) ELSE sock[p]
<1>1. pc' = [pc EXCEPT ![p] = AfterPart(p)] /\ AfterPart(p) \in Calls
  BY NextCall DEF GiveUp, EndPart
<1>2. part' = [part EXCEPT ![p] = IF p \in ChatClients THEN "chatConn" ELSE "authConn"]
  BY DEF GiveUp, EndPart
<1>3. Freed(info[p][part[p]]) \in InfoStates
  BY DEF Freed, InfoStates, Types
<1>4. /\ info' \in [Processes -> [Part -> InfoStates]]
      /\ \A q \in Processes : q # p => info'[q] = info[q]
      /\ info'[p] = IF free THEN [info[p] EXCEPT ![part[p]] = Freed(@)] ELSE info[p]
  BY <1>3 DEF GiveUp, Types
<1>5. Closed(sock[p], own[p][part[p]]) \in [SocketValues -> SocketStates]
  BY DEF Closed, Types, SocketStates
<1>6. /\ sock' \in [Processes -> [SocketValues -> SocketStates]]
      /\ \A q \in Processes : q # p => sock'[q] = sock[q]
      /\ sock'[p] = IF close THEN Closed(sock[p], own[p][part[p]]) ELSE sock[p]
  BY <1>5 DEF GiveUp, Types
<1> QED
  BY <1>1, <1>2, <1>4, <1>6 DEF Types, Part

\* An error path of a server's first part and of its second, and of a client's only one.
LEMMA GiveUpFirst ==
    ASSUME Inv, NEW p \in Servers, NEW free \in BOOLEAN, NEW close \in BOOLEAN,
           part[p] = "service", FirstPartInv(p), GiveUp(p, free, close),
           UNCHANGED <<own, prepared, listened>>,
           free <=> pc[p] \in {"socket", "bind", "listen"},
           close <=> pc[p] \in {"bind", "listen"}
    PROVE  ServerInv(p)'
<1>1. p \in Processes
  BY DEF Processes
<1>2. Types
  BY DEF Inv
<1>3. /\ pc'[p] = AfterPart(p) /\ part'[p] = "authConn"
      /\ info'[p] = IF free THEN [info[p] EXCEPT !["service"] = Freed(@)] ELSE info[p]
      /\ sock'[p] = IF close THEN Closed(sock[p], own[p]["service"]) ELSE sock[p]
  BY <1>1, <1>2, GiveUpEffect, Kinds
<1>4. /\ own'[p] = own[p] /\ own[p]["authConn"] = INVALID_SOCKET /\ p \notin listened'
      /\ INVALID_SOCKET \notin SocketValues
  BY ProcessAssumption DEF FirstPartInv
<1>5. /\ info'[p]["service"] = IF free THEN "freed" ELSE "null"
      /\ info'[p]["authConn"] = "null" /\ info'[p]["chatConn"] = "null"
  <2>1. info[p] \in [Part -> InfoStates] /\ info[p]["chatConn"] = "null"
    BY <1>1, <1>2 DEF Types, Inv, ProcessInv, ServerInv
  <2>2. CASE free
    BY <1>3, <2>1, <2>2 DEF FirstPartInv, Part, Freed
  <2>3. CASE ~free
    BY <1>3, <2>1, <2>3 DEF FirstPartInv
  <2> QED
    BY <2>2, <2>3
<1>6. ServiceSocketInv(p)'
  <2>1. CASE close
    <3>1. own[p]["service"] \in SocketValues /\ sock[p][own[p]["service"]] \in Open /\ free
      BY <2>1 DEF FirstPartInv, Open
    <3>2. sock'[p][own[p]["service"]] = "closed"
      BY <1>3, <2>1, <3>1 DEF Closed
    <3> QED
      BY <1>4, <1>5, <3>1, <3>2 DEF ServiceSocketInv
  <2>2. CASE ~close
    BY <1>4, <2>2 DEF FirstPartInv, ServiceSocketInv
  <2> QED
    BY <2>1, <2>2
<1>7. /\ p \in ChatServers => pc'[p] = "WSAStartup"
      /\ p \in AuthServers => pc'[p] = "database"
  BY <1>1, <1>3, NextCall
<1>8. p \in ChatServers => ChatPartInv(p)'
  BY <1>4, <1>5, <1>7 DEF ChatPartInv
<1>9. p \in AuthServers => AuthPartInv(p)'
  BY <1>7 DEF AuthPartInv
<1>10. SecondPartInv(p)'
  BY <1>1, <1>4, <1>5, <1>6, <1>7, <1>8, <1>9, Kinds DEF SecondPartInv
<1> QED
  BY <1>1, <1>3, <1>5, <1>7, <1>10, Kinds DEF ServerInv

LEMMA GiveUpSecond ==
    ASSUME Inv, NEW p \in Servers, NEW free \in BOOLEAN, NEW close \in BOOLEAN,
           part[p] = "authConn", SecondPartInv(p), p \in ChatServers, GiveUp(p, free, close),
           UNCHANGED <<own, prepared, listened>>,
           pc[p] \in {"getaddrinfo", "socket", "connect"},
           free <=> pc[p] \in {"socket", "connect"},
           close <=> pc[p] = "connect"
    PROVE  ServerInv(p)'
<1>1. p \in Processes
  BY DEF Processes
<1>2. Types
  BY DEF Inv
<1>3. /\ pc'[p] = "select" /\ part'[p] = "authConn"
      /\ info'[p] = IF free THEN [info[p] EXCEPT !["authConn"] = Freed(@)] ELSE info[p]
      /\ sock'[p] = IF close THEN Closed(sock[p], own[p]["authConn"]) ELSE sock[p]
  BY <1>1, <1>2, GiveUpEffect, Kinds, NextCall
<1>4. own'[p] = own[p] /\ (p \in listened' <=> p \in listened) /\ INVALID_SOCKET \notin SocketValues
  BY ProcessAssumption
<1>5. /\ info'[p]["service"] = info[p]["service"]
      /\ info'[p]["authConn"] \in {"null", "freed"}
      /\ info'[p]["chatConn"] = "null"
  <2>1. info[p] \in [Part -> InfoStates] /\ info[p]["chatConn"] = "null"
    BY <1>1, <1>2 DEF Types, Inv, ProcessInv, ServerInv
  <2>2. CASE free
    BY <1>3, <2>1, <2>2 DEF SecondPartInv, ChatPartInv, Part, Freed
  <2>3. CASE ~free
    BY <1>3, <2>1, <2>3 DEF SecondPartInv, ChatPartInv
  <2> QED
    BY <2>2, <2>3
<1>6. ~IsOpen(p, "authConn")'
  <2>1. CASE close
    BY <1>3, <1>4, <2>1 DEF Closed, IsOpen, Open
  <2>2. CASE ~close
    BY <1>4, <2>2 DEF SecondPartInv, ChatPartInv, IsOpen
  <2> QED
    BY <2>1, <2>2
<1>7. ServiceSocketInv(p)'
  <2>1. ServiceSocketInv(p)
    BY DEF SecondPartInv
  <2>2. CASE ~close
    BY <1>3, <1>4, <1>5, <2>1, <2>2 DEF ServiceSocketInv, Kinds
  <2>3. CASE close
    <3> SUFFICES ASSUME own[p]["service"] \in SocketValues
                 PROVE  \/ sock'[p][own[p]["service"]] = "listening"
                        \/ /\ info'[p]["service"] = "freed"
                           /\ sock'[p][own[p]["service"]] = "closed"
      BY <1>4 DEF ServiceSocketInv
    <3>1. /\ own[p]["authConn"] \in SocketValues
          /\ sock[p][own[p]["authConn"]] = "open"
      BY <2>3 DEF SecondPartInv, ChatPartInv
    <3>2. CASE own[p]["service"] = own[p]["authConn"]
      BY <1>3, <1>5, <2>1, <2>3, <3>1, <3>2 DEF ServiceSocketInv, Closed, Open
    <3>3. CASE own[p]["service"] # own[p]["authConn"]
      BY <1>3, <1>5, <2>1, <2>3, <3>1, <3>3 DEF ServiceSocketInv, Closed
    <3> QED
      BY <3>2, <3>3
  <2> QED
    BY <2>2, <2>3
<1>8. ChatPartInv(p)'
  BY <1>3, <1>6 DEF ChatPartInv
<1>9. SecondPartInv(p)'
  BY <1>1, <1>3, <1>4, <1>5, <1>7, <1>8, Kinds DEF SecondPartInv
<1> QED
  BY <1>1, <1>3, <1>5, <1>9, Kinds DEF ServerInv

LEMMA GiveUpClient ==
    ASSUME Inv, NEW p \in ChatClients, NEW free \in BOOLEAN, NEW close \in BOOLEAN,
           GiveUp(p, free, close), UNCHANGED own,
           pc[p] \in {"getaddrinfo", "socket", "connect", "ioctlsocket"},
           free <=> pc[p] \in {"socket", "connect", "ioctlsocket"},
           close <=> pc[p] \in {"connect", "ioctlsocket"}
    PROVE  ClientInv(p)'
<1>1. p \in Processes /\ Types /\ ClientInv(p)
  BY DEF Processes, Inv, ProcessInv
<1>2. /\ pc'[p] = "keys" /\ part'[p] = "chatConn"
      /\ info'[p] = IF free THEN [info[p] EXCEPT !["chatConn"] = Freed(@)] ELSE info[p]
      /\ sock'[p] = IF close THEN Closed(sock[p], own[p]["chatConn"]) ELSE sock[p]
  BY <1>1, GiveUpEffect, NextCall DEF ClientInv
<1>3. /\ info'[p]["service"] = "null" /\ info'[p]["authConn"] = "null"
      /\ info'[p]["chatConn"] \in {"null", "freed"}
  BY <1>1, <1>2 DEF ClientInv, Types, Part, Freed
<1>4. ~IsOpen(p, "chatConn")'
  <2>1. CASE close
    BY <1>2, <2>1 DEF Closed, IsOpen, Open
  <2>2. CASE ~close
    BY <1>1, <2>2, ProcessAssumption DEF ClientInv, IsOpen
  <2> QED
    BY <2>1, <2>2
<1> QED
  BY <1>2, <1>3, <1>4 DEF ClientInv

LEMMA GiveUpInv ==
    ASSUME Inv, NEW p \in Processes, NEW free \in BOOLEAN, NEW close \in BOOLEAN,
           GiveUp(p, free, close), UNCHANGED <<own, prepared, listened>>,
           pc[p] \in {"getaddrinfo", "socket", "bind", "listen", "connect", "ioctlsocket"},
           free <=> pc[p] # "getaddrinfo",
           close <=> pc[p] \notin {"getaddrinfo", "socket"}
    PROVE  Inv'
<1>1. Types /\ ProcessInv(p)
  BY DEF Inv
<1>2. Types'
  BY <1>1, GiveUpEffect DEF Types
<1>3. \A q \in Processes : q # p => Same(q)
  BY <1>1, GiveUpEffect DEF Same
<1>4. CASE p \in ChatClients
  <2>1. ClientInv(p) /\ p \notin Servers
    BY <1>1, <1>4, Kinds DEF ProcessInv
  <2>2. ClientInv(p)'
    BY <1>4, <2>1, GiveUpClient DEF ClientInv
  <2> QED
    BY <1>2, <1>3, <2>1, <2>2, Frame DEF ProcessInv
<1>5. CASE p \in Servers
  <2>1. ServerInv(p) /\ p \notin ChatClients
    BY <1>1, <1>5, Kinds DEF ProcessInv
  <2>2. CASE part[p] = "service"
    <3>1. FirstPartInv(p)
      BY <2>1, <2>2 DEF ServerInv
    <3> QED
      BY <1>2, <1>3, <1>5, <2>1, <2>2, <3>1, GiveUpFirst, Frame DEF ProcessInv, FirstPartInv
  <2>3. CASE part[p] = "authConn"
    <3>1. SecondPartInv(p)
      BY <2>1, <2>3 DEF ServerInv
    <3>2. p \in ChatServers /\ pc[p] \in {"getaddrinfo", "socket", "connect"}
      BY <1>5, <3>1, Kinds DEF SecondPartInv, AuthPartInv, ChatPartInv
    <3> QED
      BY <1>2, <1>3, <1>5, <2>1, <2>3, <3>1, <3>2, GiveUpSecond, Frame DEF ProcessInv
  <2> QED
    BY <2>1, <2>2, <2>3 DEF ServerInv
<1> QED
  BY <1>4, <1>5, Kinds
-----------------------------------------------------------------------------
LEMMA WSAStartupInv == ASSUME Inv, NEW p \in Processes, WSAStartup(p) PROVE Inv'
<1>1. Types /\ ProcessInv(p) /\ pc[p] = "WSAStartup" /\ INVALID_SOCKET \notin SocketValues
  BY ProcessAssumption DEF Inv, WSAStartup, At
<1>2. /\ info' = info /\ own' = own /\ sock' = sock /\ prepared' = prepared
      /\ listened' = listened
  BY DEF WSAStartup, serverVars
<1>3. \/ pc' = [pc EXCEPT ![p] = "getaddrinfo"] /\ part' = part
      \/ /\ pc' = [pc EXCEPT ![p] = AfterPart(p)]
         /\ part' = [part EXCEPT ![p] = IF p \in ChatClients THEN "chatConn" ELSE "authConn"]
  BY DEF WSAStartup, GoTo, EndPart
<1>4. Types'
  BY <1>1, <1>2, <1>3, NextCall DEF Types, Calls, Part
<1>5. \A q \in Processes : q # p => Same(q)
  BY <1>1, <1>2, <1>3 DEF Types, Same
<1>6. \/ pc'[p] = "getaddrinfo" /\ part'[p] = part[p]
      \/ /\ pc'[p] = AfterPart(p)
         /\ part'[p] = IF p \in ChatClients THEN "chatConn" ELSE "authConn"
  BY <1>1, <1>3 DEF Types
<1>7. p \in ChatClients => ClientInv(p)'
  BY <1>1, <1>2, <1>6, NextCall DEF ProcessInv, ClientInv, IsOpen
<1>8. ASSUME p \in Servers PROVE ServerInv(p)'
  <2>1. ServerInv(p) /\ p \notin ChatClients
    BY <1>1, <1>8, Kinds DEF ProcessInv
  <2>2. CASE part[p] = "service"
    <3>1. FirstPartInv(p)
      BY <1>1, <2>1, <2>2 DEF ServerInv
    <3>2. CASE pc'[p] = "getaddrinfo" /\ part'[p] = part[p]
      BY <1>1, <1>2, <2>1, <2>2, <3>1, <3>2 DEF ServerInv, FirstPartInv
    <3>3. CASE pc'[p] = AfterPart(p) /\ part'[p] = "authConn"
      <4>1. /\ p \in ChatServers => pc'[p] = "WSAStartup"
            /\ p \in AuthServers => pc'[p] = "database"
        BY <2>2, <3>3, NextCall
      <4>2. SecondPartInv(p)'
        BY <1>1, <1>2, <1>8, <3>1, <3>3, <4>1, Kinds
           DEF FirstPartInv, SecondPartInv, ServiceSocketInv, ChatPartInv, AuthPartInv
      <4> QED
        BY <1>2, <1>8, <2>1, <3>3, <4>1, <4>2, Kinds DEF ServerInv
    <3> QED
      BY <1>6, <2>1, <3>2, <3>3
  <2>3. CASE part[p] = "authConn"
    <3>1. SecondPartInv(p) /\ p \in ChatServers
      BY <1>1, <1>8, <2>1, <2>3, Kinds DEF ServerInv, SecondPartInv, AuthPartInv
    <3>2. pc'[p] \in {"getaddrinfo", "select"} /\ part'[p] = "authConn"
      BY <1>6, <2>1, <2>3, <3>1, NextCall
    <3>3. SecondPartInv(p)'
      BY <1>1, <1>2, <3>1, <3>2, Kinds
         DEF SecondPartInv, ServiceSocketInv, ChatPartInv, AuthPartInv, IsOpen
    <3> QED
      BY <1>2, <2>1, <3>2, <3>3 DEF ServerInv
  <2> QED
    BY <2>1, <2>2, <2>3 DEF ServerInv
<1> QED
  BY <1>4, <1>5, <1>7, <1>8, Frame DEF ProcessInv

LEMMA GetAddrInfoInv == ASSUME Inv, NEW p \in Processes, GetAddrInfo(p) PROVE Inv'
<1>1. /\ Types /\ ProcessInv(p) /\ pc[p] = "getaddrinfo"
      /\ own' = own /\ prepared' = prepared /\ listened' = listened
  BY DEF Inv, GetAddrInfo, At, serverVars
<1>2. CASE GiveUp(p, FALSE, FALSE)
  BY <1>1, <1>2, GiveUpInv
<1>3. CASE /\ GoTo(p, "socket") /\ info' = [info EXCEPT ![p][part[p]] = "allocated"]
           /\ sock' = sock
  <2>1. Types'
    BY <1>1, <1>3 DEF Types, GoTo, Calls, InfoStates
  <2>2. \A q \in Processes : q # p => Same(q)
    BY <1>1, <1>3 DEF Types, GoTo, Same
  <2>3. /\ pc'[p] = "socket" /\ part' = part /\ own' = own /\ sock' = sock
        /\ info'[p] = [info[p] EXCEPT ![part[p]] = "allocated"]
        /\ info[p] \in [Part -> InfoStates]
    BY <1>1, <1>3 DEF Types, GoTo
  <2>4. p \in ChatClients => ClientInv(p)'
    BY <1>1, <2>3, ProcessAssumption DEF ProcessInv, ClientInv, IsOpen, Part
  <2>5. ASSUME p \in Servers PROVE ServerInv(p)'
    <3>1. ServerInv(p)
      BY <1>1, <2>5 DEF ProcessInv
    <3>2. CASE part[p] = "service"
      <4>1. FirstPartInv(p)'
        BY <1>1, <2>3, <3>1, <3>2 DEF ServerInv, FirstPartInv, Part
      <4> QED
        BY <2>3, <3>1, <3>2, <4>1 DEF ServerInv, Part
    <3>3. CASE part[p] = "authConn"
      <4>1. SecondPartInv(p) /\ p \in ChatServers /\ p \notin AuthServers
        BY <1>1, <2>5, <3>1, <3>3, Kinds DEF ServerInv, SecondPartInv, AuthPartInv
      <4>2. /\ info'[p]["service"] = info[p]["service"]
            /\ info'[p]["authConn"] = "allocated"
            /\ info'[p]["chatConn"] = info[p]["chatConn"]
        BY <2>3, <3>3 DEF Part
      <4>3. SecondPartInv(p)'
        BY <1>1, <2>3, <3>3, <4>1, <4>2 DEF SecondPartInv, ServiceSocketInv, ChatPartInv
      <4> QED
        BY <2>3, <3>1, <3>3, <4>2, <4>3 DEF ServerInv
    <3> QED
      BY <3>1, <3>2, <3>3 DEF ServerInv
  <2> QED
    BY <2>1, <2>2, <2>4, <2>5, Frame DEF ProcessInv
<1> QED
  BY <1>2, <1>3 DEF GetAddrInfo

\* A value that is handed out: only one never used, or that of a closed socket.
LEMMA HandedOut ==
    ASSUME NEW p \in Processes, NEW h \in FreeHandles(p)
    PROVE  /\ h \in SocketValues
           /\ sock[p][h] = "unused" \/ (sock[p][h] = "closed" /\ ReuseHandles)
BY DEF FreeHandles

LEMMA NewSocketInv == ASSUME Inv, NEW p \in Processes, NewSocket(p) PROVE Inv'
<1>1. /\ Types /\ ProcessInv(p) /\ pc[p] = "socket"
      /\ prepared' = prepared /\ listened' = listened
  BY DEF Inv, NewSocket, At, serverVars
<1>2. CASE GiveUp(p, TRUE, FALSE) /\ own' = own
  BY <1>1, <1>2, GiveUpInv
<1>3. ASSUME NEW h \in FreeHandles(p),
             GoTo(p, IF part[p] = "service" THEN "bind" ELSE "connect"),
             own' = [own EXCEPT ![p][part[p]] = h],
             sock' = [sock EXCEPT ![p][h] = "open"], info' = info
      PROVE  Inv'
  <2>1. /\ h \in SocketValues /\ INVALID_SOCKET \notin SocketValues
        /\ sock[p][h] = "unused" \/ (sock[p][h] = "closed" /\ ReuseHandles)
    BY <1>3, HandedOut, ProcessAssumption
  <2>2. Types'
    BY <1>1, <1>3, <2>1 DEF Types, GoTo, Calls, SocketStates, Open
  <2>3. \A q \in Processes : q # p => Same(q)
    BY <1>1, <1>3 DEF Types, GoTo, Same
  <2>4. /\ pc'[p] = IF part[p] = "service" THEN "bind" ELSE "connect"
        /\ part' = part
        /\ own'[p] = [own[p] EXCEPT ![part[p]] = h] /\ DOMAIN own[p] = Part
        /\ sock'[p] = [sock[p] EXCEPT ![h] = "open"] /\ DOMAIN sock[p] = SocketValues
    BY <1>1, <1>3 DEF Types, GoTo
  <2>5. p \in ChatClients => ClientInv(p)'
    BY <1>1, <1>3, <2>4 DEF ProcessInv, ClientInv, IsOpen, Part
  <2>6. ASSUME p \in Servers PROVE ServerInv(p)'
    <3>1. ServerInv(p)
      BY <1>1, <2>6 DEF ProcessInv
    <3>2. CASE part[p] = "service"
      <4>1. FirstPartInv(p)'
        BY <1>1, <1>3, <2>1, <2>4, <3>1, <3>2 DEF ServerInv, FirstPartInv, Part
      <4> QED
        BY <1>3, <2>4, <3>1, <3>2, <4>1 DEF ServerInv
    <3>3. CASE part[p] = "authConn"
      <4>1. SecondPartInv(p) /\ p \in ChatServers /\ p \notin AuthServers
        BY <1>1, <2>6, <3>1, <3>3, Kinds DEF ServerInv, SecondPartInv, AuthPartInv
      <4>2. /\ own'[p]["service"] = own[p]["service"] /\ own'[p]["authConn"] = h
            /\ own[p]["authConn"] = INVALID_SOCKET
        BY <1>1, <2>4, <3>3, <4>1 DEF Part, SecondPartInv, ChatPartInv
      <4>3. ServiceSocketInv(p)'
        <5>1. ServiceSocketInv(p)
          BY <1>1, <4>1 DEF SecondPartInv
        <5>2. CASE own[p]["service"] = h
          BY <1>3, <2>1, <2>4, <4>1, <4>2, <5>1, <5>2 DEF ServiceSocketInv
        <5>3. CASE own[p]["service"] # h
          BY <1>3, <2>1, <2>4, <4>1, <4>2, <5>1, <5>3 DEF ServiceSocketInv
        <5> QED
          BY <5>2, <5>3
      <4>4. SecondPartInv(p)'
        BY <1>1, <1>3, <2>1, <2>4, <3>3, <4>1, <4>2, <4>3 DEF SecondPartInv, ChatPartInv
      <4> QED
        BY <1>3, <2>4, <3>1, <3>3, <4>4 DEF ServerInv
    <3> QED
      BY <3>1, <3>2, <3>3 DEF ServerInv
  <2> QED
    BY <2>2, <2>3, <2>5, <2>6, Frame DEF ProcessInv
<1> QED
  BY <1>2, <1>3 DEF NewSocket

LEMMA BindInv == ASSUME Inv, NEW p \in Processes, Bind(p) PROVE Inv'
<1>1. /\ Types /\ ProcessInv(p) /\ pc[p] = "bind"
      /\ own' = own /\ prepared' = prepared /\ listened' = listened
  BY DEF Inv, Bind, At, serverVars
<1>2. CASE GiveUp(p, TRUE, TRUE)
  BY <1>1, <1>2, GiveUpInv
<1>3. CASE GoTo(p, "listen") /\ SetOwnSocket(p, "bound") /\ info' = info
  <2>1. /\ p \in Servers /\ p \notin ChatClients /\ ServerInv(p)
        /\ part[p] = "service" /\ FirstPartInv(p)
    BY <1>1, Kinds DEF ProcessInv, ClientInv, ServerInv, SecondPartInv, ChatPartInv, AuthPartInv
  <2>2. own[p]["service"] \in SocketValues
    BY <1>1, <2>1 DEF FirstPartInv
  <2>3. Types'
    BY <1>1, <1>3, <2>1, <2>2 DEF Types, GoTo, SetOwnSocket, Calls, SocketStates, Open
  <2>4. \A q \in Processes : q # p => Same(q)
    BY <1>1, <1>3 DEF Types, GoTo, SetOwnSocket, Same
  <2>5. /\ pc'[p] = "listen" /\ part' = part
        /\ sock'[p][own[p]["service"]] = "bound"
    BY <1>1, <1>3, <2>1, <2>2 DEF Types, GoTo, SetOwnSocket
  <2>6. FirstPartInv(p)'
    BY <1>1, <1>3, <2>1, <2>2, <2>5 DEF FirstPartInv
  <2>7. ServerInv(p)'
    BY <1>3, <2>1, <2>5, <2>6 DEF ServerInv
  <2> QED
    BY <2>1, <2>3, <2>4, <2>7, Frame DEF ProcessInv
<1> QED
  BY <1>2, <1>3 DEF Bind

LEMMA ListenInv == ASSUME Inv, NEW p \in Processes, Listen(p) PROVE Inv'
<1>1. /\ Types /\ ProcessInv(p) /\ pc[p] = "listen"
      /\ own' = own /\ prepared' = prepared
  BY DEF Inv, Listen, At
<1>2. CASE GiveUp(p, TRUE, TRUE) /\ listened' = listened
  BY <1>1, <1>2, GiveUpInv
<1>3. CASE /\ EndPart(p) /\ SetOwnSocket(p, "listening") /\ info' = info
           /\ listened' = listened \cup {p}
  <2>1. /\ p \in Servers /\ p \notin ChatClients /\ ServerInv(p)
        /\ part[p] = "service" /\ FirstPartInv(p)
    BY <1>1, Kinds DEF ProcessInv, ClientInv, ServerInv, SecondPartInv, ChatPartInv, AuthPartInv
  <2>2. own[p]["service"] \in SocketValues /\ INVALID_SOCKET \notin SocketValues
    BY <1>1, <2>1, ProcessAssumption DEF FirstPartInv
  <2>3. Types'
    BY <1>1, <1>3, <2>1, <2>2, NextCall DEF Types, EndPart, SetOwnSocket, SocketStates, Open, Part
  <2>4. \A q \in Processes : q # p => Same(q)
    BY <1>1, <1>3 DEF Types, EndPart, SetOwnSocket, Same
  <2>5. /\ pc'[p] = AfterPart(p) /\ part'[p] = "authConn"
        /\ sock'[p][own[p]["service"]] = "listening"
    BY <1>1, <1>3, <2>1, <2>2 DEF Types, EndPart, SetOwnSocket
  <2>6. /\ p \in ChatServers => pc'[p] = "WSAStartup"
        /\ p \in AuthServers => pc'[p] = "database"
    BY <2>1, <2>5, NextCall
  <2>7. SecondPartInv(p)'
    BY <1>1, <1>3, <2>1, <2>2, <2>5, <2>6, Kinds
       DEF FirstPartInv, SecondPartInv, ServiceSocketInv, ChatPartInv, AuthPartInv
  <2>8. ServerInv(p)'
    BY <1>3, <2>1, <2>5, <2>6, <2>7, Kinds DEF ServerInv
  <2> QED
    BY <2>1, <2>3, <2>4, <2>8, Frame DEF ProcessInv
<1> QED
  BY <1>2, <1>3 DEF Listen, ListenDone

LEMMA ConnectInv == ASSUME Inv, NEW p \in Processes, Connect(p) PROVE Inv'
<1>1. /\ Types /\ ProcessInv(p) /\ pc[p] = "connect"
      /\ own' = own /\ prepared' = prepared /\ listened' = listened
  BY DEF Inv, Connect, At, serverVars
<1>2. CASE GiveUp(p, TRUE, TRUE)
  BY <1>1, <1>2, GiveUpInv
<1>3. CASE /\ IF p \in ChatClients THEN GoTo(p, "ioctlsocket") ELSE EndPart(p)
           /\ SetOwnSocket(p, "connected") /\ info' = info
  <2>1. Types'
    <3>1. pc' \in [Processes -> Calls] /\ part' \in [Processes -> Part]
      BY <1>1, <1>3, NextCall DEF Types, GoTo, EndPart, Calls, Part
    <3>2. sock' \in [Processes -> [SocketValues -> SocketStates]]
      BY <1>1, <1>3 DEF Types, SetOwnSocket, SocketStates, Open
    <3> QED
      BY <1>1, <1>3, <3>1, <3>2 DEF Types
  <2>2. \A q \in Processes : q # p => Same(q)
    BY <1>1, <1>3 DEF Types, GoTo, EndPart, SetOwnSocket, Same
  <2>3. CASE p \in ChatClients
    <3>1. pc'[p] = "ioctlsocket" /\ part' = part /\ p \notin Servers
      BY <1>1, <1>3, <2>3, Kinds DEF Types, GoTo
    <3>2. ClientInv(p)'
      BY <1>1, <1>3, <2>3, <3>1 DEF ProcessInv, ClientInv, IsOpen
    <3> QED
      BY <2>1, <2>2, <3>1, <3>2, Frame DEF ProcessInv
  <2>4. CASE p \in Servers
    <3>1. /\ p \notin ChatClients /\ ServerInv(p) /\ p \in ChatServers /\ p \notin AuthServers
          /\ part[p] = "authConn" /\ SecondPartInv(p)
      BY <1>1, <2>4, Kinds DEF ProcessInv, ServerInv, FirstPartInv, SecondPartInv, AuthPartInv
    <3>2. /\ pc'[p] = "select" /\ part'[p] = "authConn"
      BY <1>1, <1>3, <3>1, NextCall DEF Types, EndPart
    <3>3. sock'[p] = [sock[p] EXCEPT ![own[p]["authConn"]] = "connected"]
          /\ DOMAIN sock[p] = SocketValues
      BY <1>1, <1>3, <3>1 DEF Types, SetOwnSocket
    <3>4. own[p]["authConn"] \in SocketValues /\ sock[p][own[p]["authConn"]] = "open"
      BY <1>1, <3>1 DEF SecondPartInv, ChatPartInv
    <3>5. ServiceSocketInv(p)'
      BY <1>1, <1>3, <3>1, <3>3, <3>4 DEF SecondPartInv, ServiceSocketInv
    <3>6. SecondPartInv(p)'
      BY <1>1, <1>3, <3>1, <3>2, <3>3, <3>4, <3>5 DEF SecondPartInv, ChatPartInv
    <3>7. ServerInv(p)'
      BY <1>3, <3>1, <3>2, <3>6 DEF ServerInv
    <3> QED
      BY <2>1, <2>2, <3>1, <3>7, Frame DEF ProcessInv
  <2> QED
    BY <2>3, <2>4, Kinds
<1> QED
  BY <1>2, <1>3 DEF Connect

LEMMA IoctlSocketInv == ASSUME Inv, NEW p \in ChatClients, IoctlSocket(p) PROVE Inv'
<1>1. /\ Types /\ ClientInv(p) /\ pc[p] = "ioctlsocket" /\ p \in Processes /\ p \notin Servers
      /\ own' = own /\ prepared' = prepared /\ listened' = listened
  BY Kinds DEF Inv, IoctlSocket, At, serverVars, Processes, ProcessInv
<1>2. CASE GiveUp(p, TRUE, TRUE)
  BY <1>1, <1>2, GiveUpInv
<1>3. CASE EndPart(p) /\ SetOwnSocket(p, "nonblocking") /\ info' = info
  <2>1. Types'
    BY <1>1, <1>3, NextCall DEF Types, EndPart, SetOwnSocket, SocketStates, Open, Part
  <2>2. \A q \in Processes : q # p => Same(q)
    BY <1>1, <1>3 DEF Types, EndPart, SetOwnSocket, Same
  <2>3. pc'[p] = "keys" /\ part'[p] = "chatConn"
    BY <1>1, <1>3, NextCall DEF Types, EndPart
  <2>4. ClientInv(p)'
    BY <1>1, <1>3, <2>3 DEF ClientInv, IsOpen
  <2> QED
    BY <1>1, <2>1, <2>2, <2>4, Frame DEF ProcessInv
<1> QED
  BY <1>2, <1>3 DEF IoctlSocket, NonBlocking
-----------------------------------------------------------------------------
\* The process ends.
LEMMA EndsEffect ==
    ASSUME Types, NEW p \in Processes, Ends(p)
    PROVE  /\ pc' \in [Processes -> Calls] /\ part' \in [Processes -> Part]
           /\ own' \in [Processes -> [Part -> SocketValues \cup {INVALID_SOCKET}]]
           /\ sock' \in [Processes -> [SocketValues -> SocketStates]]
           /\ \A q \in Processes : q # p =>
                 pc'[q] = pc[q] /\ part'[q] = part[q] /\ own'[q] = own[q] /\ sock'[q] = sock[q]
           /\ pc'[p] = "off" /\ part'[p] = FirstPart(p) /\ own'[p] = NoneOwned
BY DEF Types, Ends, Calls, Part, FirstPart, NoneOwned, NoSockets, SocketStates

LEMMA DatabaseInv == ASSUME Inv, NEW p \in Processes, Database(p) PROVE Inv'
<1>1. /\ Types /\ ProcessInv(p) /\ pc[p] = "database"
      /\ info' = info /\ listened' = listened
  BY DEF Inv, Database, At
<1>2. /\ p \in Servers /\ p \notin ChatClients /\ ServerInv(p)
      /\ part[p] = "authConn" /\ SecondPartInv(p) /\ p \in AuthServers /\ p \notin ChatServers
  BY <1>1, Kinds DEF ProcessInv, ClientInv, ServerInv, FirstPartInv, SecondPartInv, ChatPartInv
<1>3. CASE Ends(p) /\ prepared' = prepared
  <2>1. Types'
    BY <1>1, <1>3, EndsEffect DEF Types
  <2>2. \A q \in Processes : q # p => Same(q)
    BY <1>1, <1>3, EndsEffect DEF Same
  <2>3. pc'[p] = "off" /\ part'[p] = "service" /\ own'[p] = NoneOwned
    BY <1>1, <1>2, <1>3, EndsEffect DEF FirstPart
  <2>4. Off(p)'
    BY <1>1, <1>2, <2>3 DEF Off, SecondPartInv, NoneOwned
  <2>5. ServerInv(p)'
    BY <1>1, <1>2, <2>3, <2>4 DEF ServerInv
  <2> QED
    BY <1>2, <2>1, <2>2, <2>5, Frame DEF ProcessInv
<1>4. ASSUME NEW h \in FreeHandles(p), GoTo(p, "select"), prepared' = [prepared EXCEPT ![p] = TRUE],
             sock' = [sock EXCEPT ![p][h] = "connected"], own' = own
      PROVE  Inv'
  <2>1. /\ h \in SocketValues
        /\ sock[p][h] = "unused" \/ (sock[p][h] = "closed" /\ ReuseHandles)
    BY <1>4, HandedOut
  <2>2. Types'
    BY <1>1, <1>4, <2>1 DEF Types, GoTo, Calls, SocketStates, Open
  <2>3. \A q \in Processes : q # p => Same(q)
    BY <1>1, <1>4 DEF Types, GoTo, Same
  <2>4. /\ pc'[p] = "select" /\ part' = part /\ prepared'[p] = TRUE
        /\ sock'[p] = [sock[p] EXCEPT ![h] = "connected"] /\ DOMAIN sock[p] = SocketValues
    BY <1>1, <1>4 DEF Types, GoTo
  <2>5. ServiceSocketInv(p)'
    <3>1. ServiceSocketInv(p)
      BY <1>1, <1>2 DEF SecondPartInv
    <3>2. CASE own[p]["service"] = h
      BY <1>1, <1>2, <1>4, <2>1, <2>4, <3>1, <3>2 DEF ServiceSocketInv
    <3>3. CASE own[p]["service"] # h
      BY <1>1, <1>2, <1>4, <2>1, <2>4, <3>1, <3>3 DEF ServiceSocketInv
    <3> QED
      BY <3>2, <3>3
  <2>6. SecondPartInv(p)'
    BY <1>1, <1>2, <2>4, <2>5 DEF SecondPartInv, AuthPartInv
  <2>7. ServerInv(p)'
    BY <1>1, <1>2, <2>4, <2>6 DEF ServerInv
  <2> QED
    BY <1>2, <2>2, <2>3, <2>7, Frame DEF ProcessInv
<1> QED
  BY <1>3, <1>4 DEF Database

\* A server that waits in select() or serves has both its parts behind it.
LEMMA InLoop ==
    ASSUME Inv, NEW p \in Processes, pc[p] \in {"select", "loop"}
    PROVE  /\ p \in Servers /\ p \notin ChatClients /\ ServerInv(p)
           /\ part[p] = "authConn" /\ SecondPartInv(p)
BY Kinds DEF Inv, ProcessInv, ClientInv, ServerInv, FirstPartInv

LEMMA SelectInv == ASSUME Inv, NEW p \in Processes, Select(p) PROVE Inv'
<1>1. /\ Types /\ pc[p] = "select"
      /\ info' = info /\ own' = own /\ sock' = sock /\ prepared' = prepared /\ listened' = listened
      /\ GoTo(p, IF SelectWorks(p) THEN "loop" ELSE "Shutdown")
  BY DEF Inv, Select, At, serverVars
<1>2. /\ p \in Servers /\ p \notin ChatClients /\ ServerInv(p)
      /\ part[p] = "authConn" /\ SecondPartInv(p)
  BY <1>1, InLoop
<1>3. Types'
  BY <1>1 DEF Types, GoTo, Calls
<1>4. \A q \in Processes : q # p => Same(q)
  BY <1>1 DEF Types, GoTo, Same
<1>5. pc'[p] = (IF SelectWorks(p) THEN "loop" ELSE "Shutdown") /\ part' = part
  BY <1>1 DEF Types, GoTo
<1>6. SelectWorks(p) => \A w \in PartsOf(p) : IsOpen(p, w)
  BY DEF SelectWorks, IsOpen
<1>7. \A w : IsOpen(p, w)' <=> IsOpen(p, w)
  BY <1>1 DEF IsOpen
<1>8. ServiceSocketInv(p)'
  BY <1>1, <1>2 DEF SecondPartInv, ServiceSocketInv
<1>9. p \in ChatServers => ChatPartInv(p)'
  BY <1>1, <1>2, <1>5, <1>7 DEF SecondPartInv, ChatPartInv
<1>10. p \in AuthServers => AuthPartInv(p)'
  BY <1>1, <1>2, <1>5 DEF SecondPartInv, AuthPartInv
<1>11. SecondPartInv(p)'
  BY <1>1, <1>2, <1>5, <1>6, <1>7, <1>8, <1>9, <1>10 DEF SecondPartInv
<1>12. ServerInv(p)'
  BY <1>1, <1>2, <1>5, <1>11 DEF ServerInv
<1> QED
  BY <1>2, <1>3, <1>4, <1>12, Frame DEF ProcessInv

LEMMA LoopEndsInv == ASSUME Inv, NEW p \in Processes, LoopEnds(p) PROVE Inv'
<1>1. /\ Types /\ pc[p] = "loop"
      /\ info' = info /\ own' = own /\ prepared' = prepared /\ listened' = listened
      /\ GoTo(p, "Shutdown") /\ sock' = [sock EXCEPT ![p] = NoSockets]
  BY DEF Inv, LoopEnds, At, serverVars
<1>2. /\ p \in Servers /\ p \notin ChatClients /\ ServerInv(p)
      /\ part[p] = "authConn" /\ SecondPartInv(p)
  BY <1>1, InLoop
<1>3. Types'
  BY <1>1 DEF Types, GoTo, Calls, NoSockets, SocketStates
<1>4. \A q \in Processes : q # p => Same(q)
  BY <1>1 DEF Types, GoTo, Same
<1>5. pc'[p] = "Shutdown" /\ part' = part
  BY <1>1 DEF Types, GoTo
<1>6. SecondPartInv(p)'
  BY <1>1, <1>2, <1>5 DEF SecondPartInv, ChatPartInv, AuthPartInv
<1>7. ServerInv(p)'
  BY <1>1, <1>2, <1>5, <1>6 DEF ServerInv
<1> QED
  BY <1>2, <1>3, <1>4, <1>7, Frame DEF ProcessInv

LEMMA ShutdownInv == ASSUME Inv, NEW p \in Processes, Shutdown(p) PROVE Inv'
<1>1. /\ Types /\ pc[p] = "Shutdown" /\ p \in Servers /\ p \notin ChatClients /\ ServerInv(p)
      /\ Ends(p) /\ info' = [info EXCEPT ![p]["service"] = Freed(@)]
      /\ prepared' = [prepared EXCEPT ![p] = FALSE] /\ listened' = listened
  BY Kinds DEF Inv, ProcessInv, Shutdown, At
<1>2. SecondPartInv(p)
  BY <1>1 DEF ServerInv, FirstPartInv
<1>3. /\ info[p]["service"] \in {"null", "allocated", "freed"}
      /\ info[p] \in [Part -> InfoStates]
  BY <1>1, <1>2 DEF SecondPartInv, Types
<1>4. Freed(info[p]["service"]) \in InfoStates
  BY <1>3 DEF Freed, InfoStates
<1>5. info' \in [Processes -> [Part -> InfoStates]]
  BY <1>1, <1>4 DEF Types, Part
<1>6. Types'
  BY <1>1, <1>5, EndsEffect DEF Types
<1>7. \A q \in Processes : q # p => Same(q)
  BY <1>1, EndsEffect DEF Same, Types
<1>8. /\ info'[p]["service"] = Freed(info[p]["service"])
      /\ info'[p]["authConn"] = info[p]["authConn"] /\ info'[p]["chatConn"] = info[p]["chatConn"]
  BY <1>1, <1>3 DEF Types, Part
<1>9. pc'[p] = "off" /\ part'[p] = "service" /\ own'[p] = NoneOwned
  BY <1>1, EndsEffect DEF FirstPart
<1>10. Off(p)'
  BY <1>1, <1>2, <1>8, <1>9 DEF Off, SecondPartInv, Freed, NoneOwned
<1>11. ServerInv(p)'
  BY <1>1, <1>8, <1>9, <1>10 DEF ServerInv
<1> QED
  BY <1>1, <1>6, <1>7, <1>11, Frame DEF ProcessInv

LEMMA KillInv == ASSUME Inv, NEW p \in Processes, Kill(p) PROVE Inv'
<1>1. /\ Types /\ pc[p] = "loop" /\ Ends(p)
      /\ prepared' = [prepared EXCEPT ![p] = FALSE] /\ info' = info /\ listened' = listened
  BY DEF Inv, Kill, At
<1>2. /\ p \in Servers /\ p \notin ChatClients /\ ServerInv(p) /\ SecondPartInv(p)
  BY <1>1, InLoop
<1>3. Types'
  BY <1>1, EndsEffect DEF Types
<1>4. \A q \in Processes : q # p => Same(q)
  BY <1>1, EndsEffect DEF Same, Types
<1>5. pc'[p] = "off" /\ part'[p] = "service" /\ own'[p] = NoneOwned
  BY <1>1, <1>2, EndsEffect DEF FirstPart
<1>6. Off(p)'
  BY <1>1, <1>2, <1>5 DEF Off, SecondPartInv, NoneOwned
<1>7. ServerInv(p)'
  BY <1>1, <1>2, <1>5, <1>6 DEF ServerInv
<1> QED
  BY <1>2, <1>3, <1>4, <1>7, Frame DEF ProcessInv
-----------------------------------------------------------------------------
\* A step of a client that touches nothing but where its main thread is.
LEMMA ClientStep ==
    ASSUME Inv, NEW p \in ChatClients, NEW call \in {"join", "Shutdown"},
           GoTo(p, call), UNCHANGED <<info, own, sock, serverVars>>
    PROVE  Inv'
<1>1. Types /\ ClientInv(p) /\ p \in Processes /\ p \notin Servers
  BY Kinds DEF Inv, Processes, ProcessInv
<1>2. Types'
  BY <1>1 DEF Types, GoTo, Calls, serverVars
<1>3. \A q \in Processes : q # p => Same(q)
  BY <1>1 DEF Types, GoTo, Same, serverVars
<1>4. pc'[p] = call /\ part' = part
  BY <1>1 DEF Types, GoTo
<1>5. ClientInv(p)'
  BY <1>1, <1>4 DEF ClientInv, IsOpen
<1> QED
  BY <1>1, <1>2, <1>3, <1>5, Frame DEF ProcessInv

\* What either thread does when its call has failed.
LEMMA CloseOnErrorInv ==
    ASSUME Inv, NEW p \in ChatClients, CloseOnError(p),
           UNCHANGED <<pc, part, info, own, serverVars>>
    PROVE  Inv'
<1>1. Types /\ ClientInv(p) /\ p \in Processes /\ p \notin Servers
  BY Kinds DEF Inv, Processes, ProcessInv
<1>2. Closed(sock[p], own[p]["chatConn"]) \in [SocketValues -> SocketStates]
  BY <1>1 DEF Closed, Types, SocketStates
<1>3. sock' = [sock EXCEPT ![p] = Closed(sock[p], own[p]["chatConn"])]
  BY <1>1 DEF CloseOnError, Types
<1>4. Types'
  BY <1>1, <1>2, <1>3 DEF Types, serverVars
<1>5. \A q \in Processes : q # p => Same(q)
  BY <1>1, <1>3 DEF Types, Same, serverVars
<1>6. sock'[p] = Closed(sock[p], own[p]["chatConn"])
  BY <1>1, <1>3 DEF Types
<1>7. IsOpen(p, "chatConn")' => IsOpen(p, "chatConn")
  BY <1>6 DEF IsOpen, Closed, Open
<1>8. ClientInv(p)'
  BY <1>1, <1>7 DEF ClientInv
<1> QED
  BY <1>1, <1>4, <1>5, <1>8, Frame DEF ProcessInv

LEMMA ClientShutdownInv == ASSUME Inv, NEW p \in ChatClients, ClientShutdown(p) PROVE Inv'
<1>1. /\ Types /\ ClientInv(p) /\ p \in Processes /\ p \notin Servers
      /\ Ends(p) /\ prepared' = prepared /\ listened' = listened
      /\ info' = IF Usable(p) THEN [info EXCEPT ![p]["chatConn"] = Freed(@)] ELSE info
  BY Kinds DEF Inv, Processes, ProcessInv, ClientShutdown, serverVars
<1>2. Usable(p) => info[p]["chatConn"] = "allocated"
  BY <1>1 DEF ClientInv, Usable, IsOpen
<1>3. /\ info' \in [Processes -> [Part -> InfoStates]]
      /\ \A q \in Processes : q # p => info'[q] = info[q]
      /\ info'[p]["service"] = "null" /\ info'[p]["authConn"] = "null"
      /\ info'[p]["chatConn"] \in {"null", "allocated", "freed"}
  <2>1. CASE Usable(p)
    <3>1. info' = [info EXCEPT ![p]["chatConn"] = "freed"]
      BY <1>1, <1>2, <2>1 DEF Freed, Types
    <3>2. "freed" \in InfoStates /\ Part = {"service", "authConn", "chatConn"}
      BY DEF InfoStates, Part
    <3> DEFINE i == [info[p] EXCEPT !["chatConn"] = "freed"]
    <3>3. info \in [Processes -> [Part -> InfoStates]]
      BY <1>1 DEF Types
    <3>4. i \in [Part -> InfoStates]
      BY <1>1, <3>2, <3>3
    <3>5. /\ i["service"] = info[p]["service"] /\ i["authConn"] = info[p]["authConn"]
          /\ i["chatConn"] = "freed"
      BY <1>1, <3>2, <3>3
    <3>6. info' = [info EXCEPT ![p] = i]
      BY <3>1
    <3> HIDE DEF i
    <3>7. /\ info' \in [Processes -> [Part -> InfoStates]]
          /\ \A q \in Processes : q # p => info'[q] = info[q]
          /\ info'[p] = i
      BY <1>1, <3>3, <3>4, <3>6
    <3> QED
      BY <1>1, <3>5, <3>7 DEF ClientInv
  <2>2. CASE ~Usable(p)
    BY <1>1, <2>2 DEF Types, ClientInv
  <2> QED
    BY <2>1, <2>2
<1>4. Types'
  BY <1>1, <1>3, EndsEffect DEF Types
<1>5. \A q \in Processes : q # p => Same(q)
  BY <1>1, <1>3, EndsEffect DEF Same
<1>6. pc'[p] = "off" /\ part'[p] = "chatConn" /\ own'[p]["chatConn"] = INVALID_SOCKET
  BY <1>1, EndsEffect DEF FirstPart, NoneOwned, Part
<1>7. ClientInv(p)'
  BY <1>3, <1>6, ProcessAssumption DEF ClientInv, IsOpen
<1> QED
  BY <1>1, <1>4, <1>5, <1>7, Frame DEF ProcessInv

\* A step that only a thread of a client, or nobody, notices.
LEMMA Unnoticed ==
    ASSUME Inv, UNCHANGED <<pc, part, info, own, sock, serverVars>>
    PROVE  Inv'
<1>1. Types'
  BY DEF Inv, Types, serverVars
<1>2. \A q \in Processes : Same(q)
  BY DEF Same, serverVars
<1>3. \A q \in Processes : ProcessInv(q)'
  BY <1>2, SameServer, SameClient DEF Inv, ProcessInv
<1> QED
  BY <1>1, <1>3 DEF Inv
-----------------------------------------------------------------------------
LEMMA InitInv == ASSUME Init PROVE Inv
<1>1. Types
  BY DEF Init, Types, Calls, Part, FirstPart, InfoStates, SocketStates, NoneOwned, NoSockets
<1>2. ASSUME NEW p \in Servers PROVE ServerInv(p)
  <2>1. p \in Processes /\ p \notin ChatClients
    BY ProcessAssumption DEF Processes
  <2> QED
    BY <2>1 DEF Init, ServerInv, Off, Part, FirstPart
<1>3. ASSUME NEW p \in ChatClients PROVE ClientInv(p)
  <2>1. p \in Processes
    BY DEF Processes
  <2> QED
    BY <2>1, ProcessAssumption DEF Init, ClientInv, IsOpen, Part, FirstPart, NoneOwned
<1> QED
  BY <1>1, <1>2, <1>3 DEF Inv, ProcessInv

LEMMA RunInv == ASSUME Inv, NEW p \in Processes, Run(p) PROVE Inv'
<1>1. ASSUME p \in ChatClients, StartReceiver(p) PROVE Inv'
  BY <1>1, Unnoticed DEF StartReceiver
<1>2. ASSUME p \in ChatClients, Join(p) PROVE Inv'
  BY <1>2, ClientStep DEF Join
<1> QED
  BY <1>1, <1>2, WSAStartupInv, GetAddrInfoInv, NewSocketInv, BindInv, ListenInv, ConnectInv,
     IoctlSocketInv, DatabaseInv, SelectInv, ShutdownInv, ClientShutdownInv DEF Run

LEMMA ThreadInv ==
    ASSUME Inv, NEW p \in ChatClients,
           Receive(p) \/ ConnectionReset(p) \/ SendFails(p) \/ Quit(p)
    PROVE  Inv'
<1>1. CASE CheckQuit(p)
  BY <1>1, Unnoticed DEF CheckQuit
<1>2. CASE Recv(p)
  BY <1>2, Unnoticed DEF Recv
<1>3. CASE RecvFailed(p)
  BY <1>3, CloseOnErrorInv DEF RecvFailed
<1>4. CASE ConnectionReset(p)
  BY <1>4, Unnoticed DEF ConnectionReset
<1>5. CASE SendFails(p)
  BY <1>5, CloseOnErrorInv DEF SendFails
<1>6. CASE Quit(p)
  BY <1>6, ClientStep DEF Quit
<1> QED
  BY <1>1, <1>2, <1>3, <1>4, <1>5, <1>6 DEF Receive

\* Whatever fails, whatever is started again, every process has at each call what the calls
\* before it have got or given up.
THEOREM Invariance == Spec => []Inv
<1>1. Init => Inv
  BY InitInv
<1>2. Inv /\ [Next]_vars => Inv'
  <2>1. ASSUME Inv, NEW p \in Processes, Start(p) \/ Run(p) \/ LoopEnds(p) \/ Kill(p)
        PROVE  Inv'
    BY <2>1, StartInv, RunInv, LoopEndsInv, KillInv
  <2>2. ASSUME Inv, UNCHANGED vars PROVE Inv'
    BY <2>2, Unnoticed DEF vars
  <2> QED
    BY <2>1, <2>2, ThreadInv DEF Next
<1> QED
  BY <1>1, <1>2, PTL DEF Spec

\* RunLoop() keeps only a server whose constructor has got everything it needs: the first
\* select() on a socket that is not open ends the others.  The one exception is a closed
\* socket whose value the system has handed out again.
THEOREM OnlyReadyServersServe == Spec => []LoopRunsOnlyWhenReady
<1>1. ASSUME Inv, NEW p \in Servers, pc[p] = "loop"
      PROVE  /\ own[p]["service"] \in SocketValues
             /\ sock[p][own[p]["service"]] = "listening" \/ ListensOnConnection(p)
             /\ p \in ChatServers => /\ own[p]["authConn"] \in SocketValues
                                     /\ sock[p][own[p]["authConn"]] = "connected"
             /\ p \in AuthServers => prepared[p]
  <2>1. p \in Processes /\ SecondPartInv(p)
    BY <1>1, InLoop DEF Processes
  <2>2. "service" \in PartsOf(p) /\ (p \in ChatServers => "authConn" \in PartsOf(p))
    BY <2>1, Kinds DEF PartsOf
  <2>3. IsOpen(p, "service") /\ (p \in ChatServers => IsOpen(p, "authConn"))
    BY <1>1, <2>1, <2>2 DEF SecondPartInv
  <2>4. /\ p \in ChatServers => sock[p][own[p]["authConn"]] = "connected"
        /\ p \in AuthServers => prepared[p]
    BY <1>1, <2>1, <2>3 DEF SecondPartInv, ChatPartInv, AuthPartInv
  <2>5. ServiceSocketInv(p) /\ sock[p][own[p]["service"]] # "closed"
    BY <1>1, <2>1, <2>3 DEF SecondPartInv, IsOpen, Open
  <2>6. sock[p][own[p]["service"]] = "listening" \/ ListensOnConnection(p)
    BY <2>1, <2>3, <2>4, <2>5, Kinds DEF ServiceSocketInv, ListensOnConnection, IsOpen
  <2> QED
    BY <2>3, <2>4, <2>6 DEF IsOpen
<1>2. Inv => LoopRunsOnlyWhenReady
  BY <1>1 DEF LoopRunsOnlyWhenReady
<1> QED
  BY <1>2, Invariance, PTL

\* Shutdown() and the error paths free an addrinfo twice only in a server that has never
\* listened, and never in a client.
THEOREM DoubleFreesAreUnready == Spec => []FreedTwiceOnlyUnready
<1>1. Inv => FreedTwiceOnlyUnready
  <2>1. ASSUME Inv, NEW p \in Processes, NEW w \in Part, info[p][w] = "freed twice"
        PROVE  p \in Servers /\ w = "service" /\ p \notin listened
    <3>1. CASE p \in ChatClients
      BY <2>1, <3>1 DEF Inv, ProcessInv, ClientInv, Part
    <3>2. CASE p \in Servers
      BY <2>1, <3>2 DEF Inv, ProcessInv, ServerInv, Off, FirstPartInv, SecondPartInv, Part
    <3> QED
      BY <3>1, <3>2, Kinds
  <2> QED
    BY <2>1 DEF FreedTwiceOnlyUnready
<1> QED
  BY <1>1, Invariance, PTL
=============================================================================
