------------------------- MODULE ProxyTrafficProofs -------------------------
(***************************************************************************)
(* Requests and answers keep to their ways, for every number of clients,   *)
(* links, hosts, descriptors and events: Traffic is inductive beside Inv.  *)
(* Most steps are quiet, in that they take bytes from one table to another *)
(* or throw them away; one lemma shows that such a step keeps Traffic, and *)
(* each of the other eight has a lemma for each part of Traffic that it    *)
(* can disturb.                                                            *)
(***************************************************************************)
EXTENDS ProxyTraffic, ProxyProofs

USE DEF vars, netVars, clientVars, originVars, serverVars, loopVars,
        ClientCaptured, BridgeCaptured, HandlerOwned

-----------------------------------------------------------------------------
(* Sequences.                                                              *)

(* A piece that is appended to what is unread is appended to the whole.    *)
LEMMA ConcatAppend ==
  ASSUME NEW S, NEW s \in Seq(S), NEW t \in Seq(S), NEW x \in S
  PROVE  s \o Append(t, x) = Append(s \o t, x)
<1>1. <<x>> \in Seq(S)
  OBVIOUS
<1>2. s \o t \in Seq(S)
  BY ConcatProperties
<1> QED
  BY <1>1, <1>2, AppendIsConcat, ConcatAssociative

(* The second of two.                                                      *)
LEMMA AppendToOne ==
  ASSUME NEW x, NEW y
  PROVE  Append(<<x>>, y) = <<x, y>>
<1>1. <<x>> \in Seq({x, y}) /\ y \in {x, y}
  OBVIOUS
<1>2. PICK s : s = Append(<<x>>, y)
  OBVIOUS
<1>3. Append(<<x>>, y) \in Seq({x, y}) /\ Len(Append(<<x>>, y)) = 2
  BY <1>1, AppendProperties
<1>4. Append(<<x>>, y)[1] = x
  BY <1>1, AppendProperties
<1>5. Append(<<x>>, y)[2] = y
  BY <1>1, AppendProperties
<1>6. s \in Seq({x, y}) /\ Len(s) = 2 /\ s[1] = x /\ s[2] = y
  BY <1>2, <1>3, <1>4, <1>5
<1>7. s = <<x, y>>
  BY <1>6
<1> QED
  BY <1>2, <1>7

-----------------------------------------------------------------------------
(* Who is at the end of a descriptor.                                      *)

Queued(c) == \E i \in 1..Len(backlog) : backlog[i] = c

(* A descriptor that leads to a client is that client's.                   *)
LEMMA ClientFdOf ==
  ASSUME Inv, NEW fd \in Fds, epoll.fdt[fd] \in Clients
  PROVE  fd \in ClientFds /\ clients[fd] = epoll.fdt[fd]
<1>1. fd \in OpenNow
  BY RegistryConsistent, NoneAssumption DEF Consistent, OpenFds
<1>2. fd \notin BridgeFds
  <2> SUFFICES ASSUME NEW f \in Fds, con_map[f] # None, con_map[f].fd = fd
               PROVE  FALSE
    BY DEF BridgeFds
  <2> QED
    BY PeersAssumption DEF Inv, CapturesValid
<1>3. fd \notin Listening
  BY PeersAssumption DEF Inv, RegistryCoherent, Listening
<1>4. fd \in ClientFds
  BY <1>1, <1>2, <1>3 DEF OpenNow
<1> QED
  BY <1>4 DEF ClientFds, Inv, CapturesValid

(* A descriptor that leads to an origin is a bridge's.                     *)
LEMMA BridgeFdOf ==
  ASSUME Inv, NEW fd \in Fds, epoll.fdt[fd] \in Links
  PROVE  \E f \in Fds : con_map[f] # None /\ con_map[f].fd = fd
<1>1. fd \in OpenNow
  BY RegistryConsistent, NoneAssumption DEF Consistent, OpenFds
<1>2. fd \notin ClientFds
  BY PeersAssumption DEF Inv, CapturesValid, ClientFds, TypeOK
<1>3. fd \notin Listening
  BY PeersAssumption DEF Inv, RegistryCoherent, Listening
<1> QED
  BY <1>1, <1>2, <1>3 DEF OpenNow, BridgeFds

(* A client in the table: its connection, and that it is nobody else's.    *)
LEMMA ClientEnd ==
  ASSUME Inv, PeersDistinct, NEW fd \in ClientFds
  PROVE  /\ fd \in Fds /\ clients[fd] \in Clients /\ clients[fd] \in Peers
         /\ clients[fd] \notin Links
         /\ epoll.fdt[fd] = clients[fd] /\ Connected(clients[fd])
         /\ far[clients[fd]] # "absent" /\ ~Queued(clients[fd])
         /\ \A other \in ClientFds : clients[other] = clients[fd] => other = fd
<1>1. /\ fd \in Fds /\ clients[fd] \in Clients /\ clients[fd] \in Peers
      /\ epoll.fdt[fd] = clients[fd]
  BY DEF Inv, TypeOK, CapturesValid, ClientFds, Peers
<1>2. Connected(clients[fd])
  BY <1>1 DEF Connected
<1>3. \A other \in ClientFds : other \in Fds /\ epoll.fdt[other] = clients[other]
  BY DEF Inv, CapturesValid, ClientFds
<1> QED
  BY <1>1, <1>2, <1>3, PeersAssumption DEF PeersDistinct, Queued

LinkOf(fd) == epoll.fdt[con_map[fd].fd]

(* And a bridge in con_map.                                                *)
LEMMA BridgeEnd ==
  ASSUME Inv, PeersDistinct, NEW fd \in Fds, con_map[fd] # None
  PROVE  /\ fd \in ClientFds /\ con_map[fd] \in Bridge /\ con_map[fd].fd \in Fds
         /\ LinkOf(fd) \in Links /\ LinkOf(fd) \in Peers
         /\ LinkOf(fd) \notin Clients
         /\ host[LinkOf(fd)] = con_map[fd].host /\ host[LinkOf(fd)] # None
         /\ \A other \in Fds :
              con_map[other] # None /\ LinkOf(other) = LinkOf(fd) => other = fd
<1>1. /\ fd \in ClientFds /\ con_map[fd] \in Bridge /\ con_map[fd].fd \in Fds
      /\ LinkOf(fd) \in Links /\ host[LinkOf(fd)] = con_map[fd].host
  BY OwnersDistinct DEF Inv, CapturesValid, LinkOf, Bridge
<1>2. host[LinkOf(fd)] # None
  BY <1>1, NetworkAssumption DEF Bridge
<1>3. LinkOf(fd) \in Peers /\ LinkOf(fd) \notin Clients
  BY <1>1, PeersAssumption DEF Peers
<1>4. ASSUME NEW other \in Fds, con_map[other] # None,
             LinkOf(other) = LinkOf(fd)
      PROVE  other = fd
  <2>1. con_map[other].fd \in Fds
    BY <1>4, OwnersDistinct DEF Bridge
  <2>2. con_map[other].fd = con_map[fd].fd
    BY <1>1, <1>3, <1>4, <2>1 DEF PeersDistinct, LinkOf
  <2> QED
    BY <1>4, <2>2, OwnersDistinct
<1> QED
  BY <1>1, <1>2, <1>3, <1>4

-----------------------------------------------------------------------------
(* Quiet steps.                                                            *)

(* A step after which a client that is connected is at the request it was  *)
(* at, or is there no more, or has been relieved of its request.           *)
ClientsQuiet ==
  /\ UNCHANGED <<backlog, asked>>
  /\ \A c \in Clients : far'[c] = "absent" <=> far[c] = "absent"
  /\ \A c \in Clients : far[c] = "absent" \/ Queued(c) => rx'[c] = rx[c]
  /\ \A fd \in Fds : clients'[fd] # None =>
       /\ clients'[fd] = clients[fd]
       /\ \/ Income(fd)' = Income(fd)
          \/ Income(fd)' = <<>> /\ turn[clients[fd]] = "waiting"

(* A step after which, moreover, the network has seen and said nothing:    *)
(* connections may be closed, bytes that were read may be kept or lost.    *)
Quiet ==
  /\ ClientsQuiet
  /\ UNCHANGED <<turn, got, host, inbox, replied>>
  /\ \A p \in Peers : far[p] # "absent" => far'[p] # "absent"
  /\ \A fd \in Fds : epoll'.fdt[fd] \in {epoll.fdt[fd], None}
  /\ \A l \in Links : rx'[l] \in {rx[l], <<>>}
  /\ \A fd \in Fds : con_map'[fd] # None =>
       /\ con_map'[fd] = con_map[fd] /\ clients'[fd] = clients[fd]
       /\ epoll'.fdt[con_map[fd].fd] = epoll.fdt[con_map[fd].fd]
       /\ Download(con_map[fd].fd)' \in {Download(con_map[fd].fd), <<>>}

(* Closing connections, and moving those that queue no further than they   *)
(* were, leaves all peers distinct.                                        *)
LEMMA PeersStayDistinct ==
  ASSUME PeersDistinct, backlog' = backlog,
         \A p \in Peers : far[p] # "absent" => far'[p] # "absent",
         \A i \in 1..Len(backlog) : backlog[i] \in Peers,
         \A fd \in Fds : epoll'.fdt[fd] \in {epoll.fdt[fd], None}
  PROVE  PeersDistinct'
<1>1. \A p \in Peers : Connected(p)' => Connected(p)
  BY NoneAssumption DEF Connected, Peers
<1>2. \A f, g \in Fds :
        epoll'.fdt[f] \in Peers /\ epoll'.fdt[f] = epoll'.fdt[g] => f = g
  BY NoneAssumption DEF PeersDistinct, Peers
<1>3. \A p \in Peers : Connected(p)' => far'[p] # "absent"
  BY <1>1 DEF PeersDistinct
<1>4. \A i, j \in 1..Len(backlog) :
        /\ far'[backlog[i]] # "absent" /\ ~Connected(backlog[i])'
        /\ backlog[i] = backlog[j] => i = j
  BY <1>1 DEF PeersDistinct
<1> QED
  BY <1>2, <1>3, <1>4 DEF PeersDistinct, Connected

(* Those that queue are clients.                                           *)
LEMMA QueueType ==
  ASSUME TypeOK
  PROVE  \A i \in 1..Len(backlog) : backlog[i] \in Clients /\ backlog[i] \in Peers
BY ElementOfSeq DEF TypeOK, NetworkTypeOK, Peers

(* And those that sent what is in an inbox.                                *)
LEMMA InboxType ==
  ASSUME TypeOK, NEW l \in Links, NEW i \in 1..Len(inbox[l])
  PROVE  /\ inbox[l][i] \in Request /\ inbox[l][i].n \in Nat
         /\ inbox[l][i].client \in Clients /\ inbox[l][i].client \in Peers
         /\ inbox[l][i].client # None
<1>1. inbox[l][i] \in Request
  BY ElementOfSeq DEF TypeOK, NetworkTypeOK
<1> QED
  BY <1>1, NoneAssumption DEF Request, Peers

(* What is unread stays what the client's turn says, also when the turn    *)
(* ends with the answer.                                                   *)
LEMMA IncomeStaysFit ==
  ASSUME Inv, IncomeFits, ClientsQuiet,
         \A c \in Clients :
           \/ turn'[c] = turn[c]
           \/ /\ turn[c] = "waiting" /\ turn'[c] = "idle"
              /\ far[c] # "absent" /\ ~Queued(c)
              /\ \A fd \in Fds : clients'[fd] = c => Income(fd)' = <<>>
  PROVE  IncomeFits'
<1>1. \A c \in Clients : far'[c] = "absent" => turn'[c] = "idle" /\ rx'[c] = <<>>
  BY DEF IncomeFits, ClientsQuiet
<1>2. ASSUME NEW i \in 1..Len(backlog)
      PROVE  Fits(backlog[i], rx[backlog[i]])'
  <2>1. /\ Fits(backlog[i], rx[backlog[i]]) /\ rx'[backlog[i]] = rx[backlog[i]]
        /\ turn'[backlog[i]] = turn[backlog[i]]
    BY QueueType DEF Inv, IncomeFits, Queued, ClientsQuiet
  <2>2. UNCHANGED <<backlog, asked>>
    BY DEF ClientsQuiet
  <2> QED
    BY <2>1, <2>2 DEF Fits, Latest
<1>3. ASSUME NEW fd \in ClientFds'
      PROVE  Fits(clients[fd], Income(fd))'
  <2>1. fd \in ClientFds /\ fd \in Fds /\ clients'[fd] = clients[fd]
    BY <1>3 DEF ClientFds, ClientsQuiet
  <2>2. Fits(clients[fd], Income(fd)) /\ clients[fd] \in Clients
    BY <2>1 DEF IncomeFits, Inv, TypeOK, ClientFds
  <2>3. \/ Income(fd)' = Income(fd)
        \/ Income(fd)' = <<>> /\ turn[clients[fd]] = "waiting"
    BY <1>3, <2>1 DEF ClientFds, ClientsQuiet
  <2>4. asked' = asked
    BY DEF ClientsQuiet
  <2>5. CASE turn'[clients[fd]] = turn[clients[fd]]
    BY <2>1, <2>2, <2>3, <2>4, <2>5 DEF Fits, Latest
  <2>6. CASE turn'[clients[fd]] # turn[clients[fd]]
    <3>1. turn'[clients[fd]] = "idle" /\ Income(fd)' = <<>>
      BY <2>1, <2>2, <2>6
    <3> QED
      BY <2>1, <3>1 DEF Fits
  <2> QED
    BY <2>5, <2>6
<1>4. backlog' = backlog
  BY DEF ClientsQuiet
<1> QED
  BY <1>1, <1>2, <1>3, <1>4 DEF IncomeFits

(* A request that was handed over stays so.                                *)
LEMMA StaysHandedOver ==
  ASSUME ClientsQuiet,
         \A c \in Clients : turn'[c] = "sending" => turn[c] = "sending",
         NEW req \in Request, HandedOver(req)
  PROVE  HandedOver(req)'
<1>1. req.client \in Clients /\ req.client # None
  BY NoneAssumption DEF Request
<1>2. /\ req.n <= Len(asked'[req.client]) /\ far'[req.client] # "absent"
      /\ \A j \in 1..Len(backlog') : backlog'[j] # req.client
      /\ req.n = Len(asked'[req.client]) => turn'[req.client] # "sending"
  BY <1>1 DEF HandedOver, ClientsQuiet
<1>3. ASSUME req.n = Len(asked'[req.client]), NEW fd \in Fds,
             clients'[fd] = req.client
      PROVE  Income(fd)' = <<>>
  BY <1>1, <1>3 DEF HandedOver, ClientsQuiet
<1> QED
  BY <1>2, <1>3 DEF HandedOver

(* A bridge whose response was not touched, or was thrown away, still has  *)
(* what its client waits for and nothing else.                             *)
LEMMA BridgeStillAnswers ==
  ASSUME NEW c, NEW l, NEW download, BridgeAnswers(c, l, download),
         NEW after \in {download, <<>>},
         turn'[c] = turn[c], asked'[c] = asked[c],
         inbox'[l] = inbox[l], replied'[l] = replied[l]
  PROVE  BridgeAnswers(c, l, after)'
<1>1. CASE after = download
  BY <1>1 DEF BridgeAnswers, Latest
<1>2. CASE after = <<>>
  <2>1. \A i \in 1..Len(after) : FALSE
    BY <1>2
  <2> QED
    BY <2>1 DEF BridgeAnswers, Latest
<1> QED
  BY <1>1, <1>2

(* The same of a bridge in con_map.                                        *)
LEMMA BridgeUntouched ==
  ASSUME Traffic, NEW fd \in Fds, con_map[fd] # None,
         con_map'[fd] = con_map[fd], clients'[fd] = clients[fd],
         epoll'.fdt[con_map[fd].fd] = epoll.fdt[con_map[fd].fd],
         Download(con_map[fd].fd)' \in {Download(con_map[fd].fd), <<>>},
         turn'[clients[fd]] = turn[clients[fd]],
         asked'[clients[fd]] = asked[clients[fd]],
         inbox'[LinkOf(fd)] = inbox[LinkOf(fd)],
         replied'[LinkOf(fd)] = replied[LinkOf(fd)]
  PROVE  BridgeAnswers(clients[fd], epoll.fdt[con_map[fd].fd],
                       Download(con_map[fd].fd))'
<1>1. BridgeAnswers(clients[fd], LinkOf(fd), Download(con_map[fd].fd))
  BY DEF Traffic, BridgesAnswer, LinkOf
<1>2. PICK c, l, after : /\ c = clients[fd] /\ l = LinkOf(fd)
                         /\ after = Download(con_map[fd].fd)'
  OBVIOUS
<1>3. BridgeAnswers(c, l, after)'
  BY <1>1, <1>2, BridgeStillAnswers
<1> QED
  BY <1>2, <1>3 DEF BridgeAnswers, LinkOf

(* A quiet step keeps each part of Traffic.                                *)
LEMMA QuietTraffic ==
  ASSUME Inv, Traffic, Quiet
  PROVE  Traffic'
<1>1. PeersDistinct'
  BY QueueType, PeersStayDistinct DEF Inv, Traffic, Quiet, ClientsQuiet
<1>2. IncomeFits'
  BY IncomeStaysFit DEF Traffic, Quiet
<1>3. RoutedOnce'
  BY DEF Traffic, RoutedOnce, Quiet
<1>4. InboxesHandedOver'
  <2> SUFFICES ASSUME NEW l \in Links, NEW i \in 1..Len(inbox[l])
               PROVE  HandedOver(inbox[l][i])'
    BY DEF InboxesHandedOver, Quiet
  <2> PICK req \in Request : req = inbox[l][i]
    BY InboxType DEF Inv
  <2>1. HandedOver(req)
    BY DEF Traffic, InboxesHandedOver
  <2>2. HandedOver(req)'
    BY <2>1, StaysHandedOver DEF Quiet, ClientsQuiet
  <2> QED
    BY <2>2 DEF HandedOver, Quiet
<1>5. BridgesAnswer'
  <2>1. \A l \in Links : host'[l] = None => rx'[l] = <<>> /\ replied'[l] = 0
    BY DEF Traffic, BridgesAnswer, Quiet
  <2>2. ASSUME NEW fd \in Fds, con_map'[fd] # None
        PROVE  BridgeAnswers(clients[fd], epoll.fdt[con_map[fd].fd],
                             Download(con_map[fd].fd))'
    <3>1. /\ con_map'[fd] = con_map[fd] /\ clients'[fd] = clients[fd]
          /\ epoll'.fdt[con_map[fd].fd] = epoll.fdt[con_map[fd].fd]
          /\ Download(con_map[fd].fd)' \in {Download(con_map[fd].fd), <<>>}
          /\ UNCHANGED <<turn, asked, inbox, replied>>
      BY <2>2 DEF Quiet, ClientsQuiet
    <3> QED
      BY <2>2, <3>1, BridgeUntouched
  <2> QED
    BY <2>1, <2>2 DEF BridgesAnswer
<1>6. AnswersGiven'
  BY DEF Traffic, AnswersGiven, Latest, Quiet, ClientsQuiet
<1> QED
  BY <1>1, <1>2, <1>3, <1>4, <1>5, <1>6 DEF Traffic

(* Bytes are read from the peers ps only.                                  *)
LEMMA DrainEffect ==
  ASSUME NEW ps, Drain(ps)
  PROVE  \A p \in Peers : rx'[p] = IF p \in ps THEN <<>> ELSE rx[p]
BY DEF Drain

(* A client from whom nothing is read, and whose entry of request_map      *)
(* stays, is at the same request.                                          *)
LEMMA IncomeKept ==
  ASSUME Inv, PeersDistinct, NEW ps, Drain(ps), NEW fd \in ClientFds,
         clients[fd] \notin ps, clients'[fd] = clients[fd],
         request_map'[fd] = request_map[fd]
  PROVE  Income(fd)' = Income(fd)
<1>1. rx'[clients[fd]] = rx[clients[fd]]
  BY ClientEnd, DrainEffect
<1> QED
  BY <1>1 DEF Income

(* And so it is for a bridge and its response.                             *)
LEMMA DownloadKept ==
  ASSUME Inv, PeersDistinct, NEW ps, Drain(ps), NEW fd \in Fds,
         con_map[fd] # None, con_map'[fd] = con_map[fd],
         LinkOf(fd) \notin ps,
         epoll'.fdt[con_map[fd].fd] = epoll.fdt[con_map[fd].fd],
         response'[con_map[fd].fd] = response[con_map[fd].fd]
  PROVE  Download(con_map[fd].fd)' = Download(con_map[fd].fd)
<1>1. rx'[LinkOf(fd)] = rx[LinkOf(fd)]
  BY BridgeEnd, DrainEffect
<1> QED
  BY <1>1 DEF Download, LinkOf

(* What is read is not from a client that queues or has yet to connect.    *)
LEMMA DrainOthers ==
  ASSUME Inv, PeersDistinct, NEW ps, Drain(ps),
         \A p \in ps : Connected(p), NEW c \in Clients,
         far[c] = "absent" \/ Queued(c)
  PROVE  rx'[c] = rx[c]
<1>1. c \in Peers /\ ~Connected(c)
  BY DEF PeersDistinct, Queued, Peers
<1> QED
  BY <1>1, DrainEffect

(* What a complete request is: all that its client has asked for.          *)
LEMMA CompleteIncome ==
  ASSUME Inv, Traffic, NEW fd \in ClientFds, IsComplete(Income(fd))
  PROVE  LET c == clients[fd]
         IN  /\ turn[c] = "waiting" /\ asked[c] # <<>>
             /\ Income(fd) # <<>>
             /\ Wanted(fd) = Latest(c, asked[c])
<1> DEFINE c == clients[fd]
           piece(part) == [req |-> Latest(c, asked[c]), part |-> part]
<1>1. Fits(c, Income(fd)) /\ c \in Clients
  BY ClientEnd DEF Traffic, IncomeFits
<1>2. Income(fd) # <<>>
  BY DEF IsComplete
<1>3. Income(fd) # <<piece("head")>>
  <2> SUFFICES ASSUME Income(fd) = <<piece("head")>> PROVE FALSE
    OBVIOUS
  <2>1. PICK i \in 1..Len(Income(fd)) : Income(fd)[i].part \in {"interim", "end"}
    BY DEF IsComplete
  <2>2. i = 1 /\ Income(fd)[1] = piece("head")
    OBVIOUS
  <2> QED
    BY <2>1, <2>2
<1>4. turn[c] = "waiting" /\ Income(fd) = <<piece("head"), piece("end")>>
  BY <1>1, <1>2, <1>3 DEF Fits
<1>5. Head(Income(fd)) = piece("head")
  BY <1>4
<1>6. asked[c] # <<>>
  BY <1>1, <1>4 DEF Inv
<1> QED
  BY <1>2, <1>4, <1>5, <1>6 DEF Wanted

(* What every handler that drops a bridge, or a client with its bridge,    *)
(* does to the tables.                                                     *)
Drops(cfd, gone) ==
  /\ UNCHANGED <<backlog, far, clientVars, originVars>>
  /\ epoll'.fdt = [fd \in Fds |-> IF fd \in gone THEN None ELSE epoll.fdt[fd]]
  /\ clients' = IF cfd \in gone THEN [clients EXCEPT ![cfd] = None] ELSE clients
  /\ con_map' = [con_map EXCEPT ![cfd] = None]
  /\ \A fd \in Fds \ {cfd} : request_map'[fd] = request_map[fd]
  /\ \A fd \in Fds \ BridgeOf(cfd) : response'[fd] = response[fd]
  /\ Drain({clients[cfd]} \cup BridgePeer(cfd))

(* It does nothing to the other clients.                                   *)
LEMMA DropIsPrivate ==
  ASSUME Inv, PeersDistinct, NEW cfd \in ClientFds,
         NEW gone \in {BridgeOf(cfd), BridgeOf(cfd) \cup {cfd}},
         Drops(cfd, gone), NEW other \in ClientFds, other # cfd
  PROVE  /\ Undisturbed(other)
         /\ con_map[other] # None =>
              epoll'.fdt[con_map[other].fd] = epoll.fdt[con_map[other].fd]
<1> DEFINE ps == {clients[cfd]} \cup BridgePeer(cfd)
<1>1. /\ cfd \in Fds /\ other \in Fds /\ clients[other] # clients[cfd]
      /\ clients[other] \in Clients /\ clients[cfd] \in Clients
  BY ClientEnd
<1>2. /\ clients \in [Fds -> Clients \cup {None}]
      /\ con_map \in [Fds -> Bridge \cup {None}]
  BY DEF Inv, TypeOK
<1>3. clients'[other] = clients[other] /\ con_map'[other] = con_map[other]
  BY <1>1, <1>2 DEF Drops
<1>4. \A p \in BridgePeer(cfd) : p \in Links /\ con_map[cfd] # None
                                 /\ p = LinkOf(cfd)
  BY <1>1, BridgeEnd DEF BridgePeer, LinkOf
<1>5. clients[other] \notin ps
  BY <1>1, <1>4, PeersAssumption
<1>6. Income(other)' = Income(other)
  <2>1. Drain(ps) /\ request_map'[other] = request_map[other]
    BY <1>1 DEF Drops
  <2> QED
    BY <1>3, <1>5, <2>1, IncomeKept
<1>7. ASSUME con_map[other] # None
      PROVE  /\ Download(con_map[other].fd)' = Download(con_map[other].fd)
             /\ epoll'.fdt[con_map[other].fd] = epoll.fdt[con_map[other].fd]
  <2>1. con_map[other].fd \in Fds /\ con_map[other].fd \in BridgeFds
    BY <1>1, <1>7, OwnersDistinct DEF Bridge, BridgeFds
  <2>2. con_map[other].fd \notin gone /\ con_map[other].fd \notin BridgeOf(cfd)
    BY <1>1, <1>7, <2>1, OwnersDistinct DEF BridgeOf
  <2>3. /\ epoll'.fdt[con_map[other].fd] = epoll.fdt[con_map[other].fd]
        /\ response'[con_map[other].fd] = response[con_map[other].fd]
        /\ Drain(ps)
    BY <2>1, <2>2 DEF Drops
  <2>4. LinkOf(other) \notin ps
    BY <1>1, <1>4, <1>7, BridgeEnd
  <2> QED
    BY <1>1, <1>3, <1>7, <2>3, <2>4, DownloadKept
<1> QED
  BY <1>3, <1>6, <1>7 DEF Undisturbed

(* And it is quiet, if a client that stays is left with no request.        *)
LEMMA DropIsQuiet ==
  ASSUME Inv, PeersDistinct, NEW cfd \in ClientFds,
         NEW gone \in {BridgeOf(cfd), BridgeOf(cfd) \cup {cfd}},
         Drops(cfd, gone),
         cfd \notin gone => /\ request_map'[cfd] = <<>>
                            /\ turn[clients[cfd]] = "waiting"
  PROVE  Quiet
<1> DEFINE ps == {clients[cfd]} \cup BridgePeer(cfd)
<1>1. /\ clients \in [Fds -> Clients \cup {None}]
      /\ con_map \in [Fds -> Bridge \cup {None}]
      /\ cfd \in Fds /\ clients[cfd] \in Peers /\ Connected(clients[cfd])
  BY ClientEnd DEF Inv, TypeOK
<1>2. \A p \in ps : Connected(p)
  <2>1. \A p \in BridgePeer(cfd) : Connected(p)
    BY <1>1, BridgeEnd DEF BridgePeer, Connected
  <2> QED
    BY <1>1, <2>1
<1>3. Drain(ps)
  BY DEF Drops
<1>4. \A l \in Links : rx'[l] \in {rx[l], <<>>}
  BY <1>3, DrainEffect DEF Peers
<1>5. \A c \in Clients : far[c] = "absent" \/ Queued(c) => rx'[c] = rx[c]
  BY <1>2, <1>3, DrainOthers
<1>6. ASSUME NEW fd \in Fds, clients'[fd] # None
      PROVE  /\ clients'[fd] = clients[fd]
             /\ \/ Income(fd)' = Income(fd)
                \/ Income(fd)' = <<>> /\ turn[clients[fd]] = "waiting"
  <2>1. fd \in ClientFds /\ clients'[fd] = clients[fd]
    BY <1>1, <1>6 DEF Drops, ClientFds
  <2>2. CASE fd # cfd
    BY <2>1, <2>2, DropIsPrivate DEF Undisturbed
  <2>3. CASE fd = cfd
    <3>1. request_map'[cfd] = <<>> /\ turn[clients[cfd]] = "waiting"
      BY <1>1, <1>6, <2>3 DEF Drops
    <3>2. rx'[clients[cfd]] = <<>>
      BY <1>1, <1>3, DrainEffect
    <3>3. Income(fd)' = <<>>
      BY <2>1, <2>3, <3>1, <3>2 DEF Income
    <3> QED
      BY <2>1, <2>3, <3>1, <3>3
  <2> QED
    BY <2>2, <2>3
<1>7. ASSUME NEW fd \in Fds, con_map'[fd] # None
      PROVE  /\ con_map'[fd] = con_map[fd] /\ clients'[fd] = clients[fd]
             /\ epoll'.fdt[con_map[fd].fd] = epoll.fdt[con_map[fd].fd]
             /\ Download(con_map[fd].fd)' = Download(con_map[fd].fd)
  <2>1. fd # cfd /\ con_map'[fd] = con_map[fd] /\ con_map[fd] # None
    BY <1>1, <1>7 DEF Drops
  <2>2. fd \in ClientFds
    BY <2>1, BridgeEnd
  <2> QED
    BY <2>1, <2>2, DropIsPrivate DEF Undisturbed
<1>8. /\ UNCHANGED <<backlog, turn, asked, got, host, inbox, replied, far>>
      /\ \A fd \in Fds : epoll'.fdt[fd] \in {epoll.fdt[fd], None}
  BY DEF Drops
<1> QED
  BY <1>4, <1>5, <1>6, <1>7, <1>8 DEF Quiet, ClientsQuiet

(* The loop, the signals, and the visits that only end the process or find *)
(* nobody to call.                                                         *)
LEMMA StillIsQuiet ==
  ASSUME UNCHANGED <<netVars, serverVars, epoll.fdt>>
  PROVE  Quiet
<1>1. \A fd : Income(fd)' = Income(fd) /\ Download(fd)' = Download(fd)
  BY DEF Income, Download
<1>2. \A fd : con_map'[fd] = con_map[fd]
              => Download(con_map[fd].fd)' = Download(con_map[fd].fd)
  BY DEF Download
<1> QED
  BY <1>1, <1>2 DEF Quiet, ClientsQuiet

(* When main returns there are no tables any more.                         *)
LEMMA ExitIsQuiet ==
  ASSUME Exit
  PROVE  Quiet
BY DEF Exit, Quiet, ClientsQuiet, EmptyRegistry

(* The first read of a request puts in request_map what it takes out of    *)
(* the socket.                                                             *)
LEMMA RequestPartIsQuiet ==
  ASSUME Inv, PeersDistinct, NEW e \in batch, RequestPart(e)
  PROVE  Quiet
<1> DEFINE c == clients[e.fd]
<1>1. e.fd \in ClientFds /\ c \in Peers /\ c \in Clients /\ Connected(c)
  BY ClientHandled, ClientEnd, NoneAssumption
     DEF RequestPart, ClientReads, ClientFds
<1>2. /\ Drain({c}) /\ request_map' = [request_map EXCEPT ![e.fd] = Income(e.fd)]
      /\ UNCHANGED <<backlog, far, clientVars, originVars, epoll, clients,
                     con_map, response>>
  BY DEF RequestPart
<1>3. ASSUME NEW fd \in Fds, clients[fd] # None
      PROVE  Income(fd)' = Income(fd)
  <2>1. fd \in ClientFds
    BY <1>3 DEF ClientFds
  <2>2. CASE fd = e.fd
    <3>1. Income(fd) \in Seq(Piece)
      BY <1>1, <2>2, IncomeType DEF Inv
    <3>2. request_map'[fd] = Income(fd) /\ rx'[clients[fd]] = <<>>
      BY <1>1, <1>2, <2>2, DrainEffect DEF Inv, TypeOK
    <3>3. Income(fd)' = Income(fd) \o <<>>
      BY <1>2, <3>2 DEF Income
    <3> QED
      BY <3>1, <3>3, ConcatEmptySeq
  <2>3. CASE fd # e.fd
    <3>1. clients[fd] \notin {c} /\ request_map'[fd] = request_map[fd]
      BY <1>1, <1>2, <2>1, <2>3, ClientEnd DEF Inv, TypeOK
    <3> QED
      BY <1>2, <2>1, <3>1, IncomeKept
  <2> QED
    BY <2>2, <2>3
<1>4. ASSUME NEW fd \in Fds, con_map[fd] # None
      PROVE  Download(con_map[fd].fd)' = Download(con_map[fd].fd)
  <2>1. LinkOf(fd) \notin {c}
    BY <1>1, <1>4, BridgeEnd
  <2> QED
    BY <1>2, <1>4, <2>1, DownloadKept
<1>5. /\ \A l \in Links : rx'[l] \in {rx[l], <<>>}
      /\ \A d \in Clients : far[d] = "absent" \/ Queued(d) => rx'[d] = rx[d]
  BY <1>1, <1>2, DrainEffect, DrainOthers DEF Peers
<1> QED
  BY <1>2, <1>3, <1>4, <1>5 DEF Quiet, ClientsQuiet

(* What a bridge reads and does not pass on is kept or lost.               *)
LEMMA ResponseReadIsQuiet ==
  ASSUME Inv, PeersDistinct, NEW e \in batch,
         ResponseThrows(e) \/ ResponsePart(e)
  PROVE  Quiet
<1>1. PICK cfd \in Fds : /\ con_map[cfd] # None /\ con_map[cfd].fd = e.fd
                         /\ epoll.fdt[e.fd] = LinkOf(cfd)
  BY BridgeHandled, BridgeAssumption
     DEF ResponseThrows, ResponsePart, BridgeReads, LinkOf
<1>2. LinkOf(cfd) \in Links /\ LinkOf(cfd) \in Peers /\ e.fd \in Fds
  BY <1>1, BridgeEnd
<1>3. /\ Drain({LinkOf(cfd)})
      /\ response' = [response EXCEPT ![e.fd] = <<>>]
         \/ response' = [response EXCEPT ![e.fd] = Download(e.fd)]
      /\ UNCHANGED <<backlog, far, clientVars, originVars, epoll, clients,
                     request_map, con_map>>
  BY <1>1 DEF ResponseThrows, ResponsePart
<1>4. ASSUME NEW fd \in Fds, clients[fd] # None
      PROVE  Income(fd)' = Income(fd)
  <2>1. fd \in ClientFds
    BY <1>4 DEF ClientFds
  <2>2. clients[fd] \notin {LinkOf(cfd)}
    BY <1>2, <2>1, ClientEnd
  <2> QED
    BY <1>3, <2>1, <2>2, IncomeKept
<1>5. ASSUME NEW fd \in Fds, con_map[fd] # None
      PROVE  Download(con_map[fd].fd)' \in {Download(con_map[fd].fd), <<>>}
  <2>1. CASE fd = cfd
    <3>1. Download(e.fd) \in Seq(Piece)
      BY <1>1, <1>2, DownloadType DEF Inv
    <3>2. rx'[LinkOf(cfd)] = <<>> /\ response'[e.fd] \in {<<>>, Download(e.fd)}
      BY <1>2, <1>3, DrainEffect DEF Inv, TypeOK
    <3>3. Download(con_map[fd].fd)' = response'[e.fd] \o <<>>
      BY <1>1, <1>3, <2>1, <3>2 DEF Download, LinkOf
    <3>4. <<>> \o <<>> = <<>> /\ Download(e.fd) \o <<>> = Download(e.fd)
      BY <3>1, ConcatEmptySeq, EmptySeq
    <3> QED
      BY <1>1, <2>1, <3>2, <3>3, <3>4
  <2>2. CASE fd # cfd
    <3>1. /\ LinkOf(fd) \notin {LinkOf(cfd)} /\ con_map[fd].fd # e.fd
          /\ con_map[fd].fd \in Fds
      BY <1>1, <1>5, <2>2, BridgeEnd, OwnersDistinct
    <3>2. response'[con_map[fd].fd] = response[con_map[fd].fd]
      BY <1>3, <3>1 DEF Inv, TypeOK
    <3> QED
      BY <1>3, <1>5, <3>1, <3>2, DownloadKept
  <2> QED
    BY <2>1, <2>2
<1>6. Connected(LinkOf(cfd))
  BY <1>1, <1>2 DEF Connected
<1>7. /\ \A l \in Links : rx'[l] \in {rx[l], <<>>}
      /\ \A d \in Clients : far[d] = "absent" \/ Queued(d) => rx'[d] = rx[d]
  BY <1>2, <1>3, <1>6, DrainEffect, DrainOthers DEF Peers
<1> QED
  BY <1>3, <1>4, <1>5, <1>7 DEF Quiet, ClientsQuiet

(* A bridge that cannot be made takes the old one and the request along.   *)
LEMMA RefusedIsQuiet ==
  ASSUME Inv, Traffic, NEW e \in batch, RequestRefused(e)
  PROVE  Quiet
<1>1. e.fd \in ClientFds /\ e.fd \in Fds
  BY ClientHandled, NoneAssumption
     DEF RequestRefused, RequestDone, ClientReads, ClientFds
<1>2. e.fd \notin BridgeOf(e.fd)
  BY <1>1, OwnersDistinct DEF BridgeOf, BridgeFds
<1>3. epoll'.fdt = [fd \in Fds |-> IF fd \in BridgeOf(e.fd) THEN None
                                   ELSE epoll.fdt[fd]]
  BY <1>1, DropBridgeEffect DEF RequestRefused
<1>4. /\ \A fd \in Fds \ {e.fd} : request_map'[fd] = request_map[fd]
      /\ request_map'[e.fd] = <<>>
      /\ \A fd \in Fds \ BridgeOf(e.fd) : response'[fd] = response[fd]
  BY <1>1 DEF RequestRefused, RequestDone, DropResponse, BridgeOf, Inv, TypeOK
<1>5. Drops(e.fd, BridgeOf(e.fd))
  BY <1>2, <1>3, <1>4 DEF RequestRefused, Drops
<1>6. turn[clients[e.fd]] = "waiting"
  BY <1>1, CompleteIncome DEF RequestRefused, RequestDone
<1> QED
  BY <1>1, <1>2, <1>4, <1>5, <1>6, DropIsQuiet DEF Traffic

(* A hang-up drops one client, with its bridge.                            *)
LEMMA HupDrops ==
  ASSUME Inv, NEW e \in batch, ClientHup(e) \/ BridgeHup(e)
  PROVE  \E cfd \in ClientFds : Drops(cfd, BridgeOf(cfd) \cup {cfd})
<1>1. CASE ClientHup(e)
  <2>1. e.fd \in ClientFds /\ e.fd \in Fds
    BY <1>1, ClientHandled, NoneAssumption DEF ClientHup, ClientFds
  <2> DEFINE gone == BridgeOf(e.fd) \cup {e.fd}
             E == DropClient(e.fd)
  <2>2. /\ Consistent(E, OpenNow \ gone, WatchedNow \ gone)
        /\ E.fdt = [fd \in Fds |-> IF fd \in gone THEN None ELSE epoll.fdt[fd]]
    BY <2>1, DropClientEffect
  <2>3. epoll' = E
    BY <1>1, <2>1, <2>2, RemoveAbsent DEF ClientHup
  <2> HIDE DEF E
  <2>4. /\ \A fd \in Fds \ {e.fd} : request_map'[fd] = request_map[fd]
        /\ \A fd \in Fds \ BridgeOf(e.fd) : response'[fd] = response[fd]
    BY <1>1 DEF ClientHup, DropResponse, BridgeOf, Inv, TypeOK
  <2>5. Drops(e.fd, gone)
    BY <1>1, <2>2, <2>3, <2>4 DEF ClientHup, Drops
  <2> QED
    BY <2>1, <2>5
<1>2. CASE BridgeHup(e)
  <2>1. PICK cfd \in Fds : cfd = epoll.handlers[e.fd].connection
    BY <1>2, BridgeHandled DEF BridgeHup
  <2>2. cfd \in ClientFds /\ e.fd \in BridgeOf(cfd) /\ e.fd \in Fds
        /\ BridgeOf(cfd) = {e.fd}
    BY <1>2, <2>1, BridgeHandled, NoneAssumption, BridgeAssumption
       DEF BridgeHup, ClientFds, BridgeOf
  <2> DEFINE gone == BridgeOf(cfd) \cup {cfd}
             E == DropClient(cfd)
  <2>3. /\ Consistent(E, OpenNow \ gone, WatchedNow \ gone)
        /\ E.fdt = [fd \in Fds |-> IF fd \in gone THEN None ELSE epoll.fdt[fd]]
    BY <2>2, DropClientEffect
  <2>4. epoll' = remove_socket(E, e.fd)
    BY <1>2, <2>1 DEF BridgeHup
  <2>5. epoll' = E
    BY <2>2, <2>3, <2>4, RemoveAbsent
  <2> HIDE DEF E
  <2>6. /\ \A fd \in Fds \ {cfd} : request_map'[fd] = request_map[fd]
        /\ \A fd \in Fds \ BridgeOf(cfd) : response'[fd] = response[fd]
    BY <1>2, <2>2 DEF BridgeHup, Inv, TypeOK
  <2>7. Drops(cfd, gone)
    BY <1>2, <2>1, <2>3, <2>5, <2>6 DEF BridgeHup, Drops
  <2> QED
    BY <2>2, <2>7
<1> QED
  BY <1>1, <1>2

(* The far end of a connection closes.                                     *)
LEMMA PeerCloseIsQuiet ==
  ASSUME Inv, NEW p \in Peers, PeerClose(p),
         UNCHANGED <<epoll, serverVars, batch, pc, loopVars>>
  PROVE  Quiet
<1>1. /\ UNCHANGED <<backlog, rx, clientVars, originVars>>
      /\ \A q \in Peers : far'[q] = "absent" <=> far[q] = "absent"
      /\ Clients \subseteq Peers
  BY DEF PeerClose, Inv, TypeOK, NetworkTypeOK, Peers
<1>2. /\ \A fd : Income(fd)' = Income(fd)
      /\ \A fd : Download(con_map[fd].fd)' = Download(con_map[fd].fd)
  BY <1>1 DEF Income, Download
<1> QED
  BY <1>1, <1>2 DEF Quiet, ClientsQuiet

-----------------------------------------------------------------------------
(* A client is accepted.                                                   *)

(* What Accept does: the client that queued first gets a free descriptor.  *)
LEMMA AcceptEffect ==
  ASSUME Inv, NEW e \in batch, Accept(e)
  PROVE  \E fd \in Fds : \E c \in Clients :
           /\ c = backlog[1] /\ 1 \in 1..Len(backlog)
           /\ epoll.fdt[fd] = None /\ fd \notin ClientFds \cup BridgeFds
           /\ epoll'.fdt = [epoll.fdt EXCEPT ![fd] = c]
           /\ clients' = [clients EXCEPT ![fd] = c]
           /\ request_map' = [request_map EXCEPT ![fd] = <<>>]
           /\ \A i \in 1..Len(backlog') :
                i + 1 \in 1..Len(backlog) /\ backlog'[i] = backlog[i + 1]
<1>1. PICK fd \in FreeFd(epoll) :
        /\ epoll' = add_socket(open_fd(epoll, fd, Head(backlog)), fd,
                               ClientHandler(fd, Head(backlog)))
        /\ clients' = [clients EXCEPT ![fd] = Head(backlog)]
        /\ request_map' = [request_map EXCEPT ![fd] = <<>>]
  BY DEF Accept
<1>2. backlog # <<>> /\ backlog' = Tail(backlog) /\ backlog \in Seq(Clients)
  BY DEF Accept, Inv, TypeOK, NetworkTypeOK
<1>3. /\ Head(backlog) \in Clients /\ Head(backlog) = backlog[1]
      /\ Len(backlog) \in Nat \ {0}
      /\ \A i \in 1..Len(backlog') :
           i + 1 \in 1..Len(backlog) /\ backlog'[i] = backlog[i + 1]
  BY <1>2, HeadTailProperties, EmptySeq, LenProperties
<1>4. fd \in Fds /\ epoll.fdt[fd] = None
  BY DEF FreeFd
<1>5. fd \notin ClientFds \cup BridgeFds
  BY <1>4, RegistryConsistent DEF Consistent, OpenFds, OpenNow
<1>6. epoll'.fdt = [epoll.fdt EXCEPT ![fd] = Head(backlog)]
  BY <1>1 DEF add_socket, open_fd, Inv, TypeOK, Registry
<1>7. PICK c \in Clients : c = Head(backlog)
  BY <1>3
<1>8. 1 \in 1..Len(backlog) /\ c = backlog[1]
  BY <1>3, <1>7
<1>9. /\ clients' = [clients EXCEPT ![fd] = c]
      /\ request_map' = [request_map EXCEPT ![fd] = <<>>]
      /\ epoll'.fdt = [epoll.fdt EXCEPT ![fd] = c]
  BY <1>1, <1>6, <1>7
<1> QED
  BY <1>3, <1>4, <1>5, <1>8, <1>9

(* The client's connection keeps what it had in the queue, and a           *)
(* request_map entry that is empty; nobody else's is touched.              *)
LEMMA AcceptTraffic ==
  ASSUME Inv, Traffic, NEW e \in batch, Accept(e)
  PROVE  Traffic'
<1>1. PICK fd \in Fds, c \in Clients :
        /\ c = backlog[1] /\ 1 \in 1..Len(backlog)
        /\ epoll.fdt[fd] = None /\ fd \notin ClientFds \cup BridgeFds
        /\ epoll'.fdt = [epoll.fdt EXCEPT ![fd] = c]
        /\ clients' = [clients EXCEPT ![fd] = c]
        /\ request_map' = [request_map EXCEPT ![fd] = <<>>]
        /\ \A i \in 1..Len(backlog') :
             i + 1 \in 1..Len(backlog) /\ backlog'[i] = backlog[i + 1]
  BY AcceptEffect
<1>2. UNCHANGED <<rx, far, turn, asked, got, host, inbox, replied, con_map,
                  response>>
  BY DEF Accept
<1>3. /\ clients \in [Fds -> Clients \cup {None}]
      /\ request_map \in [Fds -> Seq(Piece)]
      /\ epoll.fdt \in [Fds -> Peers \cup {Listener, None}]
      /\ c # None /\ c \in Peers /\ rx[c] \in Seq(Piece)
  BY RegistryFields, NoneAssumption DEF Inv, TypeOK, NetworkTypeOK, Peers
<1>4. /\ far[c] # "absent" /\ ~Connected(c)
      /\ \A i \in 1..Len(backlog') :
           /\ backlog'[i] \in Clients /\ backlog'[i] # c
           /\ far[backlog'[i]] # "absent" /\ ~Connected(backlog'[i])
           /\ \A j \in 1..Len(backlog') : backlog'[i] = backlog'[j] => i = j
  <2>1. ASSUME NEW i \in 1..Len(backlog')
        PROVE  /\ backlog'[i] \in Clients /\ backlog'[i] # c
               /\ far[backlog'[i]] # "absent" /\ ~Connected(backlog'[i])
    <3>1. i + 1 \in 1..Len(backlog) /\ backlog'[i] = backlog[i + 1] /\ i + 1 # 1
      BY <1>1
    <3> PICK d : d = backlog'[i]
      OBVIOUS
    <3>2. d \in Clients /\ far[d] # "absent" /\ ~Connected(d) /\ d # c
      BY <1>1, <3>1, QueueType DEF Traffic, PeersDistinct, Inv
    <3> QED
      BY <3>2
  <2>2. ASSUME NEW i \in 1..Len(backlog'), NEW j \in 1..Len(backlog'),
               backlog'[i] = backlog'[j]
        PROVE  i = j
    <3>1. i + 1 = j + 1
      BY <1>1, <2>2 DEF Traffic, PeersDistinct
    <3> QED
      BY <3>1
  <2> QED
    BY <1>1, <2>1, <2>2 DEF Traffic, PeersDistinct
<1>5. \A p \in Peers : Connected(p)' => p = c \/ Connected(p)
  BY <1>1, <1>3 DEF Connected
<1>6. ASSUME NEW f \in ClientFds
      PROVE  clients'[f] = clients[f] /\ Income(f)' = Income(f) /\ f # fd
  BY <1>1, <1>2, <1>3 DEF Income, ClientFds
<1>7. clients'[fd] = c /\ Income(fd)' = rx[c]
  BY <1>1, <1>2, <1>3, ConcatEmptySeq DEF Income
<1>8. PeersDistinct'
  <2>1. \A f, g \in Fds :
          epoll'.fdt[f] \in Peers /\ epoll'.fdt[f] = epoll'.fdt[g] => f = g
    BY <1>1, <1>3, <1>4 DEF Traffic, PeersDistinct, Connected
  <2>2. \A p \in Peers : Connected(p)' => far'[p] # "absent"
    BY <1>2, <1>4, <1>5 DEF Traffic, PeersDistinct
  <2>3. ASSUME NEW i \in 1..Len(backlog')
        PROVE  far'[backlog'[i]] # "absent" /\ ~Connected(backlog[i])'
    <3>1. PICK d \in Clients : d = backlog'[i]
      BY <1>4, <2>3
    <3>2. ~Connected(d)' /\ far'[d] # "absent"
      BY <1>2, <1>4, <1>5, <3>1 DEF Peers
    <3> QED
      BY <3>1, <3>2 DEF Connected
  <2> QED
    BY <1>4, <2>1, <2>2, <2>3 DEF PeersDistinct
<1>9. IncomeFits'
  <2>1. \A d \in Clients : far'[d] = "absent" => turn'[d] = "idle" /\ rx'[d] = <<>>
    BY <1>2 DEF Traffic, IncomeFits
  <2>2. ASSUME NEW i \in 1..Len(backlog')
        PROVE  Fits(backlog[i], rx[backlog[i]])'
    <3>1. i + 1 \in 1..Len(backlog) /\ backlog'[i] = backlog[i + 1]
      BY <1>1
    <3>2. Fits(backlog[i + 1], rx[backlog[i + 1]])
      BY <3>1 DEF Traffic, IncomeFits
    <3> QED
      BY <1>2, <3>1, <3>2 DEF Fits, Latest
  <2>3. ASSUME NEW f \in ClientFds'
        PROVE  Fits(clients[f], Income(f))'
    <3>1. CASE f = fd
      <4>1. Fits(c, rx[c])
        BY <1>1 DEF Traffic, IncomeFits
      <4> QED
        BY <1>2, <1>7, <3>1, <4>1 DEF Fits, Latest
    <3>2. CASE f # fd
      <4>1. f \in ClientFds
        BY <1>1, <1>3, <2>3, <3>2 DEF ClientFds
      <4>2. Fits(clients[f], Income(f))
        BY <4>1 DEF Traffic, IncomeFits
      <4> QED
        BY <1>2, <1>6, <4>1, <4>2 DEF Fits, Latest
    <3> QED
      BY <3>1, <3>2
  <2> QED
    BY <2>1, <2>2, <2>3 DEF IncomeFits
<1>10. RoutedOnce'
  BY <1>2 DEF Traffic, RoutedOnce
<1>11. InboxesHandedOver'
  <2> SUFFICES ASSUME NEW l \in Links, NEW i \in 1..Len(inbox[l])
               PROVE  HandedOver(inbox[l][i])'
    BY <1>2 DEF InboxesHandedOver
  <2> PICK req \in Request : req = inbox[l][i]
    BY InboxType DEF Inv
  <2>1. HandedOver(req)
    BY DEF Traffic, InboxesHandedOver
  <2>2. req.client # c /\ req.client # None
    BY <1>1, <2>1, NoneAssumption DEF HandedOver, Request
  <2>3. \A j \in 1..Len(backlog') : backlog'[j] # req.client
    BY <1>1, <2>1 DEF HandedOver
  <2>4. ASSUME req.n = Len(asked[req.client]), NEW f \in Fds,
               clients'[f] = req.client
        PROVE  Income(f)' = <<>>
    <3>1. f \in ClientFds
      BY <1>1, <1>3, <2>2, <2>4 DEF ClientFds
    <3> QED
      BY <1>6, <2>1, <2>4, <3>1 DEF HandedOver
  <2> QED
    BY <1>2, <2>1, <2>3, <2>4 DEF HandedOver
<1>12. BridgesAnswer'
  <2>1. \A l \in Links : host'[l] = None => rx'[l] = <<>> /\ replied'[l] = 0
    BY <1>2 DEF Traffic, BridgesAnswer
  <2>2. ASSUME NEW f \in Fds, con_map'[f] # None
        PROVE  BridgeAnswers(clients[f], epoll.fdt[con_map[f].fd],
                             Download(con_map[f].fd))'
    <3>1. /\ f \in ClientFds /\ con_map[f].fd \in BridgeFds
          /\ con_map[f].fd \in Fds
      BY <1>2, <2>2, BridgeEnd DEF Traffic, BridgeFds
    <3>2. epoll'.fdt[con_map[f].fd] = epoll.fdt[con_map[f].fd]
      BY <1>1, <1>3, <3>1
    <3>3. Download(con_map[f].fd)' = Download(con_map[f].fd)
      BY <1>2, <3>2 DEF Download
    <3> QED
      BY <1>2, <1>6, <2>2, <3>1, <3>2, <3>3, BridgeUntouched
  <2> QED
    BY <2>1, <2>2 DEF BridgesAnswer
<1>13. AnswersGiven'
  BY <1>2 DEF Traffic, AnswersGiven, Latest
<1> QED
  BY <1>8, <1>9, <1>10, <1>11, <1>12, <1>13 DEF Traffic

-----------------------------------------------------------------------------
(* What clients and origins do.                                            *)

(* A client that connects has said nothing yet and queues last.            *)
LEMMA ConnectTraffic ==
  ASSUME Inv, Traffic, NEW c \in Clients, ClientConnect(c),
         UNCHANGED <<epoll, serverVars, batch, pc, loopVars>>
  PROVE  Traffic'
<1>1. /\ far[c] = "absent" /\ far' = [far EXCEPT ![c] = "open"]
      /\ backlog' = Append(backlog, c)
      /\ UNCHANGED <<rx, turn, asked, got, host, inbox, replied, epoll,
                     clients, request_map, con_map, response>>
  BY DEF ClientConnect
<1>2. /\ far \in [Peers -> Far] /\ c \in Peers /\ backlog \in Seq(Clients)
      /\ Len(backlog) \in Nat
  BY LenProperties DEF Inv, TypeOK, NetworkTypeOK, Peers
<1>3. /\ Len(backlog') = Len(backlog) + 1 /\ backlog'[Len(backlog) + 1] = c
      /\ \A i \in 1..Len(backlog) : backlog'[i] = backlog[i]
  BY <1>1, <1>2, AppendProperties
<1>4. /\ \A p \in Peers : far[p] # "absent" => far'[p] = far[p] /\ p # c
      /\ \A p \in Peers : p # c => far'[p] = far[p]
      /\ far'[c] # "absent"
  BY <1>1, <1>2
<1>5. \A i \in 1..Len(backlog') :
        \/ i = Len(backlog) + 1 /\ backlog'[i] = c
        \/ i \in 1..Len(backlog) /\ backlog'[i] = backlog[i] /\ backlog[i] # c
           /\ backlog[i] \in Clients /\ far[backlog[i]] # "absent"
  BY <1>1, <1>2, <1>3, QueueType DEF Traffic, PeersDistinct, Inv
<1>6. ~Connected(c) /\ \A p : Connected(p)' <=> Connected(p)
  BY <1>1, <1>2 DEF Traffic, PeersDistinct, Connected
<1>7. PeersDistinct'
  <2>1. \A f, g \in Fds :
          epoll'.fdt[f] \in Peers /\ epoll'.fdt[f] = epoll'.fdt[g] => f = g
    BY <1>1 DEF Traffic, PeersDistinct
  <2>2. \A p \in Peers : Connected(p)' => far'[p] # "absent"
    BY <1>4, <1>6 DEF Traffic, PeersDistinct
  <2>3. ASSUME NEW i \in 1..Len(backlog')
        PROVE  far'[backlog'[i]] # "absent" /\ ~Connected(backlog[i])'
    <3>1. PICK d \in Clients : d = backlog'[i]
      BY <1>5, <2>3
    <3>2. ~Connected(d)' /\ far'[d] # "absent"
      <4>1. CASE d = c
        BY <1>4, <1>6, <4>1
      <4>2. CASE d # c
        <5>1. i \in 1..Len(backlog) /\ backlog[i] = d /\ far[d] # "absent"
          BY <1>5, <2>3, <3>1, <4>2
        <5>2. ~Connected(d)
          BY <5>1 DEF Traffic, PeersDistinct
        <5> QED
          BY <1>4, <1>6, <5>1, <5>2 DEF Peers
      <4> QED
        BY <4>1, <4>2
    <3> QED
      BY <3>1, <3>2 DEF Connected
  <2>4. \A i, j \in 1..Len(backlog') : backlog'[i] = backlog'[j] => i = j
    BY <1>5 DEF Traffic, PeersDistinct
  <2> QED
    BY <2>1, <2>2, <2>3, <2>4 DEF PeersDistinct
<1>8. \A d, r : Fits(d, r)' <=> Fits(d, r)
  BY <1>1 DEF Fits, Latest
<1>9. IncomeFits'
  <2>1. \A d \in Clients : far'[d] = "absent" => turn'[d] = "idle" /\ rx'[d] = <<>>
    BY <1>1, <1>4 DEF Traffic, IncomeFits, Peers
  <2>2. ASSUME NEW i \in 1..Len(backlog')
        PROVE  Fits(backlog[i], rx[backlog[i]])'
    <3>1. PICK d \in Clients : d = backlog'[i]
      BY <1>5, <2>2
    <3>2. Fits(d, rx[d])
      <4>1. CASE d = c
        BY <1>1, <4>1 DEF Traffic, IncomeFits, Fits
      <4>2. CASE d # c
        BY <1>5, <2>2, <3>1, <4>2 DEF Traffic, IncomeFits
      <4> QED
        BY <4>1, <4>2
    <3> QED
      BY <1>1, <3>1, <3>2 DEF Fits, Latest
  <2>3. ASSUME NEW fd \in ClientFds'
        PROVE  Fits(clients[fd], Income(fd))'
    <3>1. fd \in ClientFds /\ Income(fd)' = Income(fd)
      BY <1>1, <2>3 DEF ClientFds, Income
    <3>2. Fits(clients[fd], Income(fd))
      BY <3>1 DEF Traffic, IncomeFits
    <3> QED
      BY <1>1, <3>1, <3>2 DEF Fits, Latest
  <2> QED
    BY <2>1, <2>2, <2>3 DEF IncomeFits
<1>10. RoutedOnce'
  BY <1>1 DEF Traffic, RoutedOnce
<1>11. InboxesHandedOver'
  <2> SUFFICES ASSUME NEW l \in Links, NEW i \in 1..Len(inbox[l])
               PROVE  HandedOver(inbox[l][i])'
    BY <1>1 DEF InboxesHandedOver
  <2> PICK req \in Request : req = inbox[l][i]
    BY InboxType DEF Inv
  <2>1. HandedOver(req) /\ req.client \in Peers
    BY DEF Traffic, InboxesHandedOver, Request, Peers
  <2>2. far'[req.client] # "absent" /\ req.client # c
    BY <1>1, <1>4, <2>1 DEF HandedOver
  <2>3. \A j \in 1..Len(backlog') : backlog'[j] # req.client
    BY <1>5, <2>1, <2>2 DEF HandedOver
  <2>4. \A fd : Income(fd)' = Income(fd)
    BY <1>1 DEF Income
  <2> QED
    BY <1>1, <2>1, <2>2, <2>3, <2>4 DEF HandedOver
<1>12. BridgesAnswer'
  <2>1. \A l \in Links : host'[l] = None => rx'[l] = <<>> /\ replied'[l] = 0
    BY <1>1 DEF Traffic, BridgesAnswer
  <2>2. \A fd : Download(con_map[fd].fd)' = Download(con_map[fd].fd)
    BY <1>1 DEF Download
  <2> QED
    BY <1>1, <2>1, <2>2, BridgeUntouched DEF BridgesAnswer
<1>13. AnswersGiven'
  BY <1>1 DEF Traffic, AnswersGiven, Latest
<1> QED
  BY <1>7, <1>9, <1>10, <1>11, <1>12, <1>13 DEF Traffic

(* What a client sends joins what the proxy has of its request.            *)
LEMMA ClientPieceArrives ==
  ASSUME Inv, PeersDistinct, NEW c \in Clients, NEW req \in Request,
         NEW part \in {"head", "end"}, Arrive(c, req, part),
         UNCHANGED <<epoll, clients, request_map, con_map, response>>
  PROVE  LET piece == [req |-> req, part |-> part]
         IN  /\ \A p \in Peers : p # c => rx'[p] = rx[p]
             /\ rx'[c] = Append(rx[c], piece)
             /\ \A fd \in ClientFds : clients[fd] # c => Income(fd)' = Income(fd)
             /\ \A fd \in ClientFds :
                  clients[fd] = c => Income(fd)' = Append(Income(fd), piece)
             /\ \A fd \in Fds : con_map[fd] # None =>
                  Download(con_map[fd].fd)' = Download(con_map[fd].fd)
<1> DEFINE piece == [req |-> req, part |-> part]
<1>1. /\ c \in Peers /\ piece \in Piece /\ rx \in [Peers -> Seq(Piece)]
      /\ request_map \in [Fds -> Seq(Piece)]
  BY DEF Inv, TypeOK, NetworkTypeOK, Peers, Piece
<1>2. rx' = [rx EXCEPT ![c] = Append(@, piece)]
  BY DEF Arrive
<1> HIDE DEF piece
<1>3. /\ \A p \in Peers : p # c => rx'[p] = rx[p]
      /\ rx'[c] = Append(rx[c], piece)
  BY <1>1, <1>2
<1>4. ASSUME NEW fd \in ClientFds, clients[fd] # c
      PROVE  Income(fd)' = Income(fd)
  BY <1>3, <1>4, ClientEnd DEF Income
<1>5. ASSUME NEW fd \in ClientFds, clients[fd] = c
      PROVE  Income(fd)' = Append(Income(fd), piece)
  <2>1. PICK s \in Seq(Piece), t \in Seq(Piece), x \in Piece :
          s = request_map[fd] /\ t = rx[c] /\ x = piece
    BY <1>1, ClientEnd
  <2>2. s \o Append(t, x) = Append(s \o t, x)
    BY ConcatAppend
  <2> QED
    BY <1>3, <1>5, <2>1, <2>2 DEF Income
<1>6. ASSUME NEW fd \in Fds, con_map[fd] # None
      PROVE  Download(con_map[fd].fd)' = Download(con_map[fd].fd)
  <2>1. rx'[LinkOf(fd)] = rx[LinkOf(fd)]
    BY <1>3, <1>6, BridgeEnd
  <2> QED
    BY <2>1 DEF Download, LinkOf
<1> QED
  BY <1>3, <1>4, <1>5, <1>6 DEF piece

(* A bridge has nothing for a client that does not wait, so what the       *)
(* client does then is nothing to the bridge.                              *)
LEMMA NothingAwaited ==
  ASSUME Inv, Traffic, NEW fd \in Fds, con_map[fd] # None,
         turn[clients[fd]] # "waiting",
         UNCHANGED <<epoll, clients, con_map, inbox, replied>>,
         Download(con_map[fd].fd)' = Download(con_map[fd].fd)
  PROVE  BridgeAnswers(clients[fd], epoll.fdt[con_map[fd].fd],
                       Download(con_map[fd].fd))'
<1>1. LinkOf(fd) \in Links
  BY BridgeEnd DEF Traffic
<1>2. PICK l \in Links : l = LinkOf(fd)
  BY <1>1
<1>3. BridgeAnswers(clients[fd], l, Download(con_map[fd].fd))
  BY <1>2 DEF Traffic, BridgesAnswer, LinkOf
<1>4. /\ inbox[l] # <<>> /\ replied[l] <= Len(inbox[l])
      /\ ~(replied[l] < Len(inbox[l]))
      /\ \A i \in 1..Len(Download(con_map[fd].fd)) : FALSE
  BY <1>3 DEF BridgeAnswers
<1>5. l = epoll'.fdt[con_map'[fd].fd] /\ inbox'[l] = inbox[l]
      /\ replied'[l] = replied[l]
  BY <1>2 DEF LinkOf
<1>6. \A i \in 1..Len(Download(con_map[fd].fd)') : FALSE
  BY <1>4
<1> QED
  BY <1>4, <1>5, <1>6 DEF BridgeAnswers

(* A client begins a request: nothing of an earlier one is left unread,    *)
(* and every server has seen only earlier ones.                            *)
LEMMA AskTraffic ==
  ASSUME Inv, Traffic, NEW c \in Clients, NEW h \in Hosts, ClientAsk(c, h),
         UNCHANGED <<epoll, serverVars, batch, pc, loopVars>>
  PROVE  Traffic'
<1> DEFINE req == Latest(c, asked'[c])
           piece == [req |-> req, part |-> "head"]
<1>1. /\ far[c] = "open" /\ turn[c] = "idle"
      /\ asked' = [asked EXCEPT ![c] = Append(asked[c], h)]
      /\ turn' = [turn EXCEPT ![c] = "sending"]
      /\ Arrive(c, req, "head")
      /\ UNCHANGED <<backlog, far, got, host, inbox, replied, epoll, clients,
                     request_map, con_map, response>>
  BY DEF ClientAsk
<1>2. /\ asked \in [Clients -> Seq(Hosts)] /\ c \in Peers
      /\ turn \in [Clients -> {"idle", "sending", "waiting"}]
      /\ Len(asked[c]) \in Nat /\ asked[c] \in Seq(Hosts)
  BY LenProperties DEF Inv, TypeOK, NetworkTypeOK, Peers
<1>3. /\ asked'[c] \in Seq(Hosts) /\ asked'[c] # <<>>
      /\ Len(asked'[c]) = Len(asked[c]) + 1
      /\ \A d \in Clients : d # c => asked'[d] = asked[d] /\ turn'[d] = turn[d]
      /\ turn'[c] = "sending"
  BY <1>1, <1>2, AppendProperties
<1>4. req \in Request /\ req.n = Len(asked[c]) + 1 /\ req.client = c
  BY <1>3, LatestType DEF Latest
<1>5. /\ \A p \in Peers : p # c => rx'[p] = rx[p]
      /\ rx'[c] = Append(rx[c], piece)
      /\ \A fd \in ClientFds : clients[fd] # c => Income(fd)' = Income(fd)
      /\ \A fd \in ClientFds :
           clients[fd] = c => Income(fd)' = Append(Income(fd), piece)
      /\ \A fd \in Fds : con_map[fd] # None =>
           Download(con_map[fd].fd)' = Download(con_map[fd].fd)
  BY <1>1, <1>4, ClientPieceArrives DEF Traffic
<1> HIDE DEF piece
<1>6. \A r : Fits(c, r) => Append(r, piece) = <<piece>>
  BY <1>1 DEF Fits
<1>7. PeersDistinct'
  BY <1>1, QueueType, PeersStayDistinct DEF Inv, Traffic
<1>8. IncomeFits'
  <2>1. \A d \in Clients : far'[d] = "absent" => turn'[d] = "idle" /\ rx'[d] = <<>>
    BY <1>1, <1>3, <1>5 DEF Traffic, IncomeFits, Peers
  <2>2. ASSUME NEW i \in 1..Len(backlog)
        PROVE  Fits(backlog[i], rx[backlog[i]])'
    <3>1. PICK d \in Clients : d = backlog[i] /\ d \in Peers
      BY QueueType DEF Inv
    <3>2. Fits(d, rx[d])
      BY <3>1 DEF Traffic, IncomeFits
    <3>3. CASE d = c
      <4>1. rx'[d] = <<piece>>
        BY <1>5, <1>6, <3>2, <3>3
      <4> QED
        BY <1>1, <1>3, <3>1, <3>3, <4>1 DEF Fits, piece, Latest
    <3>4. CASE d # c
      BY <1>1, <1>3, <1>5, <3>1, <3>2, <3>4 DEF Fits, Latest
    <3> QED
      BY <3>3, <3>4
  <2>3. ASSUME NEW fd \in ClientFds'
        PROVE  Fits(clients[fd], Income(fd))'
    <3>1. fd \in ClientFds
      BY <1>1, <2>3 DEF ClientFds
    <3>2. PICK d \in Clients : d = clients[fd]
      BY <3>1, ClientEnd DEF Traffic
    <3>3. Fits(d, Income(fd))
      BY <3>1, <3>2 DEF Traffic, IncomeFits
    <3>4. CASE d = c
      <4>1. Income(fd)' = <<piece>>
        BY <1>5, <1>6, <3>1, <3>2, <3>3, <3>4
      <4> QED
        BY <1>1, <1>3, <3>2, <3>4, <4>1 DEF Fits, piece, Latest
    <3>5. CASE d # c
      <4>1. Income(fd)' = Income(fd)
        BY <1>5, <3>1, <3>2, <3>5
      <4> QED
        BY <1>1, <1>3, <3>2, <3>3, <3>5, <4>1 DEF Fits, Latest
    <3> QED
      BY <3>4, <3>5
  <2> QED
    BY <1>1, <2>1, <2>2, <2>3 DEF IncomeFits
<1>9. RoutedOnce'
  BY <1>1 DEF Traffic, RoutedOnce
<1>10. InboxesHandedOver'
  <2> SUFFICES ASSUME NEW l \in Links, NEW i \in 1..Len(inbox[l])
               PROVE  HandedOver(inbox[l][i])'
    BY <1>1 DEF InboxesHandedOver
  <2> PICK r \in Request : r = inbox[l][i]
    BY InboxType DEF Inv
  <2>1. HandedOver(r) /\ r.client \in Clients /\ r.n \in Nat /\ r.client # None
    BY NoneAssumption DEF Traffic, InboxesHandedOver, Request
  <2>2. CASE r.client = c
    BY <1>1, <1>2, <1>3, <2>1, <2>2 DEF HandedOver
  <2>3. CASE r.client # c
    <3>1. asked'[r.client] = asked[r.client] /\ turn'[r.client] = turn[r.client]
      BY <1>3, <2>1, <2>3
    <3>2. \A fd \in Fds : clients[fd] = r.client => Income(fd)' = Income(fd)
      BY <1>5, <2>1, <2>3 DEF ClientFds
    <3> QED
      BY <1>1, <2>1, <3>1, <3>2 DEF HandedOver
  <2> QED
    BY <2>2, <2>3
<1>11. BridgesAnswer'
  <2>1. \A l \in Links : host'[l] = None => rx'[l] = <<>> /\ replied'[l] = 0
    BY <1>1, <1>5, PeersAssumption DEF Traffic, BridgesAnswer, Peers
  <2>2. ASSUME NEW fd \in Fds, con_map'[fd] # None
        PROVE  BridgeAnswers(clients[fd], epoll.fdt[con_map[fd].fd],
                             Download(con_map[fd].fd))'
    <3>1. /\ con_map[fd] # None /\ clients[fd] \in Clients
          /\ Download(con_map[fd].fd)' = Download(con_map[fd].fd)
      BY <1>1, <1>5, <2>2, BridgeEnd, ClientEnd DEF Traffic
    <3>2. CASE clients[fd] = c
      BY <1>1, <3>1, <3>2, NothingAwaited
    <3>3. CASE clients[fd] # c
      BY <1>1, <1>3, <3>1, <3>3, BridgeUntouched
    <3> QED
      BY <3>2, <3>3
  <2> QED
    BY <2>1, <2>2 DEF BridgesAnswer
<1>12. AnswersGiven'
  <2> SUFFICES ASSUME NEW d \in Clients
               PROVE  /\ turn'[d] # "idle" <=>
                           /\ asked'[d] # <<>>
                           /\ \A i \in 1..Len(got[d]) :
                                got[d][i] # [req |-> Latest(d, asked'[d]), part |-> "end"]
                      /\ \A i \in 1..Len(got[d]) : got[d][i].req.n <= Len(asked'[d])
    BY <1>1 DEF AnswersGiven, Latest
  <2>1. CASE d # c
    BY <1>3, <2>1 DEF Traffic, AnswersGiven
  <2>2. CASE d = c
    <3>1. ASSUME NEW i \in 1..Len(got[c])
          PROVE  got[c][i].req.n <= Len(asked[c]) /\ got[c][i].req.n \in Nat
      <4>1. got[c] \in Seq(Piece)
        BY DEF Inv, TypeOK, NetworkTypeOK
      <4>2. got[c][i] \in Piece
        BY <4>1, ElementOfSeq
      <4> QED
        BY <4>2 DEF Traffic, AnswersGiven, Piece, Request
    <3>2. \A i \in 1..Len(got[c]) :
            /\ got[c][i].req.n <= Len(asked'[c])
            /\ got[c][i].req.n # Latest(c, asked'[c]).n
      BY <1>2, <1>3, <1>4, <3>1
    <3> QED
      BY <1>3, <2>2, <3>2
  <2> QED
    BY <2>1, <2>2
<1> QED
  BY <1>7, <1>8, <1>9, <1>10, <1>11, <1>12 DEF Traffic


(* A client sends the rest of its request: what was unread of it becomes   *)
(* all of it, and no server has it yet.                                    *)
LEMMA FinishTraffic ==
  ASSUME Inv, Traffic, NEW c \in Clients, ClientFinish(c),
         UNCHANGED <<epoll, serverVars, batch, pc, loopVars>>
  PROVE  Traffic'
<1> DEFINE req == Latest(c, asked[c])
           head == [req |-> req, part |-> "head"]
           end == [req |-> req, part |-> "end"]
<1>1. /\ far[c] = "open" /\ turn[c] = "sending"
      /\ turn' = [turn EXCEPT ![c] = "waiting"]
      /\ Arrive(c, req, "end")
      /\ UNCHANGED <<backlog, far, asked, got, host, inbox, replied, epoll,
                     clients, request_map, con_map, response>>
  BY DEF ClientFinish
<1>2. /\ asked[c] \in Seq(Hosts) /\ asked[c] # <<>> /\ c \in Peers
      /\ turn \in [Clients -> {"idle", "sending", "waiting"}]
  BY <1>1 DEF Inv, TypeOK, NetworkTypeOK, Peers
<1>3. turn'[c] = "waiting" /\ \A d \in Clients : d # c => turn'[d] = turn[d]
  BY <1>1, <1>2
<1>4. req \in Request
  BY <1>2, LatestType
<1>5. /\ \A p \in Peers : p # c => rx'[p] = rx[p]
      /\ rx'[c] = Append(rx[c], end)
      /\ \A fd \in ClientFds : clients[fd] # c => Income(fd)' = Income(fd)
      /\ \A fd \in ClientFds :
           clients[fd] = c => Income(fd)' = Append(Income(fd), end)
      /\ \A fd \in Fds : con_map[fd] # None =>
           Download(con_map[fd].fd)' = Download(con_map[fd].fd)
  BY <1>1, <1>4, ClientPieceArrives DEF Traffic
<1>6. \A r : Fits(c, r) => r = <<head>>
  BY <1>1 DEF Fits
<1> HIDE DEF end, head
<1>0. Append(<<head>>, end) = <<head, end>>
  BY AppendToOne
<1>7. PeersDistinct'
  BY <1>1, QueueType, PeersStayDistinct DEF Inv, Traffic
<1>8. IncomeFits'
  <2>1. \A d \in Clients : far'[d] = "absent" => turn'[d] = "idle" /\ rx'[d] = <<>>
    BY <1>1, <1>3, <1>5 DEF Traffic, IncomeFits, Peers
  <2>2. ASSUME NEW i \in 1..Len(backlog)
        PROVE  Fits(backlog[i], rx[backlog[i]])'
    <3>1. PICK d \in Clients : d = backlog[i] /\ d \in Peers
      BY QueueType DEF Inv
    <3>2. Fits(d, rx[d])
      BY <3>1 DEF Traffic, IncomeFits
    <3>3. CASE d = c
      <4>1. rx'[d] = <<head, end>>
        BY <1>0, <1>5, <1>6, <3>2, <3>3
      <4> QED
        BY <1>1, <1>3, <3>1, <3>3, <4>1 DEF Fits, head, end, Latest
    <3>4. CASE d # c
      BY <1>1, <1>3, <1>5, <3>1, <3>2, <3>4 DEF Fits, Latest
    <3> QED
      BY <3>3, <3>4
  <2>3. ASSUME NEW fd \in ClientFds'
        PROVE  Fits(clients[fd], Income(fd))'
    <3>1. fd \in ClientFds
      BY <1>1, <2>3 DEF ClientFds
    <3>2. PICK d \in Clients : d = clients[fd]
      BY <3>1, ClientEnd DEF Traffic
    <3>3. Fits(d, Income(fd))
      BY <3>1, <3>2 DEF Traffic, IncomeFits
    <3>4. CASE d = c
      <4>1. Income(fd)' = <<head, end>>
        BY <1>0, <1>5, <1>6, <3>1, <3>2, <3>3, <3>4
      <4> QED
        BY <1>1, <1>3, <3>2, <3>4, <4>1 DEF Fits, head, end, Latest
    <3>5. CASE d # c
      <4>1. Income(fd)' = Income(fd)
        BY <1>5, <3>1, <3>2, <3>5
      <4> QED
        BY <1>1, <1>3, <3>2, <3>3, <3>5, <4>1 DEF Fits, Latest
    <3> QED
      BY <3>4, <3>5
  <2> QED
    BY <1>1, <2>1, <2>2, <2>3 DEF IncomeFits
<1>9. RoutedOnce'
  BY <1>1 DEF Traffic, RoutedOnce
<1>10. InboxesHandedOver'
  <2> SUFFICES ASSUME NEW l \in Links, NEW i \in 1..Len(inbox[l])
               PROVE  HandedOver(inbox[l][i])'
    BY <1>1 DEF InboxesHandedOver
  <2> PICK r \in Request : r = inbox[l][i]
    BY InboxType DEF Inv
  <2>1. HandedOver(r) /\ r.client \in Clients /\ r.client # None
    BY NoneAssumption DEF Traffic, InboxesHandedOver, Request
  <2>2. CASE r.client = c
    BY <1>1, <1>3, <2>1, <2>2 DEF HandedOver
  <2>3. CASE r.client # c
    <3>1. turn'[r.client] = turn[r.client]
      BY <1>3, <2>1, <2>3
    <3>2. \A fd \in Fds : clients[fd] = r.client => Income(fd)' = Income(fd)
      BY <1>5, <2>1, <2>3 DEF ClientFds
    <3> QED
      BY <1>1, <2>1, <3>1, <3>2 DEF HandedOver
  <2> QED
    BY <2>2, <2>3
<1>11. BridgesAnswer'
  <2>1. \A l \in Links : host'[l] = None => rx'[l] = <<>> /\ replied'[l] = 0
    BY <1>1, <1>5, PeersAssumption DEF Traffic, BridgesAnswer, Peers
  <2>2. ASSUME NEW fd \in Fds, con_map'[fd] # None
        PROVE  BridgeAnswers(clients[fd], epoll.fdt[con_map[fd].fd],
                             Download(con_map[fd].fd))'
    <3>1. /\ con_map[fd] # None /\ clients[fd] \in Clients
          /\ Download(con_map[fd].fd)' = Download(con_map[fd].fd)
      BY <1>1, <1>5, <2>2, BridgeEnd, ClientEnd DEF Traffic
    <3>2. CASE clients[fd] = c
      BY <1>1, <3>1, <3>2, NothingAwaited
    <3>3. CASE clients[fd] # c
      BY <1>1, <1>3, <3>1, <3>3, BridgeUntouched
    <3> QED
      BY <3>2, <3>3
  <2> QED
    BY <2>1, <2>2 DEF BridgesAnswer
<1>12. AnswersGiven'
  <2>1. \A d \in Clients : turn'[d] # "idle" <=> turn[d] # "idle"
    BY <1>1, <1>3
  <2> QED
    BY <1>1, <2>1 DEF Traffic, AnswersGiven, Latest
<1> QED
  BY <1>7, <1>8, <1>9, <1>10, <1>11, <1>12 DEF Traffic

(* What an origin sends joins what its bridge has of the response.         *)
LEMMA OriginPieceArrives ==
  ASSUME Inv, PeersDistinct, NEW l \in Links, NEW req \in Request,
         NEW part \in {"interim", "part", "end"}, Arrive(l, req, part),
         UNCHANGED <<epoll, clients, request_map, con_map, response>>
  PROVE  LET piece == [req |-> req, part |-> part]
         IN  /\ \A p \in Peers : p # l => rx'[p] = rx[p]
             /\ \A fd \in ClientFds : Income(fd)' = Income(fd)
             /\ \A fd \in Fds : con_map[fd] # None =>
                  Download(con_map[fd].fd)' =
                    IF LinkOf(fd) = l THEN Append(Download(con_map[fd].fd), piece)
                    ELSE Download(con_map[fd].fd)
<1> DEFINE piece == [req |-> req, part |-> part]
<1>1. /\ l \in Peers /\ piece \in Piece /\ rx \in [Peers -> Seq(Piece)]
      /\ response \in [Fds -> Seq(Piece)]
  BY DEF Inv, TypeOK, NetworkTypeOK, Peers, Piece
<1>2. rx' = [rx EXCEPT ![l] = Append(@, piece)]
  BY DEF Arrive
<1> HIDE DEF piece
<1>3. /\ \A p \in Peers : p # l => rx'[p] = rx[p]
      /\ rx'[l] = Append(rx[l], piece)
  BY <1>1, <1>2
<1>4. ASSUME NEW fd \in ClientFds
      PROVE  Income(fd)' = Income(fd)
  BY <1>3, <1>4, ClientEnd DEF Income
<1>5. ASSUME NEW fd \in Fds, con_map[fd] # None
      PROVE  Download(con_map[fd].fd)' =
               IF LinkOf(fd) = l THEN Append(Download(con_map[fd].fd), piece)
               ELSE Download(con_map[fd].fd)
  <2>1. CASE LinkOf(fd) # l
    <3>1. rx'[LinkOf(fd)] = rx[LinkOf(fd)]
      BY <1>3, <1>5, <2>1, BridgeEnd
    <3> QED
      BY <2>1, <3>1 DEF Download, LinkOf
  <2>2. CASE LinkOf(fd) = l
    <3>1. PICK s \in Seq(Piece), t \in Seq(Piece), x \in Piece :
            s = response[con_map[fd].fd] /\ t = rx[l] /\ x = piece
      BY <1>1, <1>5, BridgeEnd
    <3>2. s \o Append(t, x) = Append(s \o t, x)
      BY ConcatAppend
    <3> QED
      BY <1>3, <2>2, <3>1, <3>2 DEF Download, LinkOf
  <2> QED
    BY <2>1, <2>2
<1> QED
  BY <1>3, <1>4, <1>5 DEF piece


(* An origin answers the one request that is left to answer, which is the  *)
(* one that the bridge's client waits for.                                 *)
LEMMA OriginSendsTraffic ==
  ASSUME Inv, Traffic, NEW l \in Links, Attached(l),
         NEW part \in {"interim", "part", "end"}, OriginSends(l, part),
         UNCHANGED <<epoll, serverVars, batch, pc, loopVars>>
  PROVE  Traffic'
<1>1. /\ replied[l] < Len(inbox[l])
      /\ Arrive(l, inbox[l][replied[l] + 1], part)
      /\ replied' = [replied EXCEPT ![l] = IF part = "end" THEN @ + 1 ELSE @]
      /\ UNCHANGED <<backlog, far, turn, asked, got, host, inbox, epoll,
                     clients, request_map, con_map, response>>
  BY DEF OriginSends
<1>2. /\ l \in Peers /\ l \notin Clients /\ replied \in [Links -> Nat]
      /\ inbox[l] \in Seq(Request) /\ Len(inbox[l]) \in Nat
  BY PeersAssumption, LenProperties DEF Inv, TypeOK, NetworkTypeOK, Peers
<1>3. PICK req \in Request : req = inbox[l][replied[l] + 1]
  <2>1. replied[l] + 1 \in 1..Len(inbox[l])
    BY <1>1, <1>2
  <2> QED
    BY <1>2, <2>1, ElementOfSeq
<1> DEFINE piece == [req |-> req, part |-> part]
<1>4. /\ \A p \in Peers : p # l => rx'[p] = rx[p]
      /\ \A fd \in ClientFds : Income(fd)' = Income(fd)
      /\ \A fd \in Fds : con_map[fd] # None =>
           Download(con_map[fd].fd)' =
             IF LinkOf(fd) = l THEN Append(Download(con_map[fd].fd), piece)
             ELSE Download(con_map[fd].fd)
  <2>1. Arrive(l, req, part)
    BY <1>1, <1>3
  <2> QED
    BY <1>1, <2>1, OriginPieceArrives DEF Traffic
<1>5. /\ \A m \in Links : m # l => replied'[m] = replied[m]
      /\ replied'[l] = IF part = "end" THEN replied[l] + 1 ELSE replied[l]
  BY <1>1, <1>2
<1>6. host[l] # None
  <2>1. PICK f \in Fds : epoll.fdt[f] = l
    BY <1>2, QueueType DEF Attached, Connected, Inv
  <2>2. PICK fd \in Fds : con_map[fd] # None /\ con_map[fd].fd = f
    BY <2>1, BridgeFdOf
  <2> QED
    BY <2>1, <2>2, BridgeEnd DEF LinkOf, Traffic
<1>7. ClientsQuiet
  <2>1. \A c \in Clients : rx'[c] = rx[c]
    BY <1>2, <1>4 DEF Peers
  <2> QED
    BY <1>1, <1>4, <2>1 DEF ClientsQuiet, ClientFds
<1>8. PeersDistinct'
  BY <1>1, QueueType, PeersStayDistinct DEF Inv, Traffic
<1>9. IncomeFits'
  BY <1>1, <1>7, IncomeStaysFit DEF Traffic
<1>10. RoutedOnce'
  BY <1>1 DEF Traffic, RoutedOnce
<1>11. InboxesHandedOver'
  <2> SUFFICES ASSUME NEW m \in Links, NEW i \in 1..Len(inbox[m])
               PROVE  HandedOver(inbox[m][i])'
    BY <1>1 DEF InboxesHandedOver
  <2> PICK r \in Request : r = inbox[m][i]
    BY InboxType DEF Inv
  <2>1. HandedOver(r)
    BY DEF Traffic, InboxesHandedOver
  <2>2. HandedOver(r)'
    BY <1>1, <1>7, <2>1, StaysHandedOver
  <2> QED
    BY <1>1, <2>2 DEF HandedOver
<1>12. BridgesAnswer'
  <2>1. \A m \in Links : host'[m] = None => rx'[m] = <<>> /\ replied'[m] = 0
    BY <1>1, <1>4, <1>5, <1>6 DEF Traffic, BridgesAnswer, Peers
  <2>2. ASSUME NEW fd \in Fds, con_map'[fd] # None
        PROVE  BridgeAnswers(clients[fd], epoll.fdt[con_map[fd].fd],
                             Download(con_map[fd].fd))'
    <3>1. con_map[fd] # None /\ LinkOf(fd) \in Links
      BY <1>1, <2>2, BridgeEnd DEF Traffic
    <3>2. CASE LinkOf(fd) # l
      BY <1>1, <1>4, <1>5, <3>1, <3>2, BridgeUntouched
    <3>3. CASE LinkOf(fd) = l
      <4>1. PICK c, d : c = clients[fd] /\ d = Download(con_map[fd].fd)
        OBVIOUS
      <4>2. BridgeAnswers(c, l, d)
        BY <3>1, <3>3, <4>1 DEF Traffic, BridgesAnswer, LinkOf
      <4>3. d \in Seq(Piece)
        BY <1>1, <3>1, <3>3, <4>1, DownloadType, BridgeEnd DEF Traffic, LinkOf, Inv
      <4>4. /\ turn[c] = "waiting" /\ replied[l] + 1 = Len(inbox[l])
            /\ req = Latest(c, asked[c]) /\ inbox[l][Len(inbox[l])] = req
            /\ \A i \in 1..Len(d) : d[i].req = req /\ d[i].part # "end"
        BY <1>1, <1>2, <1>3, <4>2 DEF BridgeAnswers
      <4>5. piece \in Piece
        BY DEF Piece
      <4>6. \A i \in 1..Len(Append(d, piece)) :
              Append(d, piece)[i] = IF i \in 1..Len(d) THEN d[i] ELSE piece
        BY <4>3, <4>5, AppendProperties, LenProperties
      <4>7. BridgeAnswers(c, l, Append(d, piece))'
        <5>1. /\ turn'[c] = "waiting" /\ req = Latest(c, asked'[c])
              /\ inbox'[l] = inbox[l] /\ inbox[l] # <<>>
              /\ inbox'[l][Len(inbox'[l])] = req
          BY <1>1, <1>2, <4>2, <4>4 DEF BridgeAnswers, Latest
        <5>2. /\ replied'[l] \in Nat /\ replied'[l] <= Len(inbox[l])
              /\ replied'[l] < Len(inbox[l]) => replied'[l] + 1 = Len(inbox[l])
              /\ part = "end" => replied'[l] = Len(inbox[l])
          BY <1>2, <1>5, <4>4
        <5>3. \A i \in 1..Len(Append(d, piece)) :
                /\ Append(d, piece)[i].req = req
                /\ Append(d, piece)[i].part = "end" => part = "end"
          BY <4>4, <4>6
        <5> HIDE DEF piece
        <5>4. PICK after : after = Append(d, piece)
          OBVIOUS
        <5>5. BridgeAnswers(c, l, after)'
          BY <5>1, <5>2, <5>3, <5>4 DEF BridgeAnswers, Latest
        <5> QED
          BY <5>4, <5>5 DEF BridgeAnswers
      <4>8. /\ clients'[fd] = c /\ epoll'.fdt[con_map'[fd].fd] = l
            /\ Download(con_map[fd].fd)' = Append(d, piece)
        BY <1>1, <1>4, <3>1, <3>3, <4>1 DEF LinkOf
      <4> QED
        BY <4>7, <4>8 DEF BridgeAnswers
    <3> QED
      BY <3>2, <3>3
  <2> QED
    BY <2>1, <2>2 DEF BridgesAnswer
<1>13. AnswersGiven'
  BY <1>1 DEF Traffic, AnswersGiven, Latest
<1> QED
  BY <1>8, <1>9, <1>10, <1>11, <1>12, <1>13 DEF Traffic


-----------------------------------------------------------------------------
(* Requests and responses change hands.                                    *)

(* A complete request has not reached any server, and the bridge of its    *)
(* client, if there is one, has nothing to do.                             *)
LEMMA NotServedYet ==
  ASSUME Inv, Traffic, NEW cfd \in ClientFds, IsComplete(Income(cfd)),
         NEW c, c = clients[cfd], NEW want, want = Latest(c, asked[c])
  PROVE  /\ c \in Clients /\ turn[c] = "waiting"
         /\ want \in Request /\ want = Wanted(cfd)
         /\ \A l \in Links : \A i \in 1..Len(inbox[l]) : inbox[l][i] # want
         /\ con_map[cfd] # None =>
              /\ replied[LinkOf(cfd)] = Len(inbox[LinkOf(cfd)])
              /\ \A i \in 1..Len(Download(con_map[cfd].fd)) : FALSE
<1>1. /\ c \in Clients /\ turn[c] = "waiting" /\ asked[c] # <<>>
      /\ Income(cfd) # <<>> /\ want = Wanted(cfd)
      /\ asked[c] \in Seq(Hosts) /\ cfd \in Fds
  BY CompleteIncome, ClientEnd DEF Traffic, Inv, TypeOK, NetworkTypeOK
<1>2. want \in Request /\ want.client = c /\ want.n = Len(asked[c])
  BY <1>1, LatestType DEF Latest
<1>3. \A l \in Links : \A i \in 1..Len(inbox[l]) : inbox[l][i] # want
  <2> SUFFICES ASSUME NEW l \in Links, NEW i \in 1..Len(inbox[l]),
                      inbox[l][i] = want
               PROVE  FALSE
    OBVIOUS
  <2>1. HandedOver(want)
    BY DEF Traffic, InboxesHandedOver
  <2> QED
    BY <1>1, <1>2, <2>1 DEF HandedOver
<1>4. ASSUME con_map[cfd] # None
      PROVE  /\ replied[LinkOf(cfd)] = Len(inbox[LinkOf(cfd)])
             /\ \A i \in 1..Len(Download(con_map[cfd].fd)) : FALSE
  <2>1. PICK l \in Links : l = LinkOf(cfd)
    BY <1>1, <1>4, BridgeEnd DEF Traffic
  <2>2. BridgeAnswers(c, l, Download(con_map[cfd].fd))
    BY <1>1, <1>4, <2>1 DEF Traffic, BridgesAnswer, LinkOf
  <2>3. inbox[l] \in Seq(Request) /\ Len(inbox[l]) \in Nat /\ replied[l] \in Nat
    BY LenProperties DEF Inv, TypeOK, NetworkTypeOK
  <2>4. inbox[l][Len(inbox[l])] # want
    <3>1. Len(inbox[l]) \in 1..Len(inbox[l])
      BY <2>2, <2>3, EmptySeq DEF BridgeAnswers
    <3> QED
      BY <1>3, <3>1
  <2> QED
    BY <2>1, <2>2, <2>3, <2>4 DEF BridgeAnswers
<1> QED
  BY <1>1, <1>2, <1>3, <1>4

(* When on_data_income hands a request over, no more of it is unread, and  *)
(* the other clients' requests stay where they are.                        *)
LEMMA RequestTaken ==
  ASSUME Inv, PeersDistinct, NEW cfd \in ClientFds,
         turn[clients[cfd]] = "waiting",
         NEW ps \in {{clients[cfd]}, {clients[cfd]} \cup BridgePeer(cfd)},
         Drain(ps), request_map' = [request_map EXCEPT ![cfd] = <<>>],
         UNCHANGED <<backlog, asked, clients>>,
         \A d \in Clients : far'[d] = "absent" <=> far[d] = "absent"
  PROVE  /\ ClientsQuiet /\ Income(cfd)' = <<>>
         /\ \A l \in Links : rx'[l] \in {rx[l], <<>>}
         /\ \A fd \in Fds : con_map[fd] # None /\ fd # cfd => LinkOf(fd) \notin ps
<1>1. /\ cfd \in Fds /\ clients[cfd] \in Clients /\ clients[cfd] \in Peers
      /\ Connected(clients[cfd])
  BY ClientEnd
<1>2. \A p \in BridgePeer(cfd) :
        p \in Links /\ Connected(p) /\ con_map[cfd] # None /\ p = LinkOf(cfd)
  BY <1>1, BridgeEnd DEF BridgePeer, LinkOf, Connected
<1>3. \A d \in Clients : far[d] = "absent" \/ Queued(d) => rx'[d] = rx[d]
  BY <1>1, <1>2, DrainOthers
<1>4. \A l \in Links : rx'[l] \in {rx[l], <<>>}
  BY DrainEffect DEF Peers
<1>5. Income(cfd)' = <<>>
  <2>1. request_map'[cfd] = <<>> /\ rx'[clients[cfd]] = <<>>
    BY <1>1, DrainEffect DEF Inv, TypeOK
  <2> QED
    BY <2>1 DEF Income
<1>6. ASSUME NEW fd \in ClientFds, fd # cfd
      PROVE  Income(fd)' = Income(fd)
  <2>1. clients[fd] \notin ps
    BY <1>2, <1>6, ClientEnd
  <2>2. request_map'[fd] = request_map[fd]
    BY <1>6, ClientEnd DEF Inv, TypeOK
  <2> QED
    BY <2>1, <2>2, IncomeKept
<1>7. \A fd \in Fds : con_map[fd] # None /\ fd # cfd => LinkOf(fd) \notin ps
  BY <1>1, <1>2, BridgeEnd, PeersAssumption
<1> QED
  BY <1>3, <1>4, <1>5, <1>6, <1>7 DEF ClientsQuiet, ClientFds

(* Every request that had been handed over stays so, and the one that is   *)
(* handed over now joins them.                                             *)
LEMMA RequestHandedOver ==
  ASSUME Inv, Traffic, NEW cfd \in ClientFds, ClientsQuiet, turn' = turn,
         Income(cfd)' = <<>>, clients' = clients,
         NEW c, c = clients[cfd], turn[c] = "waiting",
         NEW want \in Request, want = Latest(c, asked[c])
  PROVE  /\ HandedOver(want)'
         /\ \A l \in Links : \A i \in 1..Len(inbox[l]) :
              \A req \in Request : req = inbox[l][i] => HandedOver(req)'
<1>1. /\ c \in Clients /\ far[c] # "absent" /\ ~Queued(c)
      /\ want.client = c /\ want.n = Len(asked[c])
  BY ClientEnd DEF Traffic, Latest
<1>2. UNCHANGED <<backlog, asked>> /\ far'[c] # "absent"
  BY <1>1 DEF ClientsQuiet
<1>3. \A fd \in Fds : clients'[fd] = c => Income(fd)' = <<>>
  <2> SUFFICES ASSUME NEW fd \in Fds, clients[fd] = c PROVE fd = cfd
    OBVIOUS
  <2>1. fd \in ClientFds
    BY <1>1, NoneAssumption DEF ClientFds
  <2> QED
    BY <2>1, ClientEnd DEF Traffic
<1>4. Len(asked[c]) \in Nat
  BY <1>1, LenProperties DEF Inv, TypeOK, NetworkTypeOK
<1>5. HandedOver(want)'
  BY <1>1, <1>2, <1>3, <1>4 DEF HandedOver, Queued
<1>6. ASSUME NEW l \in Links, NEW i \in 1..Len(inbox[l]),
             NEW req \in Request, req = inbox[l][i]
      PROVE  HandedOver(req)'
  <2>1. HandedOver(req)
    BY <1>6 DEF Traffic, InboxesHandedOver
  <2> QED
    BY <2>1, StaysHandedOver
<1> QED
  BY <1>5, <1>6


(* The request goes on the bridge that its client has: it is the only one  *)
(* to be answered there, and has gone nowhere else.                        *)
LEMMA OnBridgeTraffic ==
  ASSUME Inv, Traffic, NEW e \in batch, RequestOnBridge(e)
  PROVE  Traffic'
<1>1. PICK cfd \in ClientFds : cfd = e.fd /\ con_map[cfd] # None /\ cfd \in Fds
  BY ClientHandled, NoneAssumption
     DEF RequestOnBridge, RequestDone, ClientReads, ClientFds, SameHost
<1>2. PICK c \in Clients, want \in Request :
        /\ c = clients[cfd] /\ want = Latest(c, asked[c]) /\ want = Wanted(cfd)
        /\ turn[c] = "waiting"
        /\ \A l \in Links : \A i \in 1..Len(inbox[l]) : inbox[l][i] # want
        /\ replied[LinkOf(cfd)] = Len(inbox[LinkOf(cfd)])
        /\ \A i \in 1..Len(Download(con_map[cfd].fd)) : FALSE
  <2>1. IsComplete(Income(cfd))
    BY <1>1 DEF RequestOnBridge, RequestDone
  <2>2. PICK c, want : c = clients[cfd] /\ want = Latest(c, asked[c])
    OBVIOUS
  <2> QED
    BY <1>1, <2>1, <2>2, NotServedYet
<1>3. PICK l \in Links : /\ l = LinkOf(cfd) /\ l \in Peers /\ l \notin Clients
                         /\ host[l] = want.host
  BY <1>1, <1>2, BridgeEnd DEF Traffic, RequestOnBridge, SameHost
<1>4. /\ far' \in FarAfterWrite(l)
      /\ inbox' = IF far[l] = "open" THEN [inbox EXCEPT ![l] = Append(@, want)]
                  ELSE inbox
      /\ Drain({c}) /\ request_map' = [request_map EXCEPT ![cfd] = <<>>]
      /\ UNCHANGED <<backlog, turn, asked, got, host, replied, epoll, clients,
                     con_map, response>>
  BY <1>1, <1>2, <1>3 DEF RequestOnBridge, RequestDone, LinkOf
<1>5. \A p \in Peers : far'[p] = "absent" <=> far[p] = "absent"
  BY <1>3, <1>4 DEF FarAfterWrite, Inv, TypeOK, NetworkTypeOK
<1>6. /\ ClientsQuiet /\ Income(cfd)' = <<>>
      /\ \A m \in Links : rx'[m] \in {rx[m], <<>>}
  BY <1>2, <1>4, <1>5, RequestTaken DEF Traffic, Peers
<1>7. /\ inbox[l] \in Seq(Request) /\ Len(inbox[l]) \in Nat
      /\ inbox \in [Links -> Seq(Request)] /\ replied[l] \in Nat
  BY LenProperties DEF Inv, TypeOK, NetworkTypeOK
<1>8. /\ \A m \in Links : m # l => inbox'[m] = inbox[m]
      /\ \/ inbox'[l] = inbox[l]
         \/ inbox'[l] = Append(inbox[l], want)
  BY <1>4, <1>7
<1>9. /\ Len(Append(inbox[l], want)) = Len(inbox[l]) + 1
      /\ Append(inbox[l], want) # <<>>
      /\ \A i \in 1..Len(inbox[l]) : Append(inbox[l], want)[i] = inbox[l][i]
      /\ Append(inbox[l], want)[Len(inbox[l]) + 1] = want
  BY <1>7, AppendProperties
<1>10. \A m \in Links : \A i \in 1..Len(inbox'[m]) :
         \/ i \in 1..Len(inbox[m]) /\ inbox'[m][i] = inbox[m][i]
            /\ inbox[m][i] # want
         \/ m = l /\ i = Len(inbox[l]) + 1 /\ inbox'[m][i] = want
  <2> SUFFICES ASSUME NEW m \in Links, NEW i \in 1..Len(inbox'[m])
               PROVE  \/ i \in 1..Len(inbox[m]) /\ inbox'[m][i] = inbox[m][i]
                         /\ inbox[m][i] # want
                      \/ m = l /\ i = Len(inbox[l]) + 1 /\ inbox'[m][i] = want
    OBVIOUS
  <2>1. CASE inbox'[m] = inbox[m]
    BY <1>2, <2>1
  <2>2. CASE m = l /\ inbox'[l] = Append(inbox[l], want)
    <3>1. i \in 1..Len(inbox[l]) \/ i = Len(inbox[l]) + 1
      BY <1>7, <1>9, <2>2
    <3> QED
      BY <1>2, <1>9, <2>2, <3>1
  <2> QED
    BY <1>8, <2>1, <2>2
<1>11. PeersDistinct'
  BY <1>4, <1>5, QueueType, PeersStayDistinct DEF Inv, Traffic
<1>12. IncomeFits'
  BY <1>4, <1>6, IncomeStaysFit DEF Traffic
<1>13. RoutedOnce'
  <2>1. ASSUME NEW m \in Links, NEW i \in 1..Len(inbox'[m])
        PROVE  inbox'[m][i].host = host[m]
    BY <1>3, <1>10, <2>1 DEF Traffic, RoutedOnce
  <2>2. ASSUME NEW m \in Links, NEW i \in 1..Len(inbox'[m]),
               NEW k \in Links, NEW j \in 1..Len(inbox'[k]),
               inbox'[m][i] = inbox'[k][j]
        PROVE  m = k /\ i = j
    <3>1. \/ /\ i \in 1..Len(inbox[m]) /\ j \in 1..Len(inbox[k])
             /\ inbox[m][i] = inbox[k][j]
          \/ m = l /\ i = Len(inbox[l]) + 1 /\ k = l /\ j = Len(inbox[l]) + 1
      BY <1>10, <2>2
    <3> QED
      BY <3>1 DEF Traffic, RoutedOnce
  <2> QED
    BY <1>4, <2>1, <2>2 DEF RoutedOnce
<1>14. InboxesHandedOver'
  <2>1. /\ HandedOver(want)'
        /\ \A m \in Links : \A i \in 1..Len(inbox[m]) :
             \A req \in Request : req = inbox[m][i] => HandedOver(req)'
    BY <1>2, <1>4, <1>6, RequestHandedOver
  <2> SUFFICES ASSUME NEW m \in Links, NEW i \in 1..Len(inbox'[m])
               PROVE  HandedOver(inbox[m][i])'
    BY DEF InboxesHandedOver
  <2>2. PICK req \in Request : req = inbox'[m][i] /\ HandedOver(req)'
    BY <1>10, <2>1, InboxType DEF Inv
  <2> QED
    BY <2>2 DEF HandedOver
<1>15. BridgesAnswer'
  <2>1. \A m \in Links : host'[m] = None => rx'[m] = <<>> /\ replied'[m] = 0
    BY <1>4, <1>6 DEF Traffic, BridgesAnswer
  <2>2. ASSUME NEW fd \in Fds, con_map'[fd] # None
        PROVE  BridgeAnswers(clients[fd], epoll.fdt[con_map[fd].fd],
                             Download(con_map[fd].fd))'
    <3>1. con_map[fd] # None /\ LinkOf(fd) \in Links /\ LinkOf(fd) \notin {c}
      BY <1>4, <2>2, BridgeEnd DEF Traffic
    <3>2. Download(con_map[fd].fd)' = Download(con_map[fd].fd)
      BY <1>4, <3>1, DownloadKept DEF Traffic
    <3>3. CASE fd # cfd \/ inbox'[l] = inbox[l]
      <4>1. inbox'[LinkOf(fd)] = inbox[LinkOf(fd)]
        BY <1>1, <1>3, <1>8, <3>1, <3>3, BridgeEnd DEF Traffic
      <4> QED
        BY <1>4, <3>1, <3>2, <4>1, BridgeUntouched
    <3>4. CASE fd = cfd /\ inbox'[l] = Append(inbox[l], want)
      <4>1. \A i \in 1..Len(Download(con_map[fd].fd)') : FALSE
        BY <1>2, <3>2, <3>4
      <4>2. /\ inbox'[l] # <<>> /\ replied'[l] = replied[l]
            /\ Len(inbox'[l]) = replied'[l] + 1
            /\ inbox'[l][Len(inbox'[l])] = want
        BY <1>2, <1>3, <1>4, <1>9, <3>4
      <4>3. /\ turn'[c] = "waiting" /\ want = Latest(c, asked'[c])
            /\ clients'[fd] = c /\ epoll'.fdt[con_map'[fd].fd] = l
        BY <1>2, <1>3, <1>4, <3>4 DEF LinkOf
      <4> QED
        BY <1>7, <4>1, <4>2, <4>3 DEF BridgeAnswers, Latest
    <3> QED
      BY <1>8, <3>3, <3>4
  <2> QED
    BY <2>1, <2>2 DEF BridgesAnswer
<1>16. AnswersGiven'
  BY <1>4 DEF Traffic, AnswersGiven, Latest
<1> QED
  BY <1>11, <1>12, <1>13, <1>14, <1>15, <1>16 DEF Traffic


(* What a new bridge is made of: a link that nothing was sent on yet, and  *)
(* a descriptor that is free once the old bridge is closed.                *)
LEMMA NewBridgeEffect ==
  ASSUME Inv, Traffic, NEW e \in batch, RequestNewBridge(e),
         NEW cfd \in ClientFds, cfd = e.fd, NEW want, want = Wanted(cfd)
  PROVE  \E l \in Links, new \in Fds :
           /\ host[l] = None /\ rx[l] = <<>> /\ replied[l] = 0 /\ ~Connected(l)
           /\ epoll.fdt[new] = None \/ new \in BridgeOf(cfd)
           /\ \A fd \in Fds : con_map[fd] # None /\ fd # cfd => con_map[fd].fd # new
           /\ epoll'.fdt = [fd \in Fds |-> IF fd = new THEN l
                                           ELSE IF fd \in BridgeOf(cfd) THEN None
                                           ELSE epoll.fdt[fd]]
           /\ con_map' = [con_map EXCEPT ![cfd] = [host |-> want.host, fd |-> new]]
           /\ response' = [DropResponse(cfd) EXCEPT ![new] = <<>>]
           /\ far' = [far EXCEPT ![l] = "open"]
           /\ host' = [host EXCEPT ![l] = want.host]
           /\ inbox' = [inbox EXCEPT ![l] = <<want>>]
<1> DEFINE D == DropBridge(cfd)
<1>1. PICK l \in FreshLink, new \in FreeFd(D) :
        /\ epoll' = add_socket(open_fd(D, new, l), new,
                               BridgeHandler(cfd, clients[cfd]))
        /\ con_map' = [con_map EXCEPT ![cfd] = [host |-> want.host, fd |-> new]]
        /\ response' = [DropResponse(cfd) EXCEPT ![new] = <<>>]
        /\ far' = [far EXCEPT ![l] = "open"]
        /\ host' = [host EXCEPT ![l] = want.host]
        /\ inbox' = [inbox EXCEPT ![l] = <<want>>]
  BY DEF RequestNewBridge
<1>2. D.fdt = [fd \in Fds |-> IF fd \in BridgeOf(cfd) THEN None ELSE epoll.fdt[fd]]
  BY DropBridgeEffect
<1>3. D \in Registry
  BY DropBridgeEffect DEF Consistent
<1> HIDE DEF D
<1>4. l \in Links /\ host[l] = None /\ new \in Fds /\ D.fdt[new] = None
  BY DEF FreshLink, FreeFd
<1>5. rx[l] = <<>> /\ replied[l] = 0
  BY <1>4 DEF Traffic, BridgesAnswer
<1>6. ~Connected(l)
  <2> SUFFICES ASSUME NEW f \in Fds, epoll.fdt[f] = l PROVE FALSE
    BY DEF Connected
  <2>1. PICK fd \in Fds : con_map[fd] # None /\ con_map[fd].fd = f
    BY <1>4, BridgeFdOf
  <2> QED
    BY <1>4, <2>1, BridgeEnd DEF Traffic, LinkOf
<1>7. ASSUME NEW fd \in Fds, con_map[fd] # None, fd # cfd
      PROVE  con_map[fd].fd # new
  <2>1. con_map[fd].fd \notin BridgeOf(cfd) /\ con_map[fd].fd \in Fds
    BY <1>7, OwnersDistinct DEF BridgeOf, Bridge
  <2>2. epoll.fdt[con_map[fd].fd] # None
    BY <1>7, BridgeEnd, NoneAssumption DEF Traffic, LinkOf
  <2> QED
    BY <1>2, <1>4, <2>1, <2>2
<1>8. epoll'.fdt = [D.fdt EXCEPT ![new] = l]
  BY <1>1, <1>3 DEF add_socket, open_fd, Registry
<1>9. epoll'.fdt = [fd \in Fds |-> IF fd = new THEN l
                                   ELSE IF fd \in BridgeOf(cfd) THEN None
                                   ELSE epoll.fdt[fd]]
  BY <1>2, <1>4, <1>8
<1>10. PICK m \in Links, f \in Fds : m = l /\ f = new
  BY <1>4
<1>11. epoll.fdt[new] = None \/ new \in BridgeOf(cfd)
  BY <1>2, <1>4
<1> QED
  BY <1>1, <1>4, <1>5, <1>6, <1>7, <1>9, <1>10, <1>11

(* A new bridge is given the one request of its client, and the old one    *)
(* takes along what it still had.                                          *)
LEMMA NewBridgeTraffic ==
  ASSUME Inv, Traffic, NEW e \in batch, RequestNewBridge(e)
  PROVE  Traffic'
<1>1. PICK cfd \in ClientFds : cfd = e.fd /\ cfd \in Fds
  BY ClientHandled, NoneAssumption
     DEF RequestNewBridge, RequestDone, ClientReads, ClientFds
<1>2. PICK c \in Clients, want \in Request :
        /\ c = clients[cfd] /\ want = Latest(c, asked[c]) /\ want = Wanted(cfd)
        /\ turn[c] = "waiting"
        /\ \A l \in Links : \A i \in 1..Len(inbox[l]) : inbox[l][i] # want
  <2>1. IsComplete(Income(cfd))
    BY <1>1 DEF RequestNewBridge, RequestDone
  <2>2. PICK c, want : c = clients[cfd] /\ want = Latest(c, asked[c])
    OBVIOUS
  <2> QED
    BY <1>1, <2>1, <2>2, NotServedYet
<1>3. PICK l \in Links, new \in Fds :
        /\ host[l] = None /\ rx[l] = <<>> /\ replied[l] = 0 /\ ~Connected(l)
        /\ epoll.fdt[new] = None \/ new \in BridgeOf(cfd)
        /\ \A fd \in Fds : con_map[fd] # None /\ fd # cfd => con_map[fd].fd # new
        /\ epoll'.fdt = [fd \in Fds |-> IF fd = new THEN l
                                        ELSE IF fd \in BridgeOf(cfd) THEN None
                                        ELSE epoll.fdt[fd]]
        /\ con_map' = [con_map EXCEPT ![cfd] = [host |-> want.host, fd |-> new]]
        /\ response' = [DropResponse(cfd) EXCEPT ![new] = <<>>]
        /\ far' = [far EXCEPT ![l] = "open"]
        /\ host' = [host EXCEPT ![l] = want.host]
        /\ inbox' = [inbox EXCEPT ![l] = <<want>>]
  BY <1>1, <1>2, NewBridgeEffect, ZenonT(60)
<1> DEFINE ps == {c} \cup BridgePeer(cfd)
<1>4. /\ Drain(ps) /\ request_map' = [request_map EXCEPT ![cfd] = <<>>]
      /\ UNCHANGED <<backlog, turn, asked, got, replied, clients>>
  BY <1>1, <1>2 DEF RequestNewBridge, RequestDone
<1>5. /\ far \in [Peers -> Far] /\ host \in [Links -> Hosts \cup {None}]
      /\ inbox \in [Links -> Seq(Request)]
      /\ con_map \in [Fds -> Bridge \cup {None}]
      /\ response \in [Fds -> Seq(Piece)]
      /\ epoll.fdt \in [Fds -> Peers \cup {Listener, None}]
      /\ l \in Peers /\ l \notin Clients /\ l # None /\ want.host \in Hosts
  BY RegistryFields, PeersAssumption, NoneAssumption
     DEF Inv, TypeOK, NetworkTypeOK, Peers, Request
<1>6. /\ \A p \in Peers : p # l => far'[p] = far[p]
      /\ far'[l] = "open"
      /\ \A m \in Links : m # l => host'[m] = host[m] /\ inbox'[m] = inbox[m]
      /\ host'[l] = want.host /\ host'[l] # None /\ inbox'[l] = <<want>>
  BY <1>3, <1>5, NetworkAssumption
<1>0. inbox'[l] # <<>> /\ Len(inbox'[l]) = 1 /\ inbox'[l][1] = want
  <2>1. <<want>> # <<>> /\ Len(<<want>>) = 1 /\ <<want>>[1] = want
    OBVIOUS
  <2>2. inbox'[l] = <<want>>
    BY <1>6
  <2> QED
    BY <2>1, <2>2
<1>7. /\ ClientsQuiet /\ Income(cfd)' = <<>>
      /\ \A m \in Links : rx'[m] \in {rx[m], <<>>}
      /\ \A fd \in Fds : con_map[fd] # None /\ fd # cfd => LinkOf(fd) \notin ps
  <2>1. \A d \in Clients : far'[d] = "absent" <=> far[d] = "absent"
    BY <1>5, <1>6 DEF Peers
  <2> QED
    BY <1>2, <1>4, <2>1, RequestTaken DEF Traffic
<1>8. PeersDistinct'
  <2>1. \A p \in Peers : Connected(p)' => p = l \/ Connected(p)
    BY <1>3, NoneAssumption DEF Connected, Peers
  <2>2. \A f, g \in Fds :
          epoll'.fdt[f] \in Peers /\ epoll'.fdt[f] = epoll'.fdt[g] => f = g
    BY <1>3, <1>5, NoneAssumption DEF Traffic, PeersDistinct, Connected, Peers
  <2>3. \A p \in Peers : Connected(p)' => far'[p] # "absent"
    BY <1>6, <2>1 DEF Traffic, PeersDistinct
  <2>4. ASSUME NEW i \in 1..Len(backlog)
        PROVE  far'[backlog[i]] # "absent" /\ ~Connected(backlog[i])'
    <3>1. PICK d \in Clients : d = backlog[i] /\ d \in Peers
      BY QueueType DEF Inv
    <3>2. ~Connected(d) /\ far[d] # "absent" /\ d # l
      BY <1>5, <3>1 DEF Traffic, PeersDistinct
    <3>3. ~Connected(d)' /\ far'[d] # "absent"
      BY <1>6, <2>1, <3>1, <3>2
    <3> QED
      BY <1>4, <3>1, <3>3 DEF Connected
  <2>5. \A i, j \in 1..Len(backlog') : backlog'[i] = backlog'[j] => i = j
    BY <1>4 DEF Traffic, PeersDistinct
  <2> QED
    BY <1>4, <2>2, <2>3, <2>4, <2>5 DEF PeersDistinct
<1>9. IncomeFits'
  BY <1>4, <1>7, IncomeStaysFit DEF Traffic
<1>10. \A m \in Links : \A i \in 1..Len(inbox'[m]) :
         \/ m # l /\ i \in 1..Len(inbox[m]) /\ inbox'[m][i] = inbox[m][i]
            /\ inbox[m][i] # want
         \/ m = l /\ i = 1 /\ inbox'[m][i] = want
  <2> SUFFICES ASSUME NEW m \in Links, NEW i \in 1..Len(inbox'[m])
               PROVE  \/ m # l /\ i \in 1..Len(inbox[m])
                         /\ inbox'[m][i] = inbox[m][i] /\ inbox[m][i] # want
                      \/ m = l /\ i = 1 /\ inbox'[m][i] = want
    OBVIOUS
  <2>1. CASE m # l
    <3>1. inbox'[m] = inbox[m]
      BY <1>6, <2>1
    <3> QED
      BY <1>2, <2>1, <3>1
  <2>2. CASE m = l
    BY <1>0, <2>2
  <2> QED
    BY <2>1, <2>2
<1>11. RoutedOnce'
  <2>1. ASSUME NEW m \in Links, NEW i \in 1..Len(inbox'[m])
        PROVE  inbox'[m][i].host = host'[m]
    BY <1>6, <1>10, <2>1 DEF Traffic, RoutedOnce
  <2>2. ASSUME NEW m \in Links, NEW i \in 1..Len(inbox'[m]),
               NEW k \in Links, NEW j \in 1..Len(inbox'[k]),
               inbox'[m][i] = inbox'[k][j]
        PROVE  m = k /\ i = j
    <3>1. \/ /\ i \in 1..Len(inbox[m]) /\ j \in 1..Len(inbox[k])
             /\ inbox[m][i] = inbox[k][j]
          \/ m = l /\ i = 1 /\ k = l /\ j = 1
      BY <1>10, <2>2
    <3> QED
      BY <3>1 DEF Traffic, RoutedOnce
  <2> QED
    BY <2>1, <2>2 DEF RoutedOnce
<1>12. InboxesHandedOver'
  <2>1. /\ HandedOver(want)'
        /\ \A m \in Links : \A i \in 1..Len(inbox[m]) :
             \A req \in Request : req = inbox[m][i] => HandedOver(req)'
    BY <1>2, <1>4, <1>7, RequestHandedOver
  <2> SUFFICES ASSUME NEW m \in Links, NEW i \in 1..Len(inbox'[m])
               PROVE  HandedOver(inbox[m][i])'
    BY DEF InboxesHandedOver
  <2>2. PICK req \in Request : req = inbox'[m][i] /\ HandedOver(req)'
    BY <1>10, <2>1, InboxType DEF Inv
  <2> QED
    BY <2>2 DEF HandedOver
<1>13. BridgesAnswer'
  <2>1. \A m \in Links : host'[m] = None => rx'[m] = <<>> /\ replied'[m] = 0
    BY <1>4, <1>6, <1>7 DEF Traffic, BridgesAnswer
  <2>2. ASSUME NEW fd \in Fds, con_map'[fd] # None
        PROVE  BridgeAnswers(clients[fd], epoll.fdt[con_map[fd].fd],
                             Download(con_map[fd].fd))'
    <3>1. CASE fd # cfd
      <4>1. con_map'[fd] = con_map[fd] /\ con_map[fd] # None
        BY <1>3, <1>5, <2>2, <3>1
      <4>2. /\ con_map[fd].fd # new /\ con_map[fd].fd \in Fds
            /\ con_map[fd].fd \notin BridgeOf(cfd)
        BY <1>1, <1>3, <3>1, <4>1, OwnersDistinct DEF BridgeOf, Bridge
      <4>3. epoll'.fdt[con_map[fd].fd] = epoll.fdt[con_map[fd].fd]
        BY <1>3, <4>2
      <4>4. response'[con_map[fd].fd] = response[con_map[fd].fd]
        BY <1>3, <1>5, <4>2 DEF DropResponse, BridgeOf
      <4>5. Download(con_map[fd].fd)' = Download(con_map[fd].fd)
        BY <1>4, <1>7, <3>1, <4>1, <4>3, <4>4, DownloadKept DEF Traffic
      <4>6. LinkOf(fd) \in Links /\ LinkOf(fd) # l
        BY <1>3, <4>1, BridgeEnd DEF Traffic
      <4> QED
        BY <1>4, <1>6, <4>1, <4>3, <4>5, <4>6, BridgeUntouched
    <3>2. CASE fd = cfd
      <4>1. con_map'[fd].fd = new /\ clients'[fd] = c
        BY <1>1, <1>2, <1>3, <1>4, <1>5, <3>2
      <4>2. epoll'.fdt[new] = l
        BY <1>3
      <4>3. response'[new] = <<>> /\ rx'[l] = <<>>
        <5>1. DropResponse(cfd) \in [Fds -> Seq(Piece)]
          BY <1>1, DropResponseType DEF Inv
        <5> QED
          BY <1>3, <1>7, <5>1
      <4>4. Download(con_map[fd].fd)' = <<>> \o <<>>
        BY <4>1, <4>2, <4>3 DEF Download
      <4>5. \A i \in 1..Len(Download(con_map[fd].fd)') : FALSE
        BY <4>4, ConcatEmptySeq, EmptySeq
      <4>6. /\ inbox'[l] # <<>> /\ replied'[l] = 0 /\ Len(inbox'[l]) = 1
            /\ inbox'[l][1] = want
        BY <1>0, <1>3, <1>4
      <4>7. turn'[c] = "waiting" /\ want = Latest(c, asked'[c])
        BY <1>2, <1>4
      <4> QED
        BY <4>1, <4>2, <4>5, <4>6, <4>7 DEF BridgeAnswers, Latest
    <3> QED
      BY <3>1, <3>2
  <2> QED
    BY <2>1, <2>2 DEF BridgesAnswer
<1>14. AnswersGiven'
  BY <1>4 DEF Traffic, AnswersGiven, Latest
<1> QED
  BY <1>8, <1>9, <1>11, <1>12, <1>13, <1>14 DEF Traffic


(* What is delivered is an answer to the request that the client waits     *)
(* for, of which nothing is unread; the final answer is the last that the  *)
(* bridge has to give.                                                     *)
LEMMA DoneEffect ==
  ASSUME Inv, Traffic, NEW e \in batch, ResponseDone(e)
  PROVE  \E cfd \in ClientFds : \E c \in Clients, l \in Links, piece \in Piece :
           /\ c = clients[cfd] /\ con_map[cfd] # None /\ con_map[cfd].fd = e.fd
           /\ l = LinkOf(cfd) /\ e.fd \in Fds
           /\ turn[c] = "waiting" /\ Income(cfd) = <<>>
           /\ piece.req = Latest(c, asked[c]) /\ piece.part \in {"interim", "end"}
           /\ piece.part = "end" => replied[l] = Len(inbox[l])
           /\ inbox[l] # <<>> /\ inbox[l][Len(inbox[l])] = piece.req
           /\ Deliver(c, piece)
           /\ Drain({l}) /\ response' = [response EXCEPT ![e.fd] = <<>>]
<1>1. PICK cfd \in Fds :
        /\ cfd = epoll.handlers[e.fd].connection /\ e.fd \in Fds
        /\ con_map[cfd] # None /\ con_map[cfd].fd = e.fd
        /\ epoll.fdt[e.fd] = LinkOf(cfd)
  BY BridgeHandled, BridgeAssumption DEF ResponseDone, BridgeReads, LinkOf
<1>2. PICK l \in Links : l = LinkOf(cfd) /\ l = epoll.fdt[e.fd]
  BY <1>1, BridgeEnd DEF Traffic
<1>3. cfd \in ClientFds
  BY <1>1, BridgeEnd DEF Traffic
<1>4. PICK c \in Clients : c = clients[cfd]
  BY <1>3, ClientEnd DEF Traffic
<1>5. PICK i \in 1..Len(Download(e.fd)) :
        Completes(Download(e.fd), i) /\ Deliver(c, Download(e.fd)[i])
  BY <1>1, <1>4 DEF ResponseDone
<1>6. Download(e.fd) \in Seq(Piece)
  BY <1>1, <1>2, DownloadType DEF Inv
<1>7. PICK piece \in Piece : piece = Download(e.fd)[i]
  BY <1>6, ElementOfSeq
<1>8. piece.part \in {"interim", "end"} /\ Deliver(c, piece)
  BY <1>5, <1>7 DEF Completes
<1>9. BridgeAnswers(c, l, Download(e.fd))
  BY <1>1, <1>2, <1>4 DEF Traffic, BridgesAnswer
<1>10. /\ turn[c] = "waiting" /\ piece.req = Latest(c, asked[c])
       /\ piece.part = "end" => replied[l] = Len(inbox[l])
       /\ inbox[l] # <<>> /\ inbox[l][Len(inbox[l])] = piece.req
  BY <1>5, <1>7, <1>9 DEF BridgeAnswers
<1>11. Income(cfd) = <<>>
  <2>1. inbox[l] \in Seq(Request) /\ Len(inbox[l]) \in 1..Len(inbox[l])
    BY <1>10, LenProperties, EmptySeq DEF Inv, TypeOK, NetworkTypeOK
  <2>2. HandedOver(piece.req)
    BY <1>10, <2>1 DEF Traffic, InboxesHandedOver
  <2> QED
    BY <1>3, <1>4, <1>10, <2>2, ClientEnd DEF HandedOver, Latest, Traffic
<1>12. Drain({l}) /\ response' = [response EXCEPT ![e.fd] = <<>>]
  BY <1>2 DEF ResponseDone
<1> QED
  BY <1>1, <1>2, <1>3, <1>4, <1>8, <1>10, <1>11, <1>12

(* The client that is answered has no request left at the proxy, and its   *)
(* bridge, once the final answer is given, has none to answer.             *)
LEMMA DoneTraffic ==
  ASSUME Inv, Traffic, NEW e \in batch, ResponseDone(e)
  PROVE  Traffic'
<1>1. PICK cfd \in ClientFds, c \in Clients, l \in Links, piece \in Piece :
        /\ c = clients[cfd] /\ con_map[cfd] # None /\ con_map[cfd].fd = e.fd
        /\ l = LinkOf(cfd) /\ e.fd \in Fds
        /\ turn[c] = "waiting" /\ Income(cfd) = <<>>
        /\ piece.req = Latest(c, asked[c]) /\ piece.part \in {"interim", "end"}
        /\ piece.part = "end" => replied[l] = Len(inbox[l])
        /\ inbox[l] # <<>> /\ inbox[l][Len(inbox[l])] = piece.req
        /\ Deliver(c, piece)
        /\ Drain({l}) /\ response' = [response EXCEPT ![e.fd] = <<>>]
  BY DoneEffect
<1>2. /\ UNCHANGED <<backlog, asked, host, inbox, replied, epoll, clients,
                     request_map, con_map>>
      /\ turn \in [Clients -> {"idle", "sending", "waiting"}]
      /\ got[c] \in Seq(Piece) /\ got \in [Clients -> Seq(Piece)]
      /\ response \in [Fds -> Seq(Piece)]
      /\ asked[c] \in Seq(Hosts) /\ Len(asked[c]) \in Nat
  BY LenProperties DEF ResponseDone, Inv, TypeOK, NetworkTypeOK
<1>3. /\ far[c] # "absent" /\ ~Queued(c) /\ c \in Peers /\ cfd \in Fds
      /\ l \in Peers /\ l \notin Clients
      /\ \A other \in ClientFds : clients[other] = c => other = cfd
  BY <1>1, ClientEnd, PeersAssumption DEF Traffic, Peers
<1>4. \A p \in Peers : far'[p] = "absent" <=> far[p] = "absent"
  BY <1>1, <1>3 DEF Deliver, FarAfterWrite, Inv, TypeOK, NetworkTypeOK
<1>5. \/ turn' = turn /\ got' = got
      \/ /\ turn' = [turn EXCEPT ![c] = IF piece.part = "end" THEN "idle" ELSE @]
         /\ got' = [got EXCEPT ![c] = Append(@, piece)]
  BY <1>1 DEF Deliver
<1>6. /\ \A d \in Clients : d # c => turn'[d] = turn[d] /\ got'[d] = got[d]
      /\ \/ turn'[c] = turn[c] /\ got'[c] = got[c]
         \/ /\ turn'[c] = IF piece.part = "end" THEN "idle" ELSE turn[c]
            /\ got'[c] = Append(got[c], piece)
  BY <1>2, <1>5
<1>7. /\ \A p \in Peers : p # l => rx'[p] = rx[p]
      /\ rx'[l] = <<>>
  BY <1>1, <1>3, DrainEffect
<1>8. \A fd \in ClientFds : Income(fd)' = Income(fd)
  <2> SUFFICES ASSUME NEW fd \in ClientFds PROVE Income(fd)' = Income(fd)
    OBVIOUS
  <2>1. clients[fd] \notin {l}
    BY ClientEnd DEF Traffic
  <2> QED
    BY <1>1, <1>2, <2>1, IncomeKept DEF Traffic
<1>9. ClientsQuiet
  <2>1. \A d \in Clients : rx'[d] = rx[d]
    BY <1>3, <1>7 DEF Peers
  <2> QED
    BY <1>2, <1>4, <1>8, <2>1 DEF ClientsQuiet, ClientFds, Peers
<1>10. PeersDistinct'
  BY <1>2, <1>4, QueueType, PeersStayDistinct DEF Inv, Traffic
<1>11. IncomeFits'
  <2>1. \A fd \in Fds : clients'[fd] = c => Income(fd)' = <<>>
    BY <1>1, <1>2, <1>3, <1>8, NoneAssumption DEF ClientFds
  <2>2. ASSUME NEW d \in Clients
        PROVE  \/ turn'[d] = turn[d]
               \/ /\ turn[d] = "waiting" /\ turn'[d] = "idle"
                  /\ far[d] # "absent" /\ ~Queued(d)
                  /\ \A fd \in Fds : clients'[fd] = d => Income(fd)' = <<>>
    BY <1>1, <1>3, <1>6, <2>1
  <2> QED
    BY <1>9, <2>2, IncomeStaysFit DEF Traffic
<1>12. RoutedOnce'
  BY <1>2 DEF Traffic, RoutedOnce
<1>13. InboxesHandedOver'
  <2> SUFFICES ASSUME NEW m \in Links, NEW i \in 1..Len(inbox[m])
               PROVE  HandedOver(inbox[m][i])'
    BY <1>2 DEF InboxesHandedOver
  <2> PICK r \in Request : r = inbox[m][i]
    BY InboxType DEF Inv
  <2>1. HandedOver(r)
    BY DEF Traffic, InboxesHandedOver
  <2>2. \A d \in Clients : turn'[d] = "sending" => turn[d] = "sending"
    BY <1>6
  <2>3. HandedOver(r)'
    BY <1>9, <2>1, <2>2, StaysHandedOver
  <2> QED
    BY <1>2, <2>3 DEF HandedOver
<1>14. BridgesAnswer'
  <2>1. \A m \in Links : host'[m] = None => rx'[m] = <<>> /\ replied'[m] = 0
    BY <1>2, <1>7 DEF Traffic, BridgesAnswer, Peers
  <2>2. ASSUME NEW fd \in Fds, con_map'[fd] # None
        PROVE  BridgeAnswers(clients[fd], epoll.fdt[con_map[fd].fd],
                             Download(con_map[fd].fd))'
    <3>1. con_map[fd] # None /\ fd \in ClientFds /\ con_map[fd].fd \in Fds
      BY <1>2, <2>2, BridgeEnd DEF Traffic
    <3>2. CASE fd # cfd
      <4>1. LinkOf(fd) \notin {l} /\ con_map[fd].fd # e.fd
        BY <1>1, <1>3, <3>1, <3>2, BridgeEnd, OwnersDistinct DEF Traffic
      <4>2. response'[con_map[fd].fd] = response[con_map[fd].fd]
        BY <1>1, <1>2, <3>1, <4>1
      <4>3. Download(con_map[fd].fd)' = Download(con_map[fd].fd)
        BY <1>1, <1>2, <3>1, <4>1, <4>2, DownloadKept DEF Traffic
      <4>4. clients[fd] # c /\ clients[fd] \in Clients
        BY <1>3, <3>1, <3>2, ClientEnd DEF Traffic
      <4> QED
        BY <1>2, <1>6, <3>1, <4>3, <4>4, BridgeUntouched
    <3>3. CASE fd = cfd
      <4>1. /\ clients'[fd] = c /\ con_map'[fd].fd = e.fd
            /\ epoll'.fdt[con_map'[fd].fd] = l
        BY <1>1, <1>2, <3>3 DEF LinkOf
      <4>2. response'[e.fd] = <<>>
        BY <1>1, <1>2
      <4>3. Download(con_map[fd].fd)' = <<>> \o <<>>
        BY <1>7, <4>1, <4>2 DEF Download
      <4>4. \A i \in 1..Len(Download(con_map[fd].fd)') : FALSE
        BY <4>3, ConcatEmptySeq, EmptySeq
      <4>5. BridgeAnswers(c, l, Download(e.fd))
        BY <1>1, <1>3 DEF Traffic, BridgesAnswer, LinkOf
      <4>6. /\ inbox'[l] # <<>> /\ replied'[l] <= Len(inbox'[l])
            /\ replied'[l] < Len(inbox'[l]) => replied'[l] + 1 = Len(inbox'[l])
        BY <1>2, <4>5 DEF BridgeAnswers
      <4>7. ASSUME replied'[l] < Len(inbox'[l])
            PROVE  /\ turn'[c] = "waiting"
                   /\ inbox'[l][Len(inbox'[l])] = Latest(c, asked'[c])
        <5>1. piece.part # "end"
          <6>1. Len(inbox[l]) \in Nat /\ replied[l] \in Nat
            BY LenProperties DEF Inv, TypeOK, NetworkTypeOK
          <6> QED
            BY <1>1, <1>2, <4>7, <6>1
        <5> QED
          BY <1>1, <1>2, <1>6, <5>1
      <4> QED
        BY <4>1, <4>4, <4>6, <4>7 DEF BridgeAnswers, Latest
    <3> QED
      BY <3>2, <3>3
  <2> QED
    BY <2>1, <2>2 DEF BridgesAnswer
<1>15. AnswersGiven'
  <2> SUFFICES ASSUME NEW d \in Clients
               PROVE  /\ turn'[d] # "idle" <=>
                           /\ asked[d] # <<>>
                           /\ \A i \in 1..Len(got'[d]) :
                                got'[d][i] # [req |-> Latest(d, asked[d]), part |-> "end"]
                      /\ \A i \in 1..Len(got'[d]) : got'[d][i].req.n <= Len(asked[d])
    BY <1>2 DEF AnswersGiven, Latest
  <2>1. CASE turn'[d] = turn[d] /\ got'[d] = got[d]
    BY <2>1 DEF Traffic, AnswersGiven
  <2>2. CASE /\ d = c /\ got'[c] = Append(got[c], piece)
             /\ turn'[c] = IF piece.part = "end" THEN "idle" ELSE turn[c]
    <3>1. /\ asked[c] # <<>>
          /\ \A i \in 1..Len(got[c]) :
               /\ got[c][i] # [req |-> Latest(c, asked[c]), part |-> "end"]
               /\ got[c][i].req.n <= Len(asked[c])
      BY <1>1 DEF Traffic, AnswersGiven
    <3>2. piece.req.n = Len(asked[c])
      BY <1>1 DEF Latest
    <3>3. piece = [req |-> Latest(c, asked[c]), part |-> piece.part]
      BY <1>1 DEF Piece
    <3>4. PICK after : after = Append(got[c], piece)
      OBVIOUS
    <3>5. /\ Len(after) = Len(got[c]) + 1 /\ Len(got[c]) \in Nat
          /\ \A i \in 1..Len(got[c]) : after[i] = got[c][i]
          /\ after[Len(got[c]) + 1] = piece
      BY <1>2, <3>4, AppendProperties, LenProperties
    <3>6. \A i \in 1..Len(after) : i \in 1..Len(got[c]) \/ i = Len(after)
      BY <3>5
    <3>7. ASSUME NEW i \in 1..Len(after)
          PROVE  after[i].req.n <= Len(asked[c])
      <4>1. CASE i \in 1..Len(got[c])
        BY <3>1, <3>5, <4>1
      <4>2. CASE i = Len(after)
        <5>1. after[i] = piece /\ Len(asked[c]) \in Nat
          BY <1>2, <3>5, <4>2
        <5> QED
          BY <3>2, <5>1
      <4> QED
        BY <3>6, <4>1, <4>2
    <3>8. CASE piece.part = "end"
      <4>1. Len(after) \in 1..Len(after) /\ after[Len(after)] = piece
        BY <3>5
      <4> QED
        BY <2>2, <3>3, <3>4, <3>7, <3>8, <4>1
    <3>9. CASE piece.part # "end"
      <4>1. \A i \in 1..Len(after) :
              after[i] # [req |-> Latest(c, asked[c]), part |-> "end"]
        BY <3>1, <3>3, <3>5, <3>6, <3>9
      <4> QED
        BY <1>1, <2>2, <3>1, <3>4, <3>7, <3>9, <4>1
    <3> QED
      BY <3>8, <3>9
  <2> QED
    BY <1>6, <2>1, <2>2
<1> QED
  BY <1>10, <1>11, <1>12, <1>13, <1>14, <1>15 DEF Traffic


-----------------------------------------------------------------------------
(* The theorems.                                                           *)

(* At first nobody has connected and nothing was sent.                     *)
LEMMA InitTraffic == Init => Traffic
<1> SUFFICES ASSUME Init PROVE Traffic
  OBVIOUS
<1>1. /\ backlog = <<>> /\ clients = [fd \in Fds |-> None]
      /\ con_map = [fd \in Fds |-> None]
      /\ rx = [p \in Peers |-> <<>>] /\ far = [p \in Peers |-> "absent"]
      /\ turn = [c \in Clients |-> "idle"] /\ asked = [c \in Clients |-> <<>>]
      /\ got = [c \in Clients |-> <<>>] /\ host = [l \in Links |-> None]
      /\ inbox = [l \in Links |-> <<>>] /\ replied = [l \in Links |-> 0]
  BY DEF Init, NetworkInit
<1>2. \A fd \in Fds : epoll.fdt[fd] \notin Peers
  <2>1. epoll.fdt = [fd \in Fds |-> IF fd = ListenFd THEN Listener ELSE None]
    BY FdsAssumption DEF Init, EmptyRegistry, add_socket, open_fd
  <2> QED
    BY <2>1, PeersAssumption, NoneAssumption DEF Peers
<1>3. /\ ClientFds = {} /\ \A i \in 1..Len(backlog) : FALSE
      /\ \A l \in Links : \A i \in 1..Len(inbox[l]) : FALSE
      /\ \A c \in Clients : \A i \in 1..Len(got[c]) : FALSE
  BY <1>1 DEF ClientFds
<1>4. PeersDistinct
  BY <1>2, <1>3 DEF PeersDistinct, Connected
<1>5. IncomeFits /\ RoutedOnce /\ InboxesHandedOver
  BY <1>1, <1>3 DEF IncomeFits, RoutedOnce, InboxesHandedOver, Peers
<1>6. BridgesAnswer /\ AnswersGiven
  BY <1>1, <1>3 DEF BridgesAnswer, AnswersGiven, Peers
<1> QED
  BY <1>4, <1>5, <1>6 DEF Traffic

(* A visit of the loop keeps Traffic.                                      *)
LEMMA VisitTraffic ==
  ASSUME Inv, Traffic, NEW e \in batch, Visit(e)
  PROVE  Traffic'
<1>1. CASE Ignore(e) \/ AcceptFails(e) \/ RequestThrows(e)
  <2>1. UNCHANGED <<netVars, serverVars, epoll.fdt>>
    BY <1>1 DEF Ignore, AcceptFails, RequestThrows
  <2> QED
    BY <2>1, StillIsQuiet, QuietTraffic
<1>2. CASE Accept(e)
  BY <1>2, AcceptTraffic
<1>3. CASE RequestPart(e)
  BY <1>3, RequestPartIsQuiet, QuietTraffic DEF Traffic
<1>4. CASE RequestOnBridge(e)
  BY <1>4, OnBridgeTraffic
<1>5. CASE RequestNewBridge(e)
  BY <1>5, NewBridgeTraffic
<1>6. CASE RequestRefused(e)
  BY <1>6, RefusedIsQuiet, QuietTraffic
<1>7. CASE ResponseThrows(e) \/ ResponsePart(e)
  BY <1>7, ResponseReadIsQuiet, QuietTraffic DEF Traffic
<1>8. CASE ResponseDone(e)
  BY <1>8, DoneTraffic
<1>9. CASE ClientHup(e) \/ BridgeHup(e)
  <2>1. PICK cfd \in ClientFds : Drops(cfd, BridgeOf(cfd) \cup {cfd})
    BY <1>9, HupDrops
  <2>2. Quiet
    BY <2>1, DropIsQuiet DEF Traffic
  <2> QED
    BY <2>2, QuietTraffic
<1> QED
  BY <1>1, <1>2, <1>3, <1>4, <1>5, <1>6, <1>7, <1>8, <1>9 DEF Visit

(* Traffic is inductive beside Inv.                                        *)
LEMMA NextTraffic == Inv /\ Traffic /\ [Next]_vars => Traffic'
<1> SUFFICES ASSUME Inv, Traffic, [Next]_vars PROVE Traffic'
  OBVIOUS
<1>1. CASE Start \/ LoopTest \/ EnterWait \/ EpollWait \/ SigTerm \/ SigInt
           \/ UNCHANGED vars
  <2>1. epoll'.fdt = epoll.fdt
    BY <1>1, FdsAssumption DEF Start, LoopTest, EnterWait, EpollWait, SigTerm,
       SigInt, remove_socket, Inv, TypeOK, Registry
  <2>2. UNCHANGED <<netVars, serverVars, epoll.fdt>>
    BY <1>1, <2>1 DEF Start, LoopTest, EnterWait, EpollWait, SigTerm, SigInt,
       Interrupt
  <2> QED
    BY <2>2, StillIsQuiet, QuietTraffic
<1>2. CASE Exit
  BY <1>2, ExitIsQuiet, QuietTraffic
<1>3. CASE \E e \in batch : Visit(e)
  BY <1>3, VisitTraffic
<1>4. CASE Environment
  <2>1. UNCHANGED <<epoll, serverVars, batch, pc, loopVars>>
    BY <1>4 DEF Environment
  <2>2. ASSUME NEW c \in Clients, ClientStep(c)
        PROVE  Traffic'
    <3>1. CASE ClientConnect(c)
      BY <2>1, <3>1, ConnectTraffic
    <3>2. CASE \E h \in Hosts : ClientAsk(c, h)
      BY <2>1, <3>2, AskTraffic
    <3>3. CASE ClientFinish(c)
      BY <2>1, <3>3, FinishTraffic
    <3>4. CASE PeerClose(c)
      BY <2>1, <3>4, PeerCloseIsQuiet, QuietTraffic DEF Peers
    <3> QED
      BY <2>2, <3>1, <3>2, <3>3, <3>4 DEF ClientStep
  <2>3. ASSUME NEW l \in Links, OriginStep(l)
        PROVE  Traffic'
    <3>1. Attached(l)
      BY <2>3 DEF OriginStep
    <3>2. CASE \E part \in {"interim", "part", "end"} : OriginSends(l, part)
      BY <2>1, <3>1, <3>2, OriginSendsTraffic
    <3>3. CASE PeerClose(l)
      BY <2>1, <3>3, PeerCloseIsQuiet, QuietTraffic DEF Peers
    <3> QED
      BY <2>3, <3>2, <3>3 DEF OriginStep
  <2> QED
    BY <1>4, <2>2, <2>3 DEF Environment
<1> QED
  BY <1>1, <1>2, <1>3, <1>4 DEF Next, Loop

(* In every run of the proxy requests and answers are where Traffic says.  *)
THEOREM TrafficInvHolds == Spec => []TrafficInv
<1>1. Init => TrafficInv
  BY InitInv, InitTraffic DEF TrafficInv
<1>2. TrafficInv /\ [Next]_vars => TrafficInv'
  BY NextInv, NextTraffic DEF TrafficInv
<1> QED
  BY <1>1, <1>2, PTL DEF Spec

(* A request reaches the host it names, and one server, once.              *)
THEOREM RoutedOnceHolds == Spec => []RoutedOnce
<1>1. TrafficInv => RoutedOnce
  BY DEF TrafficInv, Traffic
<1> QED
  BY <1>1, TrafficInvHolds, PTL

(* What the proxy has of a client's request is a beginning of the request  *)
(* that this client is at.                                                 *)
THEOREM IncomeIsOneRequestHolds == Spec => []IncomeIsOneRequest
<1>1. TrafficInv => IncomeIsOneRequest
  <2> SUFFICES ASSUME TrafficInv, NEW fd \in ClientFds, Income(fd) # <<>>,
                      NEW c, c = clients[fd],
                      NEW head, head = [req |-> Latest(c, asked[c]), part |-> "head"],
                      NEW end, end = [req |-> Latest(c, asked[c]), part |-> "end"]
               PROVE  asked[c] # <<>> /\ Income(fd) \in {<<head>>, <<head, end>>}
    BY DEF IncomeIsOneRequest
  <2>1. Fits(c, Income(fd)) /\ c \in Clients
    BY ClientEnd DEF TrafficInv, Traffic, IncomeFits
  <2>2. turn[c] # "idle" /\ Income(fd) \in {<<head>>, <<head, end>>}
    BY <2>1 DEF Fits
  <2> QED
    BY <2>1, <2>2 DEF TrafficInv, Inv
<1> QED
  BY <1>1, TrafficInvHolds, PTL

(* What is on its way through a bridge answers the request that its client *)
(* waits for.                                                              *)
THEOREM DownloadIsAwaitedHolds == Spec => []DownloadIsAwaited
<1>1. TrafficInv => DownloadIsAwaited
  BY DEF TrafficInv, Traffic, BridgesAnswer, BridgeAnswers, DownloadIsAwaited
<1> QED
  BY <1>1, TrafficInvHolds, PTL


(* Which steps take a client out of the table while the process goes on:   *)
(* only a hang-up, and only its own.                                       *)
LEMMA LostByHangup ==
  ASSUME Inv, [Next]_vars, pc' \notin Halted,
         NEW fd \in ClientFds, clients'[fd] # clients[fd]
  PROVE  Drops(fd, BridgeOf(fd) \cup {fd})
<1>1. clients' # clients /\ fd \in Fds /\ clients \in [Fds -> Clients \cup {None}]
  BY DEF ClientFds, Inv, TypeOK
<1>2. ~Exit
  BY DEF Exit, Halted
<1>3. PICK e \in batch : Visit(e)
  BY <1>1, <1>2 DEF Next, Loop, Start, LoopTest, EnterWait, EpollWait, SigTerm,
     SigInt, Interrupt, Environment
<1>4. CASE Accept(e)
  <2>1. PICK new \in Fds, c \in Clients :
          new \notin ClientFds \cup BridgeFds
          /\ clients' = [clients EXCEPT ![new] = c]
    BY <1>4, AcceptEffect
  <2> QED
    BY <1>1, <2>1
<1>5. CASE ClientHup(e) \/ BridgeHup(e)
  <2>1. PICK cfd \in ClientFds : Drops(cfd, BridgeOf(cfd) \cup {cfd})
    BY <1>5, HupDrops
  <2>2. clients' = [clients EXCEPT ![cfd] = None]
    BY <2>1 DEF Drops
  <2> QED
    BY <1>1, <2>1, <2>2
<1>6. CASE ~Accept(e) /\ ~ClientHup(e) /\ ~BridgeHup(e)
  <2>1. clients' = clients
    BY <1>3, <1>6 DEF Visit, Ignore, AcceptFails, RequestThrows, RequestPart,
       RequestOnBridge, RequestNewBridge, RequestRefused, ResponseThrows,
       ResponsePart, ResponseDone
  <2> QED
    BY <1>1, <2>1
<1> QED
  BY <1>4, <1>5, <1>6

(* A handler that takes one client down leaves the others as they were.    *)
THEOREM HangupIsPrivateHolds == Spec => HangupIsPrivate
<1>1. ASSUME TrafficInv, [Next]_vars, pc' \notin Halted,
             NEW fd \in ClientFds, NEW other \in ClientFds,
             fd # other, clients'[fd] # clients[fd]
      PROVE  Undisturbed(other)
  <2>1. Drops(fd, BridgeOf(fd) \cup {fd})
    BY <1>1, LostByHangup DEF TrafficInv
  <2> QED
    BY <1>1, <2>1, DropIsPrivate DEF TrafficInv, Traffic
<1>2. TrafficInv /\ [Next]_vars =>
        [pc' \notin Halted =>
           \A fd, other \in ClientFds :
             fd # other /\ clients'[fd] # clients[fd] => Undisturbed(other)]_vars
  BY <1>1
<1> QED
  BY <1>2, TrafficInvHolds, PTL DEF Spec, HangupIsPrivate
=============================================================================
