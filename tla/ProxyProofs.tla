---------------------------- MODULE ProxyProofs -----------------------------
(***************************************************************************)
(* Inv is an invariant of Proxy for every number of clients, links, hosts, *)
(* descriptors and events.  One lemma per group of actions shows that a    *)
(* step keeps the type invariant, one that it keeps the two invariants of  *)
(* the descriptors.                                                        *)
(***************************************************************************)
EXTENDS Proxy, EpollWrapperProofs, SequenceTheorems

USE DEF vars, netVars, clientVars, originVars, serverVars, loopVars,
        ClientCaptured, BridgeCaptured, HandlerOwned

-----------------------------------------------------------------------------
(* Types of the values that handlers compute.                              *)

(* Reading leaves sequences of pieces behind.                              *)
LEMMA DrainType ==
  ASSUME NetworkTypeOK, NEW ps, Drain(ps)
  PROVE  rx' \in [Peers -> Seq(Piece)]
BY DEF NetworkTypeOK, Drain

(* A handler that is called belongs to somebody.                           *)
LEMMA ClientHandled ==
  ASSUME Inv, NEW e \in batch, Handles(e, "client")
  PROVE  e.fd \in Fds /\ clients[e.fd] \in Clients
BY DEF Inv, TypeOK, CapturesValid, Handles, Event

(* So does a bridge: con_map lists it under the client it was made for.    *)
LEMMA BridgeHandled ==
  ASSUME Inv, NEW e \in batch, Handles(e, "bridge")
  PROVE  LET cfd == epoll.handlers[e.fd].connection
         IN  /\ e.fd \in Fds /\ cfd \in Fds
             /\ con_map[cfd] \in Bridge /\ con_map[cfd].fd = e.fd
             /\ clients[cfd] \in Clients
             /\ epoll.fdt[e.fd] \in Links
<1>1. e.fd \in Fds /\ epoll.handlers[e.fd] \in Handler
  BY RegistryFields DEF Inv, TypeOK, Event, Handles
<1> QED
  BY <1>1 DEF Inv, TypeOK, CapturesValid, Handles, Handler

(* What on_data_income has after recieve_data is a sequence of pieces.     *)
LEMMA IncomeType ==
  ASSUME TypeOK, NEW fd \in Fds, clients[fd] \in Clients
  PROVE  Income(fd) \in Seq(Piece)
<1>1. request_map[fd] \in Seq(Piece) /\ rx[clients[fd]] \in Seq(Piece)
  BY DEF TypeOK, NetworkTypeOK, Peers
<1> QED
  BY <1>1, ConcatProperties DEF Income

(* And so is what the handler of a bridge has.                             *)
LEMMA DownloadType ==
  ASSUME TypeOK, NEW fd \in Fds, epoll.fdt[fd] \in Links
  PROVE  Download(fd) \in Seq(Piece)
<1>1. response[fd] \in Seq(Piece) /\ rx[epoll.fdt[fd]] \in Seq(Piece)
  BY DEF TypeOK, NetworkTypeOK, Peers
<1> QED
  BY <1>1, ConcatProperties DEF Download

(* A complete request is a request.                                        *)
LEMMA WantedType ==
  ASSUME TypeOK, NEW fd \in Fds, clients[fd] \in Clients, IsComplete(Income(fd))
  PROVE  Wanted(fd) \in Request
<1>1. Income(fd) \in Seq(Piece) /\ Income(fd) # <<>>
  BY IncomeType, EmptySeq DEF IsComplete
<1>2. Head(Income(fd)) \in Piece
  BY <1>1, HeadTailProperties
<1> QED
  BY <1>2 DEF Wanted, Piece

(* A write leaves each far end in one of its four states.                  *)
LEMMA FarAfterWriteType ==
  ASSUME NetworkTypeOK, NEW p \in Peers, NEW f \in FarAfterWrite(p)
  PROVE  f \in [Peers -> Far]
BY DEF NetworkTypeOK, FarAfterWrite, Far

(* Dropping the response of a bridge keeps the type of the holders.        *)
LEMMA DropResponseType ==
  ASSUME TypeOK, NEW cfd \in Fds
  PROVE  DropResponse(cfd) \in [Fds -> Seq(Piece)]
BY EmptySeq DEF DropResponse, TypeOK

(* After a visit the loop is in one of its states.                         *)
LEMMA ProceedType ==
  ASSUME TypeOK, NEW e, NEW end \in Halted \cup {"ok"}, Proceed(e, end)
  PROVE  /\ batch' \in SUBSET Event
         /\ pc' \in {"boot", "top", "prep", "wait", "batch"} \cup Halted
BY DEF TypeOK, Proceed

(* epoll_wait reports events of open descriptors only.                     *)
LEMMA ReadyEventsType ==
  ASSUME Inv
  PROVE  ReadyEvents \subseteq Event
<1> SUFFICES ASSUME NEW fd \in epoll.interest
             PROVE  EventFor(fd, epoll.fdt[fd]) \in Event
  BY DEF ReadyEvents
<1>1. fd \in Fds /\ epoll.fdt[fd] # None
  <2>1. fd \in Fds
    BY RegistryFields DEF Inv, TypeOK
  <2>2. fd \in OpenFds(epoll)
    BY DEF Inv, RegistryCoherent, Watches, Listened
  <2> QED
    BY <2>1, <2>2 DEF OpenFds
<1>2. epoll.fdt[fd] \in Peers \cup {Listener}
  BY <1>1, RegistryFields DEF Inv, TypeOK
<1> QED
  BY <1>1, <1>2 DEF EventFor, Event

-----------------------------------------------------------------------------
(* The type invariant is kept, by one lemma per part of the program.       *)

AskedOnce == \A c \in Clients : turn[c] # "idle" => asked[c] # <<>>

(* A client that has asked is at a request.                                *)
LEMMA LatestType ==
  ASSUME NEW c \in Clients, NEW qs \in Seq(Hosts), qs # <<>>
  PROVE  Latest(c, qs) \in Request
<1>1. Len(qs) \in Nat \ {0} /\ qs[Len(qs)] \in Hosts
  BY LenProperties, ElementOfSeq, EmptySeq
<1> QED
  BY <1>1 DEF Latest, Request

(* A piece that arrives joins the unread ones.                             *)
LEMMA ArriveType ==
  ASSUME NetworkTypeOK, NEW p \in Peers, NEW req \in Request,
         NEW part \in {"head", "interim", "part", "end"}, Arrive(p, req, part)
  PROVE  rx' \in [Peers -> Seq(Piece)]
<1>1. [req |-> req, part |-> part] \in Piece
  BY DEF Piece
<1>2. Append(rx[p], [req |-> req, part |-> part]) \in Seq(Piece)
  BY <1>1, AppendProperties DEF NetworkTypeOK
<1> QED
  BY <1>2 DEF NetworkTypeOK, Arrive

(* The steps of a client keep the types of the network.                    *)
LEMMA ClientStepType ==
  ASSUME NetworkTypeOK, AskedOnce, NEW c \in Clients, ClientStep(c)
  PROVE  NetworkTypeOK' /\ AskedOnce'
<1> c \in Peers
  BY DEF Peers
<1>1. CASE ClientConnect(c)
  <2>1. Append(backlog, c) \in Seq(Clients)
    BY AppendProperties DEF NetworkTypeOK
  <2> QED
    BY <1>1, <2>1 DEF ClientConnect, NetworkTypeOK, AskedOnce, Far
<1>2. ASSUME NEW h \in Hosts, ClientAsk(c, h)
      PROVE  NetworkTypeOK' /\ AskedOnce'
  <2>1. asked' = [asked EXCEPT ![c] = Append(@, h)]
    BY <1>2 DEF ClientAsk
  <2>2. Append(asked[c], h) \in Seq(Hosts) /\ Append(asked[c], h) # <<>>
    <3>1. asked[c] \in Seq(Hosts)
      BY DEF NetworkTypeOK
    <3> QED
      BY <3>1, AppendProperties
  <2>3. /\ asked' \in [Clients -> Seq(Hosts)] /\ asked'[c] # <<>>
        /\ \A d \in Clients : d # c => asked'[d] = asked[d]
    BY <2>1, <2>2 DEF NetworkTypeOK
  <2>4. rx' \in [Peers -> Seq(Piece)]
    BY <1>2, <2>3, LatestType, ArriveType DEF ClientAsk
  <2> QED
    BY <1>2, <2>3, <2>4 DEF ClientAsk, NetworkTypeOK, AskedOnce
<1>3. CASE ClientFinish(c)
  <2>1. asked[c] \in Seq(Hosts) /\ asked[c] # <<>>
    BY <1>3 DEF ClientFinish, NetworkTypeOK, AskedOnce
  <2>2. rx' \in [Peers -> Seq(Piece)]
    BY <1>3, <2>1, LatestType, ArriveType DEF ClientFinish
  <2> QED
    BY <1>3, <2>1, <2>2 DEF ClientFinish, NetworkTypeOK, AskedOnce
<1>4. CASE PeerClose(c)
  BY <1>4 DEF PeerClose, NetworkTypeOK, AskedOnce, Far
<1> QED
  BY <1>1, <1>2, <1>3, <1>4 DEF ClientStep

(* And so do the steps of an origin.                                       *)
LEMMA OriginStepType ==
  ASSUME NetworkTypeOK, AskedOnce, NEW l \in Links, OriginStep(l)
  PROVE  NetworkTypeOK' /\ AskedOnce'
<1> l \in Peers
  BY DEF Peers
<1>1. ASSUME NEW part \in {"interim", "part", "end"}, OriginSends(l, part)
      PROVE  NetworkTypeOK' /\ AskedOnce'
  <2>1. inbox[l] \in Seq(Request) /\ replied[l] \in Nat
    BY DEF NetworkTypeOK
  <2>2. replied[l] + 1 \in 1..Len(inbox[l])
    BY <1>1, <2>1, LenProperties DEF OriginSends
  <2>3. inbox[l][replied[l] + 1] \in Request
    BY <2>1, <2>2, ElementOfSeq
  <2>4. rx' \in [Peers -> Seq(Piece)]
    BY <1>1, <2>3, ArriveType DEF OriginSends
  <2>5. replied' \in [Links -> Nat]
    BY <1>1 DEF OriginSends, NetworkTypeOK
  <2>6. stage' \in [Links -> {"idle", "interim", "part"}]
    BY <1>1 DEF OriginSends, NetworkTypeOK
  <2> QED
    BY <1>1, <2>4, <2>5, <2>6 DEF OriginSends, NetworkTypeOK, AskedOnce
<1>2. CASE PeerClose(l)
  BY <1>2 DEF PeerClose, NetworkTypeOK, AskedOnce, Far
<1> QED
  BY <1>1, <1>2 DEF OriginStep

-----------------------------------------------------------------------------
(* The descriptors, before a step.                                         *)

OpenNow    == Listening \cup ClientFds \cup BridgeFds
WatchedNow == Listened \cup ClientFds \cup BridgeFds

(* Inv says which descriptors are open and which are watched.              *)
LEMMA RegistryConsistent ==
  ASSUME Inv
  PROVE  Consistent(epoll, OpenNow, WatchedNow)
BY DEF Inv, TypeOK, RegistryCoherent, Consistent, OpenNow, WatchedNow, Listened

(* Nobody shares a descriptor: not two clients' bridges, not a client and  *)
(* a bridge, and the server socket with none.                              *)
LEMMA OwnersDistinct ==
  ASSUME Inv
  PROVE  /\ ClientFds \subseteq Fds /\ BridgeFds \subseteq Fds
         /\ ClientFds \cap BridgeFds = {}
         /\ \A fd \in Fds : con_map[fd] # None =>
              fd \in ClientFds /\ con_map[fd] \in Bridge
         /\ \A f, g \in Fds : /\ con_map[f] # None /\ con_map[g] # None
                              /\ con_map[f].fd = con_map[g].fd
                              => f = g
         /\ pc # "exited" => ListenFd \notin ClientFds \cup BridgeFds
<1>1. \A fd \in Fds : con_map[fd] # None =>
        fd \in ClientFds /\ con_map[fd] \in Bridge
  BY DEF Inv, TypeOK, CapturesValid, ClientFds
<1>2. ClientFds \subseteq Fds /\ BridgeFds \subseteq Fds
  BY <1>1 DEF ClientFds, BridgeFds, Bridge
<1>3. \A fd \in ClientFds : epoll.handlers[fd].kind = "client"
                            /\ epoll.fdt[fd] \in Clients
  <2> TAKE fd \in ClientFds
  <2>1. fd \in Fds /\ clients[fd] # None /\ clients[fd] \in Clients
    BY DEF Inv, TypeOK, ClientFds
  <2>2. /\ epoll.handlers[fd] = ClientHandler(fd, clients[fd])
        /\ epoll.fdt[fd] = clients[fd]
    BY <2>1 DEF Inv, CapturesValid
  <2> QED
    BY <2>1, <2>2 DEF ClientHandler
<1>4. \A f \in Fds : con_map[f] # None =>
        /\ epoll.handlers[con_map[f].fd].kind = "bridge"
        /\ epoll.handlers[con_map[f].fd].connection = f
        /\ epoll.fdt[con_map[f].fd] \in Links
  <2> SUFFICES ASSUME NEW f \in Fds, con_map[f] # None
               PROVE  /\ epoll.handlers[con_map[f].fd].kind = "bridge"
                      /\ epoll.handlers[con_map[f].fd].connection = f
                      /\ epoll.fdt[con_map[f].fd] \in Links
    OBVIOUS
  <2>1. /\ epoll.handlers[con_map[f].fd] = BridgeHandler(f, clients[f])
        /\ epoll.fdt[con_map[f].fd] \in Links
    BY DEF Inv, CapturesValid
  <2> QED
    BY <2>1 DEF BridgeHandler
<1>5. ClientFds \cap BridgeFds = {}
  BY <1>3, <1>4 DEF BridgeFds
<1>6. \A f, g \in Fds : /\ con_map[f] # None /\ con_map[g] # None
                        /\ con_map[f].fd = con_map[g].fd
                        => f = g
  BY <1>4
<1>7. pc # "exited" => ListenFd \notin ClientFds \cup BridgeFds
  BY <1>3, <1>4, PeersAssumption DEF Inv, RegistryCoherent, BridgeFds
<1> QED
  BY <1>1, <1>2, <1>5, <1>6, <1>7

-----------------------------------------------------------------------------
(* The descriptors that DropBridge and DropClient give back.               *)

BridgeOf(cfd) == IF con_map[cfd] = None THEN {} ELSE {con_map[cfd].fd}

(* con_map->erase with remove_socket takes exactly the bridge away.        *)
LEMMA DropBridgeEffect ==
  ASSUME Inv, NEW cfd \in ClientFds
  PROVE  LET E == DropBridge(cfd)
         IN  /\ Consistent(E, OpenNow \ BridgeOf(cfd), WatchedNow \ BridgeOf(cfd))
             /\ E.fdt = [fd \in Fds |-> IF fd \in BridgeOf(cfd) THEN None
                                        ELSE epoll.fdt[fd]]
             /\ E.handlers = [fd \in Fds |-> IF fd \in BridgeOf(cfd) THEN None
                                             ELSE epoll.handlers[fd]]
<1> cfd \in Fds
  BY DEF ClientFds
<1>1. Consistent(epoll, OpenNow, WatchedNow) /\ epoll \in Registry
  BY RegistryConsistent DEF Consistent
<1>2. CASE con_map[cfd] = None
  BY <1>1, <1>2, RegistryFields DEF DropBridge, BridgeOf
<1>3. CASE con_map[cfd] # None
  <2>1. con_map[cfd].fd \in Fds /\ con_map[cfd].fd \in BridgeFds
    BY <1>3, OwnersDistinct DEF BridgeFds
  <2>2. con_map[cfd].fd \in WatchedNow
    BY <2>1 DEF WatchedNow
  <2> PICK b \in Fds : b = con_map[cfd].fd
    BY <2>1
  <2> DEFINE F == close_fd(remove_socket(epoll, b), b)
  <2>3. /\ Consistent(F, OpenNow \ {b}, WatchedNow \ {b})
        /\ F.fdt = [epoll.fdt EXCEPT ![b] = None]
        /\ F.handlers = [epoll.handlers EXCEPT ![b] = None]
    BY <1>1, <2>1, <2>2, RemoveAndClose
  <2>4. DropBridge(cfd) = F /\ BridgeOf(cfd) = {b}
    BY <1>3 DEF DropBridge, BridgeOf
  <2> HIDE DEF F
  <2> QED
    BY <1>1, <2>3, <2>4, RegistryFields
<1> QED
  BY <1>2, <1>3

(* disconnect_client takes exactly the client and its bridge away.         *)
LEMMA DropClientEffect ==
  ASSUME Inv, NEW cfd \in ClientFds
  PROVE  LET E == DropClient(cfd)
             dropped == BridgeOf(cfd) \cup {cfd}
         IN  /\ Consistent(E, OpenNow \ dropped, WatchedNow \ dropped)
             /\ E.fdt = [fd \in Fds |-> IF fd \in dropped THEN None
                                        ELSE epoll.fdt[fd]]
             /\ E.handlers = [fd \in Fds |-> IF fd \in dropped THEN None
                                             ELSE epoll.handlers[fd]]
<1> DEFINE D == DropBridge(cfd)
           E == DropClient(cfd)
<1>1. cfd \in Fds /\ cfd \notin BridgeOf(cfd) /\ cfd \in WatchedNow
  BY OwnersDistinct DEF ClientFds, BridgeFds, BridgeOf, WatchedNow
<1>2. /\ Consistent(D, OpenNow \ BridgeOf(cfd), WatchedNow \ BridgeOf(cfd))
      /\ D.fdt = [fd \in Fds |-> IF fd \in BridgeOf(cfd) THEN None
                                 ELSE epoll.fdt[fd]]
      /\ D.handlers = [fd \in Fds |-> IF fd \in BridgeOf(cfd) THEN None
                                      ELSE epoll.handlers[fd]]
  BY DropBridgeEffect
<1>3. E = close_fd(remove_socket(D, cfd), cfd)
  BY DEF DropClient
<1> HIDE DEF D, E
<1>4. /\ Consistent(E, (OpenNow \ BridgeOf(cfd)) \ {cfd},
                       (WatchedNow \ BridgeOf(cfd)) \ {cfd})
      /\ E.fdt = [D.fdt EXCEPT ![cfd] = None]
      /\ E.handlers = [D.handlers EXCEPT ![cfd] = None]
  <2> DEFINE open == OpenNow \ BridgeOf(cfd)
             watched == WatchedNow \ BridgeOf(cfd)
  <2>1. Consistent(D, open, watched) /\ cfd \in watched /\ cfd \in Fds
    BY <1>1, <1>2
  <2> HIDE DEF open, watched
  <2>2. LET F == close_fd(remove_socket(D, cfd), cfd)
        IN  /\ Consistent(F, open \ {cfd}, watched \ {cfd})
            /\ F.fdt = [D.fdt EXCEPT ![cfd] = None]
            /\ F.handlers = [D.handlers EXCEPT ![cfd] = None]
    BY <2>1, RemoveAndClose
  <2> QED
    BY <1>3, <2>2 DEF open, watched
<1>5. /\ (OpenNow \ BridgeOf(cfd)) \ {cfd} = OpenNow \ (BridgeOf(cfd) \cup {cfd})
      /\ (WatchedNow \ BridgeOf(cfd)) \ {cfd}
           = WatchedNow \ (BridgeOf(cfd) \cup {cfd})
  OBVIOUS
<1>6. /\ E.fdt = [fd \in Fds |-> IF fd \in BridgeOf(cfd) \cup {cfd} THEN None
                                 ELSE epoll.fdt[fd]]
      /\ E.handlers = [fd \in Fds |-> IF fd \in BridgeOf(cfd) \cup {cfd} THEN None
                                      ELSE epoll.handlers[fd]]
  BY <1>2, <1>4
<1> QED
  BY <1>4, <1>5, <1>6 DEF E

-----------------------------------------------------------------------------
(* The invariants of the descriptors are kept.                             *)

Descriptors == epoll \in Registry /\ RegistryCoherent /\ CapturesValid

(* How a handler shows that the registry is coherent after it.             *)
LEMMA CoherentAgain ==
  ASSUME Consistent(epoll, OpenNow, WatchedNow)',
         pc' # "exited" => epoll'.fdt[ListenFd] = Listener
  PROVE  (epoll \in Registry /\ RegistryCoherent)'
BY DEF Consistent, OpenNow, WatchedNow, RegistryCoherent

(* Steps that leave the descriptors alone.                                 *)
LEMMA DescriptorsUntouched ==
  ASSUME Inv, UNCHANGED <<epoll, clients, con_map, host, signalled>>,
         pc = "exited" <=> pc' = "exited"
  PROVE  Descriptors'
<1>1. ClientFds' = ClientFds /\ BridgeFds' = BridgeFds /\ Listening' = Listening
  BY DEF ClientFds, BridgeFds, Listening
<1>2. Listened' = Listened
  BY <1>1 DEF Listened
<1>3. (epoll \in Registry)' /\ RegistryCoherent'
  BY <1>1, <1>2 DEF Inv, TypeOK, RegistryCoherent, OpenFds, Watches
<1>4. CapturesValid'
  BY DEF Inv, CapturesValid
<1> QED
  BY <1>3, <1>4 DEF Descriptors

(* The accept handler opens and registers one client.                      *)
LEMMA AcceptDescriptors ==
  ASSUME Inv, NEW e \in batch, Accept(e)
  PROVE  Descriptors'
<1>1. PICK fd \in FreeFd(epoll) :
        /\ epoll' = add_socket(open_fd(epoll, fd, Head(backlog)), fd,
                               ClientHandler(fd, Head(backlog)))
        /\ clients' = [clients EXCEPT ![fd] = Head(backlog)]
  BY DEF Accept
<1>2. Head(backlog) \in Clients
  BY HeadTailProperties DEF Accept, Inv, TypeOK, NetworkTypeOK
<1>3. fd \in Fds
  BY DEF FreeFd
<1>4. /\ Head(backlog) \in Peers
      /\ ClientHandler(fd, Head(backlog)) \in Handler
  BY <1>2, <1>3 DEF Peers, Handler, ClientHandler
<1>5. Consistent(epoll, OpenNow, WatchedNow)
  BY RegistryConsistent
<1>6. /\ fd \notin OpenNow
      /\ Consistent(epoll', OpenNow \cup {fd}, WatchedNow \cup {fd})
      /\ epoll'.fdt = [epoll.fdt EXCEPT ![fd] = Head(backlog)]
      /\ epoll'.handlers = [epoll.handlers EXCEPT
                              ![fd] = ClientHandler(fd, Head(backlog))]
  BY <1>1, <1>4, <1>5, OpenAndAdd, SMTT(30)
<1>7. /\ pc = "batch" /\ pc' # "exited"
      /\ UNCHANGED <<con_map, host, signalled>>
  BY DEF Accept, Handles, Visits, Proceed
<1>8. /\ epoll.fdt \in [Fds -> Peers \cup {Listener, None}]
      /\ epoll.handlers \in [Fds -> Handler \cup {None}]
      /\ clients \in [Fds -> Clients \cup {None}]
  BY RegistryFields DEF Inv, TypeOK
<1>9. Head(backlog) # None
  BY <1>2, NoneAssumption
<1>10. (epoll \in Registry /\ RegistryCoherent)'
  <2>1. ClientFds' = ClientFds \cup {fd}
    BY <1>1, <1>3, <1>8, <1>9 DEF ClientFds
  <2>2. BridgeFds' = BridgeFds /\ Listening' = Listening /\ Listened' = Listened
    BY <1>7 DEF BridgeFds, Listening, Listened
  <2>3. OpenNow' = OpenNow \cup {fd} /\ WatchedNow' = WatchedNow \cup {fd}
    BY <2>1, <2>2 DEF OpenNow, WatchedNow
  <2>4. epoll'.fdt[ListenFd] = Listener
    BY <1>6, <1>7, <1>8, FdsAssumption
       DEF Inv, RegistryCoherent, OpenNow, Listening
  <2> QED
    BY <1>6, <2>3, <2>4, CoherentAgain DEF Consistent
<1>11. CapturesValid'
  <2> SUFFICES ASSUME NEW f \in Fds
               PROVE  (ClientCaptured(f) /\ BridgeCaptured(f) /\ HandlerOwned(f))'
    BY DEF CapturesValid
  <2>1. ClientCaptured(f)'
    BY <1>1, <1>3, <1>6, <1>8 DEF Inv, CapturesValid
  <2>2. ASSUME con_map'[f] # None PROVE BridgeCaptured(f)'
    <3>1. con_map[f] # None /\ con_map'[f] = con_map[f]
      BY <1>7, <2>2
    <3>2. f \in ClientFds /\ con_map[f].fd \in BridgeFds
      BY <3>1, OwnersDistinct DEF BridgeFds
    <3>3. f # fd /\ con_map[f].fd # fd /\ con_map[f].fd \in Fds
      BY <1>6, <3>2, OwnersDistinct DEF OpenNow
    <3> QED
      BY <1>1, <1>3, <1>6, <1>7, <1>8, <3>1, <3>3 DEF Inv, CapturesValid
  <2>3. HandlerOwned(f)'
    <3>1. CASE f = fd
      BY <1>1, <1>3, <1>6, <1>8, <1>9, <3>1 DEF ClientHandler
    <3>2. CASE f # fd
      BY <1>1, <1>3, <1>6, <1>7, <1>8, <3>2 DEF Inv, CapturesValid
    <3> QED
      BY <3>1, <3>2
  <2> QED
    BY <2>1, <2>2, <2>3
<1> QED
  BY <1>10, <1>11 DEF Descriptors

(* A bridge takes the place of another or of none; it may well be given    *)
(* the descriptor of the one that goes.                                    *)
LEMMA NewBridgeDescriptors ==
  ASSUME Inv, NEW e \in batch, RequestNewBridge(e)
  PROVE  Descriptors'
<1> DEFINE cfd == e.fd
           c == clients[e.fd]
           D == DropBridge(e.fd)
           want == Wanted(e.fd).host
<1>1. cfd \in Fds /\ c \in Clients /\ cfd \in ClientFds
  BY ClientHandled, NoneAssumption
     DEF RequestNewBridge, RequestDone, ClientReads, ClientFds
<1>2. want \in Hosts
  BY <1>1, WantedType DEF RequestNewBridge, RequestDone, Request, Inv
<1>3. PICK l \in FreshLink, fd \in FreeFd(D) :
        /\ epoll' = add_socket(open_fd(D, fd, l), fd, BridgeHandler(cfd, c))
        /\ con_map' = [con_map EXCEPT ![cfd] = [host |-> want, fd |-> fd]]
        /\ host' = [host EXCEPT ![l] = want]
  BY DEF RequestNewBridge
<1>4. UNCHANGED <<clients, signalled>> /\ pc = "batch" /\ pc' # "exited"
  BY DEF RequestNewBridge, RequestDone, ClientReads, Handles, Visits, Proceed
<1>5. /\ Consistent(D, OpenNow \ BridgeOf(cfd), WatchedNow \ BridgeOf(cfd))
      /\ D.fdt = [f \in Fds |-> IF f \in BridgeOf(cfd) THEN None
                                ELSE epoll.fdt[f]]
      /\ D.handlers = [f \in Fds |-> IF f \in BridgeOf(cfd) THEN None
                                     ELSE epoll.handlers[f]]
  BY <1>1, DropBridgeEffect
<1>6. /\ l \in Links /\ l \in Peers /\ host[l] = None
      /\ BridgeHandler(cfd, c) \in Handler
  BY <1>1 DEF FreshLink, Peers, BridgeHandler, Handler
<1> HIDE DEF D, want, c
<1>7. /\ fd \in Fds /\ fd \notin OpenNow \ BridgeOf(cfd)
      /\ Consistent(epoll', (OpenNow \ BridgeOf(cfd)) \cup {fd},
                            (WatchedNow \ BridgeOf(cfd)) \cup {fd})
      /\ epoll'.fdt = [D.fdt EXCEPT ![fd] = l]
      /\ epoll'.handlers = [D.handlers EXCEPT ![fd] = BridgeHandler(cfd, c)]
  <2> DEFINE open == OpenNow \ BridgeOf(cfd)
             watched == WatchedNow \ BridgeOf(cfd)
  <2>1. Consistent(D, open, watched)
    BY <1>5
  <2> HIDE DEF open, watched
  <2>2. /\ fd \in Fds /\ fd \notin open
        /\ Consistent(epoll', open \cup {fd}, watched \cup {fd})
        /\ epoll'.fdt = [D.fdt EXCEPT ![fd] = l]
        /\ epoll'.handlers = [D.handlers EXCEPT ![fd] = BridgeHandler(cfd, c)]
    BY <1>3, <1>6, <2>1, OpenAndAdd, SMTT(30)
  <2> QED
    BY <2>2 DEF open, watched
<1>8. /\ con_map \in [Fds -> Bridge \cup {None}]
      /\ host \in [Links -> Hosts \cup {None}]
      /\ clients \in [Fds -> Clients \cup {None}]
      /\ [host |-> want, fd |-> fd] # None
  BY <1>2, <1>7, BridgeAssumption DEF Inv, TypeOK, NetworkTypeOK, Bridge
<1>9. /\ cfd \notin BridgeOf(cfd) /\ BridgeOf(cfd) \subseteq BridgeFds
      /\ ClientFds \cap BridgeFds = {} /\ ListenFd \notin BridgeFds
      /\ ListenFd \in OpenNow
  BY <1>1, <1>4, OwnersDistinct
     DEF BridgeOf, BridgeFds, OpenNow, Listening
<1>10. fd # cfd /\ fd # ListenFd
  BY <1>1, <1>7, <1>9 DEF OpenNow
<1>11. (epoll \in Registry /\ RegistryCoherent)'
  <2>1. /\ ClientFds' = ClientFds /\ Listening' = Listening
        /\ Listened' = Listened
    BY <1>4 DEF ClientFds, Listening, Listened
  <2>2. BridgeFds' = (BridgeFds \ BridgeOf(cfd)) \cup {fd}
    BY <1>1, <1>3, <1>8, OwnersDistinct DEF BridgeFds, BridgeOf
  <2>3. /\ OpenNow' = (OpenNow \ BridgeOf(cfd)) \cup {fd}
        /\ WatchedNow' = (WatchedNow \ BridgeOf(cfd)) \cup {fd}
    BY <1>4, <1>9, <2>1, <2>2 DEF OpenNow, WatchedNow, Listening, Listened
  <2>4. epoll'.fdt[ListenFd] = Listener
    BY <1>4, <1>5, <1>7, <1>9, <1>10, FdsAssumption DEF Inv, RegistryCoherent
  <2> QED
    BY <1>7, <2>3, <2>4, CoherentAgain DEF Consistent
<1>12. CapturesValid'
  <2> SUFFICES ASSUME NEW f \in Fds
               PROVE  (ClientCaptured(f) /\ BridgeCaptured(f) /\ HandlerOwned(f))'
    BY DEF CapturesValid
  <2>1. ASSUME clients[f] # None PROVE ClientCaptured(f)'
    <3>1. f \in ClientFds /\ f \notin BridgeOf(cfd) /\ f # fd
      BY <1>7, <1>9, <2>1 DEF ClientFds, OpenNow
    <3> QED
      BY <1>4, <1>5, <1>7, <3>1 DEF Inv, CapturesValid
  <2>2. ASSUME con_map'[f] # None PROVE BridgeCaptured(f)'
    <3>1. CASE f = cfd
      BY <1>1, <1>3, <1>4, <1>5, <1>6, <1>7, <1>8, <3>1, NoneAssumption DEF c
    <3>2. CASE f # cfd
      <4>1. con_map[f] # None /\ con_map'[f] = con_map[f]
        BY <1>3, <1>8, <2>2, <3>2
      <4>2. /\ con_map[f].fd \in BridgeFds /\ con_map[f].fd \in Fds
            /\ con_map[f].fd \notin BridgeOf(cfd)
        BY <1>1, <3>2, <4>1, OwnersDistinct DEF BridgeFds, BridgeOf
      <4>3. con_map[f].fd # fd
        BY <1>7, <4>2 DEF OpenNow
      <4>4. /\ epoll'.fdt[con_map[f].fd] = epoll.fdt[con_map[f].fd]
            /\ epoll'.handlers[con_map[f].fd] = epoll.handlers[con_map[f].fd]
        BY <1>5, <1>7, <4>2, <4>3
      <4>5. /\ epoll.fdt[con_map[f].fd] \in Links
            /\ host[epoll.fdt[con_map[f].fd]] = con_map[f].host
            /\ clients[f] # None
            /\ epoll.handlers[con_map[f].fd] = BridgeHandler(f, clients[f])
        BY <4>1 DEF Inv, CapturesValid
      <4>6. con_map[f].host # None
        BY <1>8, <4>1, NetworkAssumption DEF Bridge
      <4>7. host'[epoll.fdt[con_map[f].fd]] = con_map[f].host
        BY <1>3, <1>6, <1>8, <4>5, <4>6
      <4> QED
        BY <1>4, <4>1, <4>4, <4>5, <4>7 DEF BridgeHandler
    <3> QED
      BY <3>1, <3>2
  <2>3. ASSUME epoll'.handlers[f] # None PROVE HandlerOwned(f)'
    <3>1. CASE f = fd
      BY <1>1, <1>3, <1>5, <1>7, <1>8, <3>1 DEF BridgeHandler
    <3>2. CASE f # fd
      <4>1. epoll'.handlers[f] = epoll.handlers[f] /\ f \notin BridgeOf(cfd)
        BY <1>5, <1>7, <2>3, <3>2
      <4>2. HandlerOwned(f)
        BY DEF Inv, CapturesValid
      <4>3. ASSUME epoll.handlers[f].kind = "bridge"
            PROVE  epoll.handlers[f].connection # cfd
        BY <2>3, <4>1, <4>2, <4>3 DEF BridgeOf
      <4> QED
        BY <1>3, <1>4, <1>8, <4>1, <4>2, <4>3
    <3> QED
      BY <3>1, <3>2
  <2> QED
    BY <1>4, <2>1, <2>2, <2>3
<1> QED
  BY <1>11, <1>12 DEF Descriptors

(* The descriptors `gone`, of client cfd's bridge or of both, are dropped. *)
LEMMA DropDescriptors ==
  ASSUME Inv, pc = "batch", pc' # "exited", UNCHANGED <<host, signalled>>,
         NEW cfd \in ClientFds,
         NEW gone \in {BridgeOf(cfd), BridgeOf(cfd) \cup {cfd}},
         Consistent(epoll', OpenNow \ gone, WatchedNow \ gone),
         epoll'.fdt = [fd \in Fds |-> IF fd \in gone THEN None ELSE epoll.fdt[fd]],
         epoll'.handlers = [fd \in Fds |-> IF fd \in gone THEN None
                                           ELSE epoll.handlers[fd]],
         con_map' = [con_map EXCEPT ![cfd] = None],
         clients' = IF cfd \in gone THEN [clients EXCEPT ![cfd] = None] ELSE clients
  PROVE  Descriptors'
<1>1. /\ con_map \in [Fds -> Bridge \cup {None}]
      /\ clients \in [Fds -> Clients \cup {None}]
      /\ cfd \in Fds
  BY DEF Inv, TypeOK, ClientFds
<1>2. /\ BridgeOf(cfd) \subseteq BridgeFds /\ cfd \notin BridgeOf(cfd)
      /\ ClientFds \cap BridgeFds = {}
      /\ ListenFd \notin ClientFds \cup BridgeFds
  BY <1>1, OwnersDistinct DEF BridgeOf, BridgeFds
<1>3. ListenFd \notin gone
  BY <1>2
<1>4. (epoll \in Registry /\ RegistryCoherent)'
  <2>1. ClientFds' = ClientFds \ gone
    BY <1>1, <1>2 DEF ClientFds
  <2>2. BridgeFds' = BridgeFds \ BridgeOf(cfd)
    BY <1>1, OwnersDistinct DEF BridgeFds, BridgeOf
  <2>3. BridgeFds' = BridgeFds \ gone
    BY <1>2, <2>2
  <2>4. Listening' = Listening \ gone /\ Listened' = Listened \ gone
    BY <1>3 DEF Listening, Listened
  <2>5. OpenNow' = OpenNow \ gone /\ WatchedNow' = WatchedNow \ gone
    BY <2>1, <2>3, <2>4 DEF OpenNow, WatchedNow
  <2>6. epoll'.fdt[ListenFd] = Listener
    BY <1>3, FdsAssumption DEF Inv, RegistryCoherent
  <2> QED
    BY <2>5, <2>6, CoherentAgain DEF Consistent
<1>5. CapturesValid'
  <2> SUFFICES ASSUME NEW f \in Fds
               PROVE  (ClientCaptured(f) /\ BridgeCaptured(f) /\ HandlerOwned(f))'
    BY DEF CapturesValid
  <2>1. ASSUME clients'[f] # None PROVE ClientCaptured(f)'
    <3>1. clients[f] # None /\ clients'[f] = clients[f] /\ f \notin gone
      BY <1>1, <1>2, <2>1 DEF ClientFds
    <3> QED
      BY <3>1 DEF Inv, CapturesValid
  <2>2. ASSUME con_map'[f] # None PROVE BridgeCaptured(f)'
    <3>1. con_map[f] # None /\ con_map'[f] = con_map[f] /\ f # cfd
      BY <1>1, <2>2
    <3>2. /\ f \in ClientFds /\ con_map[f].fd \in Fds
          /\ con_map[f].fd \in BridgeFds \ BridgeOf(cfd)
      BY <1>1, <3>1, OwnersDistinct DEF BridgeFds, BridgeOf
    <3>3. con_map[f].fd \notin gone /\ clients'[f] = clients[f]
      BY <1>1, <1>2, <3>1, <3>2
    <3>4. BridgeCaptured(f)
      BY DEF Inv, CapturesValid
    <3> QED
      BY <3>1, <3>2, <3>3, <3>4 DEF BridgeHandler
  <2>3. ASSUME epoll'.handlers[f] # None PROVE HandlerOwned(f)'
    <3>1. f \notin gone /\ epoll'.handlers[f] = epoll.handlers[f]
      BY <2>3
    <3>2. HandlerOwned(f)
      BY DEF Inv, CapturesValid
    <3>3. ASSUME epoll.handlers[f].kind = "bridge"
          PROVE  epoll.handlers[f].connection # cfd
      BY <2>3, <3>1, <3>2, <3>3 DEF BridgeOf
    <3>4. f # cfd => clients'[f] = clients[f]
      BY <1>1
    <3> QED
      BY <1>1, <3>1, <3>2, <3>3, <3>4
  <2> QED
    BY <2>1, <2>2, <2>3
<1> QED
  BY <1>4, <1>5 DEF Descriptors

(* A bridge that could not be made leaves the client without one.          *)
LEMMA RefusedDescriptors ==
  ASSUME Inv, NEW e \in batch, RequestRefused(e)
  PROVE  Descriptors'
<1>1. e.fd \in Fds /\ e.fd \in ClientFds /\ e.fd \notin BridgeOf(e.fd)
  BY ClientHandled, NoneAssumption, OwnersDistinct
     DEF RequestRefused, RequestDone, ClientReads, ClientFds, BridgeOf, BridgeFds
<1>2. /\ epoll' = DropBridge(e.fd) /\ con_map' = [con_map EXCEPT ![e.fd] = None]
      /\ UNCHANGED <<clients, host, signalled>>
      /\ pc = "batch" /\ pc' # "exited"
  BY DEF RequestRefused, RequestDone, ClientReads, Handles, Visits, Proceed
<1> QED
  BY <1>1, <1>2, DropBridgeEffect, DropDescriptors

(* The hang-up of a client takes it and its bridge away.                   *)
LEMMA ClientHupDescriptors ==
  ASSUME Inv, NEW e \in batch, ClientHup(e)
  PROVE  Descriptors'
<1> DEFINE gone == BridgeOf(e.fd) \cup {e.fd}
           E == DropClient(e.fd)
<1>1. e.fd \in Fds /\ e.fd \in ClientFds
  BY ClientHandled, NoneAssumption DEF ClientHup, ClientFds
<1>2. /\ epoll' = remove_socket(E, e.fd)
      /\ con_map' = [con_map EXCEPT ![e.fd] = None]
      /\ clients' = [clients EXCEPT ![e.fd] = None]
      /\ UNCHANGED <<host, signalled>> /\ pc = "batch" /\ pc' # "exited"
  BY DEF ClientHup, Handles, Visits, Proceed
<1>3. /\ Consistent(E, OpenNow \ gone, WatchedNow \ gone)
      /\ E.fdt = [fd \in Fds |-> IF fd \in gone THEN None ELSE epoll.fdt[fd]]
      /\ E.handlers = [fd \in Fds |-> IF fd \in gone THEN None
                                      ELSE epoll.handlers[fd]]
  BY <1>1, DropClientEffect
<1>4. epoll' = E
  BY <1>1, <1>2, <1>3, RemoveAbsent
<1> HIDE DEF E
<1> QED
  BY <1>1, <1>2, <1>3, <1>4, DropDescriptors

(* The hang-up of an origin takes the bridge and its client away.          *)
LEMMA BridgeHupDescriptors ==
  ASSUME Inv, NEW e \in batch, BridgeHup(e)
  PROVE  Descriptors'
<1>1. PICK cfd \in Fds : cfd = epoll.handlers[e.fd].connection
  BY BridgeHandled DEF BridgeHup
<1> DEFINE gone == BridgeOf(cfd) \cup {cfd}
           E == DropClient(cfd)
<1>2. cfd \in ClientFds /\ e.fd \in BridgeOf(cfd) /\ e.fd \in Fds
  BY <1>1, BridgeHandled, NoneAssumption, BridgeAssumption
     DEF BridgeHup, ClientFds, BridgeOf
<1>3. /\ epoll' = remove_socket(E, e.fd)
      /\ con_map' = [con_map EXCEPT ![cfd] = None]
      /\ clients' = [clients EXCEPT ![cfd] = None]
      /\ UNCHANGED <<host, signalled>> /\ pc = "batch" /\ pc' # "exited"
  BY <1>1 DEF BridgeHup, Handles, Visits, Proceed
<1>4. /\ Consistent(E, OpenNow \ gone, WatchedNow \ gone)
      /\ E.fdt = [fd \in Fds |-> IF fd \in gone THEN None ELSE epoll.fdt[fd]]
      /\ E.handlers = [fd \in Fds |-> IF fd \in gone THEN None
                                      ELSE epoll.handlers[fd]]
  BY <1>2, DropClientEffect
<1>5. epoll' = E
  BY <1>2, <1>3, <1>4, RemoveAbsent
<1> HIDE DEF E
<1> QED
  BY <1>2, <1>3, <1>4, <1>5, DropDescriptors

(* SIGINT takes the server socket out of the epoll set, and only that.     *)
LEMMA SigIntDescriptors ==
  ASSUME Inv, SigInt
  PROVE  Descriptors'
<1>1. /\ epoll' = remove_socket(epoll, ListenFd)
      /\ "INT" \notin signalled /\ signalled' = signalled \cup {"INT"}
      /\ UNCHANGED <<clients, con_map, host>>
      /\ pc # "exited" /\ pc' # "exited"
  BY DEF SigInt, Interrupt, Halted
<1>2. Consistent(epoll, OpenNow, WatchedNow) /\ ListenFd \in WatchedNow
  BY <1>1, RegistryConsistent DEF WatchedNow, Listened, Listening
<1>3. /\ Consistent(epoll', OpenNow, WatchedNow \ {ListenFd})
      /\ epoll'.fdt = epoll.fdt
      /\ epoll'.handlers = [epoll.handlers EXCEPT ![ListenFd] = None]
  BY <1>1, <1>2, RemoveWatched, FdsAssumption
<1>4. ListenFd \notin ClientFds \cup BridgeFds
  BY <1>1, OwnersDistinct
<1>5. (epoll \in Registry /\ RegistryCoherent)'
  <2>1. OpenNow' = OpenNow
    BY <1>1 DEF OpenNow, Listening, ClientFds, BridgeFds
  <2>2. WatchedNow' = WatchedNow \ {ListenFd}
    BY <1>1, <1>4 DEF WatchedNow, Listened, Listening, ClientFds, BridgeFds
  <2>3. epoll'.fdt[ListenFd] = Listener
    BY <1>1, <1>3 DEF Inv, RegistryCoherent
  <2> QED
    BY <1>3, <2>1, <2>2, <2>3, CoherentAgain DEF Consistent
<1>6. CapturesValid'
  <2> SUFFICES ASSUME NEW f \in Fds
               PROVE  (ClientCaptured(f) /\ BridgeCaptured(f) /\ HandlerOwned(f))'
    BY DEF CapturesValid
  <2>1. /\ clients[f] # None => f # ListenFd
        /\ con_map[f] # None => con_map[f].fd # ListenFd /\ con_map[f].fd \in Fds
    BY <1>4, OwnersDistinct DEF ClientFds, BridgeFds
  <2>2. ClientCaptured(f) /\ BridgeCaptured(f) /\ HandlerOwned(f)
    BY DEF Inv, CapturesValid
  <2>3. epoll.handlers \in [Fds -> Handler \cup {None}]
    BY RegistryFields DEF Inv, TypeOK
  <2>4. ClientCaptured(f)'
    BY <1>1, <1>3, <2>1, <2>2, <2>3 DEF ClientHandler
  <2>5. BridgeCaptured(f)'
    BY <1>1, <1>3, <2>1, <2>2, <2>3 DEF BridgeHandler
  <2>6. HandlerOwned(f)'
    BY <1>1, <1>3, <2>1, <2>2, <2>3
  <2> QED
    BY <2>4, <2>5, <2>6
<1> QED
  BY <1>5, <1>6 DEF Descriptors

(* The destructors close everything.                                       *)
LEMMA ExitDescriptors ==
  ASSUME Inv, Exit
  PROVE  Descriptors'
<1>1. /\ epoll' = EmptyRegistry /\ pc' = "exited"
      /\ clients' = [fd \in Fds |-> None] /\ con_map' = [fd \in Fds |-> None]
  BY DEF Exit
<1>2. OpenNow' = {} /\ WatchedNow' = {}
  BY <1>1 DEF OpenNow, WatchedNow, Listening, Listened, ClientFds, BridgeFds
<1>3. EmptyRegistry \in Registry
  BY DEF EmptyRegistry, Registry
<1>4. OpenFds(epoll') = {} /\ Watches(epoll', {})
  BY <1>1 DEF EmptyRegistry, OpenFds, Watches
<1>5. RegistryCoherent'
  BY <1>1, <1>2, <1>4 DEF RegistryCoherent, OpenNow, WatchedNow
<1>6. CapturesValid'
  BY <1>1 DEF CapturesValid, EmptyRegistry
<1> QED
  BY <1>1, <1>3, <1>5, <1>6 DEF Descriptors

-----------------------------------------------------------------------------
(* The rest of the type invariant and AskedOnce are kept by the loop and   *)
(* by the signals.                                                         *)

(* Everything that TypeOK says of the process but the registry.            *)
ProcessTypeOK ==
  /\ clients     \in [Fds -> Clients \cup {None}]
  /\ request_map \in [Fds -> Seq(Piece)]
  /\ con_map     \in [Fds -> Bridge \cup {None}]
  /\ response    \in [Fds -> Seq(Piece)]
  /\ batch       \in SUBSET Event
  /\ pc          \in {"boot", "top", "prep", "wait", "batch"} \cup Halted
  /\ running     \in BOOLEAN
  /\ signalled   \in SUBSET Signals

Types == NetworkTypeOK /\ AskedOnce /\ ProcessTypeOK

(* Inv in two halves: the types, and the descriptors.                      *)
LEMMA InvParts ==
  /\ Inv <=> Types /\ Descriptors
  /\ Types' /\ Descriptors' => Inv'
BY DEF Inv, TypeOK, Types, ProcessTypeOK, AskedOnce, Descriptors

(* The steps of the loop that call no handler keep the types.              *)
LEMMA LoopControlType ==
  ASSUME Inv, Start \/ LoopTest \/ Exit \/ EnterWait \/ EpollWait
  PROVE  Types'
<1>1. Types
  BY InvParts
<1>2. CASE Start \/ LoopTest \/ EnterWait
  BY <1>1, <1>2 DEF Start, LoopTest, EnterWait, Types, NetworkTypeOK, AskedOnce,
                    ProcessTypeOK
<1>3. CASE Exit
  BY <1>1, <1>3, EmptySeq DEF Exit, Halted, Types, NetworkTypeOK, AskedOnce,
                              ProcessTypeOK
<1>4. CASE EpollWait
  BY <1>1, <1>4, ReadyEventsType DEF EpollWait, Types, NetworkTypeOK, AskedOnce,
                                     ProcessTypeOK
<1> QED
  BY <1>2, <1>3, <1>4

(* And so does the signal handler.                                         *)
LEMMA SignalType ==
  ASSUME Inv, SigTerm \/ SigInt
  PROVE  Types'
<1>1. Types
  BY InvParts
<1> QED
  BY <1>1 DEF SigTerm, SigInt, Interrupt, Types, NetworkTypeOK, AskedOnce,
              ProcessTypeOK

(* The types after the accept handler and after an ignored event.          *)
LEMMA AcceptType ==
  ASSUME Inv, NEW e \in batch, Ignore(e) \/ Accept(e) \/ AcceptFails(e)
  PROVE  Types'
<1>1. Types /\ TypeOK
  BY InvParts DEF Inv
<1>2. CASE Ignore(e)
  <2>1. batch' \in SUBSET Event
        /\ pc' \in {"boot", "top", "prep", "wait", "batch"} \cup Halted
    BY <1>1, <1>2, ProceedType DEF Ignore
  <2> QED
    BY <1>1, <1>2, <2>1 DEF Ignore, Types, NetworkTypeOK, AskedOnce, ProcessTypeOK
<1>3. CASE AcceptFails(e)
  <2>1. batch' \in SUBSET Event
        /\ pc' \in {"boot", "top", "prep", "wait", "batch"} \cup Halted
    BY <1>1, <1>3, ProceedType DEF AcceptFails, Halted
  <2> QED
    BY <1>1, <1>3, <2>1 DEF AcceptFails, Types, NetworkTypeOK, AskedOnce,
                            ProcessTypeOK
<1>4. CASE Accept(e)
  <2>1. batch' \in SUBSET Event
        /\ pc' \in {"boot", "top", "prep", "wait", "batch"} \cup Halted
    BY <1>1, <1>4, ProceedType DEF Accept
  <2>2. Head(backlog) \in Clients /\ Tail(backlog) \in Seq(Clients)
    BY <1>1, <1>4, HeadTailProperties DEF Accept, Types, NetworkTypeOK
  <2>3. /\ clients' \in [Fds -> Clients \cup {None}]
        /\ request_map' \in [Fds -> Seq(Piece)]
    <3>1. PICK fd \in Fds :
            /\ clients' = [clients EXCEPT ![fd] = Head(backlog)]
            /\ request_map' = [request_map EXCEPT ![fd] = <<>>]
      BY <1>4 DEF Accept, FreeFd
    <3> QED
      BY <1>1, <2>2, <3>1, EmptySeq DEF Types, ProcessTypeOK
  <2> QED
    BY <1>1, <1>4, <2>1, <2>2, <2>3 DEF Accept, Types, NetworkTypeOK, AskedOnce,
                                        ProcessTypeOK
<1> QED
  BY <1>2, <1>3, <1>4

(* The types after the handlers of a request.                              *)
LEMMA RequestType ==
  ASSUME Inv, NEW e \in batch,
         \/ RequestThrows(e) \/ RequestPart(e) \/ RequestOnBridge(e)
         \/ RequestNewBridge(e) \/ RequestRefused(e)
  PROVE  Types'
<1> DEFINE PC == {"boot", "top", "prep", "wait", "batch"} \cup Halted
<1>1. Types /\ TypeOK /\ NetworkTypeOK
  BY InvParts DEF Inv, Types
<1>2. e.fd \in Fds /\ clients[e.fd] \in Clients
  BY ClientHandled DEF RequestThrows, RequestPart, RequestOnBridge,
       RequestNewBridge, RequestRefused, RequestDone, ClientReads
<1>3. Income(e.fd) \in Seq(Piece)
  BY <1>1, <1>2, IncomeType
<1>4. IsComplete(Income(e.fd)) => Wanted(e.fd) \in Request
  BY <1>1, <1>2, WantedType
<1>5. CASE RequestThrows(e)
  <2>1. batch' \in SUBSET Event /\ pc' \in PC
    BY <1>1, <1>5, ProceedType DEF RequestThrows, Halted
  <2> QED
    BY <1>1, <1>5, <2>1 DEF RequestThrows, Types, NetworkTypeOK, AskedOnce,
                            ProcessTypeOK
<1>6. CASE RequestPart(e)
  <2>1. batch' \in SUBSET Event /\ pc' \in PC
    BY <1>1, <1>6, ProceedType DEF RequestPart
  <2>2. rx' \in [Peers -> Seq(Piece)]
    BY <1>1, <1>6, DrainType DEF RequestPart
  <2>3. request_map' \in [Fds -> Seq(Piece)]
    BY <1>1, <1>3, <1>6 DEF RequestPart, Types, ProcessTypeOK
  <2> QED
    BY <1>1, <1>6, <2>1, <2>2, <2>3 DEF RequestPart, Types, NetworkTypeOK,
                                        AskedOnce, ProcessTypeOK
<1>7. ASSUME RequestDone(e)
      PROVE  request_map' \in [Fds -> Seq(Piece)]
  BY <1>1, <1>7, EmptySeq DEF RequestDone, Types, ProcessTypeOK
<1>8. CASE RequestOnBridge(e)
  <2>1. PICK l \in Links : l = epoll.fdt[con_map[e.fd].fd]
    BY <1>2, <1>8 DEF RequestOnBridge, SameHost, Inv, CapturesValid
  <2>2. WriteEnd(l) \in Halted \cup {"ok"} /\ Proceed(e, WriteEnd(l))
    BY <1>8, <2>1 DEF RequestOnBridge, WriteEnd, Halted
  <2>3. batch' \in SUBSET Event /\ pc' \in PC
    BY <1>1, <2>2, ProceedType
  <2>4. rx' \in [Peers -> Seq(Piece)]
    BY <1>1, <1>8, DrainType DEF RequestOnBridge
  <2>5. far' \in [Peers -> Far]
    BY <1>1, <1>8, <2>1, FarAfterWriteType DEF RequestOnBridge, Peers
  <2>6. Append(inbox[l], Wanted(e.fd)) \in Seq(Request)
    BY <1>1, <1>4, <1>8, AppendProperties
       DEF RequestOnBridge, RequestDone, NetworkTypeOK
  <2>7. inbox' \in [Links -> Seq(Request)]
    BY <1>1, <1>8, <2>1, <2>6 DEF RequestOnBridge, NetworkTypeOK
  <2>8. request_map' \in [Fds -> Seq(Piece)]
    BY <1>7, <1>8 DEF RequestOnBridge
  <2> QED
    BY <1>1, <1>8, <2>3, <2>4, <2>5, <2>7, <2>8
       DEF RequestOnBridge, Types, NetworkTypeOK, AskedOnce, ProcessTypeOK
<1>9. CASE RequestNewBridge(e)
  <2>1. batch' \in SUBSET Event /\ pc' \in PC
    BY <1>1, <1>9, ProceedType DEF RequestNewBridge
  <2>2. rx' \in [Peers -> Seq(Piece)]
    BY <1>1, <1>9, DrainType DEF RequestNewBridge
  <2>3. Wanted(e.fd) \in Request /\ Wanted(e.fd).host \in Hosts
    BY <1>4, <1>9 DEF RequestNewBridge, RequestDone, Request
  <2>4. PICK l \in FreshLink, fd \in FreeFd(DropBridge(e.fd)) :
          /\ con_map' = [con_map EXCEPT
                          ![e.fd] = [host |-> Wanted(e.fd).host, fd |-> fd]]
          /\ response' = [DropResponse(e.fd) EXCEPT ![fd] = <<>>]
          /\ far' = [far EXCEPT ![l] = "open"]
          /\ host' = [host EXCEPT ![l] = Wanted(e.fd).host]
          /\ inbox' = [inbox EXCEPT ![l] = <<Wanted(e.fd)>>]
    BY <1>9 DEF RequestNewBridge
  <2>5. l \in Links /\ fd \in Fds
    BY DEF FreshLink, FreeFd
  <2>6. con_map' \in [Fds -> Bridge \cup {None}]
    BY <1>1, <2>3, <2>4, <2>5 DEF Types, ProcessTypeOK, Bridge
  <2>7. response' \in [Fds -> Seq(Piece)]
    BY <1>1, <1>2, <2>4, DropResponseType, EmptySeq
  <2>8. <<Wanted(e.fd)>> \in Seq(Request)
    BY <2>3
  <2>9. /\ far' \in [Peers -> Far] /\ host' \in [Links -> Hosts \cup {None}]
        /\ inbox' \in [Links -> Seq(Request)]
    BY <1>1, <2>3, <2>4, <2>5, <2>8 DEF NetworkTypeOK, Far
  <2>10. request_map' \in [Fds -> Seq(Piece)]
    BY <1>7, <1>9 DEF RequestNewBridge
  <2> QED
    BY <1>1, <1>9, <2>1, <2>2, <2>6, <2>7, <2>9, <2>10
       DEF RequestNewBridge, Types, NetworkTypeOK, AskedOnce, ProcessTypeOK
<1>10. CASE RequestRefused(e)
  <2>1. batch' \in SUBSET Event /\ pc' \in PC
    BY <1>1, <1>10, ProceedType DEF RequestRefused
  <2>2. rx' \in [Peers -> Seq(Piece)]
    BY <1>1, <1>10, DrainType DEF RequestRefused
  <2>3. con_map' \in [Fds -> Bridge \cup {None}]
    BY <1>1, <1>10 DEF RequestRefused, Types, ProcessTypeOK
  <2>4. response' \in [Fds -> Seq(Piece)]
    BY <1>1, <1>2, <1>10, DropResponseType DEF RequestRefused
  <2>5. request_map' \in [Fds -> Seq(Piece)]
    BY <1>7, <1>10 DEF RequestRefused
  <2> QED
    BY <1>1, <1>10, <2>1, <2>2, <2>3, <2>4, <2>5
       DEF RequestRefused, Types, NetworkTypeOK, AskedOnce, ProcessTypeOK
<1> QED
  BY <1>5, <1>6, <1>8, <1>9, <1>10

(* The types after the handlers of a response.                             *)
LEMMA ResponseType ==
  ASSUME Inv, NEW e \in batch,
         ResponseThrows(e) \/ ResponsePart(e) \/ ResponseDone(e)
  PROVE  Types'
<1> DEFINE PC == {"boot", "top", "prep", "wait", "batch"} \cup Halted
<1>1. Types /\ TypeOK /\ NetworkTypeOK
  BY InvParts DEF Inv, Types
<1>2. PICK cfd \in Fds :
        /\ cfd = epoll.handlers[e.fd].connection /\ clients[cfd] \in Clients
        /\ e.fd \in Fds /\ epoll.fdt[e.fd] \in Links
  BY BridgeHandled DEF ResponseThrows, ResponsePart, ResponseDone, BridgeReads
<1>3. Download(e.fd) \in Seq(Piece)
  BY <1>1, <1>2, DownloadType
<1>4. rx' \in [Peers -> Seq(Piece)]
  BY <1>1, DrainType DEF ResponseThrows, ResponsePart, ResponseDone
<1>5. response' \in [Fds -> Seq(Piece)]
  <2>1. response \in [Fds -> Seq(Piece)] /\ <<>> \in Seq(Piece)
    BY <1>1, EmptySeq DEF Types, ProcessTypeOK
  <2>2. \/ response' = [response EXCEPT ![e.fd] = <<>>]
        \/ response' = [response EXCEPT ![e.fd] = Download(e.fd)]
    BY DEF ResponseThrows, ResponsePart, ResponseDone
  <2> QED
    BY <1>3, <2>1, <2>2
<1>6. CASE ResponseThrows(e) \/ ResponsePart(e)
  <2>1. batch' \in SUBSET Event /\ pc' \in PC
    BY <1>1, <1>6, ProceedType DEF ResponseThrows, ResponsePart
  <2> QED
    BY <1>1, <1>4, <1>5, <1>6, <2>1
       DEF ResponseThrows, ResponsePart, Types, NetworkTypeOK, AskedOnce,
           ProcessTypeOK
<1>7. CASE ResponseDone(e)
  <2>1. PICK c \in Clients : c = clients[cfd]
    BY <1>2
  <2>2. PICK i \in 1..Len(Download(e.fd)) : Deliver(c, Download(e.fd)[i])
    BY <1>2, <1>7, <2>1 DEF ResponseDone
  <2>3. PICK piece \in Piece : piece = Download(e.fd)[i]
    BY <1>3, ElementOfSeq
  <2>4. WriteEnd(c) \in Halted \cup {"ok"} /\ Proceed(e, WriteEnd(c))
    BY <1>2, <1>7, <2>1 DEF ResponseDone, WriteEnd, Halted
  <2>5. batch' \in SUBSET Event /\ pc' \in PC
    BY <1>1, <2>4, ProceedType
  <2>6. far' \in [Peers -> Far]
    BY <1>1, <2>2, FarAfterWriteType DEF Deliver, Peers
  <2>7. Append(got[c], piece) \in Seq(Piece)
    BY <1>1, AppendProperties DEF NetworkTypeOK
  <2>8. got' \in [Clients -> Seq(Piece)]
    BY <1>1, <2>2, <2>3, <2>7 DEF Deliver, NetworkTypeOK
  <2>9. /\ turn' \in [Clients -> {"idle", "sending", "waiting"}]
        /\ \A d \in Clients : turn'[d] # "idle" => turn[d] # "idle"
    BY <1>1, <2>2, <2>3 DEF Deliver, NetworkTypeOK
  <2> QED
    BY <1>1, <1>4, <1>5, <1>7, <2>5, <2>6, <2>8, <2>9
       DEF ResponseDone, Types, NetworkTypeOK, AskedOnce, ProcessTypeOK
<1> QED
  BY <1>6, <1>7

(* The types after a hang-up.                                              *)
LEMMA HupType ==
  ASSUME Inv, NEW e \in batch, ClientHup(e) \/ BridgeHup(e)
  PROVE  Types'
<1> DEFINE PC == {"boot", "top", "prep", "wait", "batch"} \cup Halted
<1>1. Types /\ TypeOK /\ NetworkTypeOK
  BY InvParts DEF Inv, Types
<1>2. rx' \in [Peers -> Seq(Piece)]
  BY <1>1, DrainType DEF ClientHup, BridgeHup
<1>3. batch' \in SUBSET Event /\ pc' \in PC
  BY <1>1, ProceedType DEF ClientHup, BridgeHup
<1>4. CASE ClientHup(e)
  <2>1. e.fd \in Fds
    BY <1>4, ClientHandled DEF ClientHup
  <2>2. response' \in [Fds -> Seq(Piece)]
    BY <1>1, <1>4, <2>1, DropResponseType DEF ClientHup
  <2>3. /\ clients' \in [Fds -> Clients \cup {None}]
        /\ con_map' \in [Fds -> Bridge \cup {None}]
        /\ request_map' \in [Fds -> Seq(Piece)]
    BY <1>1, <1>4, EmptySeq DEF ClientHup, Types, ProcessTypeOK
  <2> QED
    BY <1>1, <1>2, <1>3, <1>4, <2>2, <2>3
       DEF ClientHup, Types, NetworkTypeOK, AskedOnce, ProcessTypeOK
<1>5. CASE BridgeHup(e)
  <2>1. PICK cfd : cfd = epoll.handlers[e.fd].connection
    OBVIOUS
  <2>2. /\ clients' \in [Fds -> Clients \cup {None}]
        /\ con_map' \in [Fds -> Bridge \cup {None}]
        /\ response' \in [Fds -> Seq(Piece)]
    BY <1>1, <1>5, <2>1, EmptySeq DEF BridgeHup, Types, ProcessTypeOK
  <2> QED
    BY <1>1, <1>2, <1>3, <1>5, <2>2
       DEF BridgeHup, Types, NetworkTypeOK, AskedOnce, ProcessTypeOK
<1> QED
  BY <1>4, <1>5

-----------------------------------------------------------------------------
(* Inv is inductive.                                                       *)

(* The invariant holds when main calls start().                            *)
LEMMA InitInv == Init => Inv
<1> SUFFICES ASSUME Init PROVE Inv
  OBVIOUS
<1>1. NetworkTypeOK /\ AskedOnce
  BY EmptySeq DEF Init, NetworkInit, NetworkTypeOK, AskedOnce, Far
<1>2. ProcessTypeOK
  BY EmptySeq DEF Init, ProcessTypeOK
<1>3. ListenFd \in Fds /\ Listener # None
  BY FdsAssumption, NoneAssumption
<1>4. AcceptHandler \in Handler /\ AcceptHandler # None
  BY <1>3, NoneAssumption DEF AcceptHandler, Handler
<1>5. /\ epoll.fdt = [fd \in Fds |-> IF fd = ListenFd THEN Listener ELSE None]
      /\ epoll.handlers = [fd \in Fds |-> IF fd = ListenFd THEN AcceptHandler
                                          ELSE None]
      /\ Consistent(epoll, {ListenFd}, {ListenFd})
  <2>1. epoll = add_socket(open_fd(EmptyRegistry, ListenFd, Listener),
                           ListenFd, AcceptHandler)
    BY DEF Init
  <2> QED
    BY <1>4, <2>1, ListenAndAdd
<1>6. ClientFds = {} /\ BridgeFds = {} /\ Listened = {ListenFd}
      /\ Listening = {ListenFd}
  BY DEF Init, ClientFds, BridgeFds, Listened, Listening
<1>7. RegistryCoherent
  BY <1>3, <1>5, <1>6 DEF RegistryCoherent, Consistent
<1>8. CapturesValid
  <2> SUFFICES ASSUME NEW fd \in Fds
               PROVE  ClientCaptured(fd) /\ BridgeCaptured(fd) /\ HandlerOwned(fd)
    BY DEF CapturesValid
  <2>1. clients[fd] = None /\ con_map[fd] = None
    BY DEF Init
  <2>2. epoll.handlers[fd] # None => fd = ListenFd
    BY <1>5
  <2>3. epoll.handlers[ListenFd].kind = "accept"
    BY <1>3, <1>5 DEF AcceptHandler
  <2> QED
    BY <2>1, <2>2, <2>3
<1> QED
  BY <1>1, <1>2, <1>5, <1>7, <1>8, InvParts DEF Types, Descriptors, Consistent

(* Every step keeps the invariant: one case for each action.               *)
LEMMA NextInv == Inv /\ [Next]_vars => Inv'
<1> SUFFICES ASSUME Inv, [Next]_vars PROVE Types' /\ Descriptors'
  BY InvParts
<1>1. Types
  BY InvParts
<1>2. ASSUME NEW e \in batch, Visit(e)
      PROVE  Types' /\ Descriptors'
  <2>1. CASE Accept(e)
    BY <2>1, AcceptType, AcceptDescriptors
  <2>2. CASE RequestNewBridge(e)
    BY <2>2, RequestType, NewBridgeDescriptors
  <2>3. CASE RequestRefused(e)
    BY <2>3, RequestType, RefusedDescriptors
  <2>4. CASE ClientHup(e)
    BY <2>4, HupType, ClientHupDescriptors
  <2>5. CASE BridgeHup(e)
    BY <2>5, HupType, BridgeHupDescriptors
  <2>6. CASE Ignore(e) \/ AcceptFails(e)
    <3>1. UNCHANGED <<epoll, clients, con_map, host, signalled>>
      BY <2>6 DEF Ignore, AcceptFails
    <3>2. pc = "batch" /\ pc' # "exited"
      BY <2>6 DEF Ignore, AcceptFails, Handles, Visits, Proceed
    <3> QED
      BY <2>6, <3>1, <3>2, AcceptType, DescriptorsUntouched
  <2>7. CASE RequestThrows(e) \/ RequestPart(e) \/ RequestOnBridge(e)
    <3>1. UNCHANGED <<epoll, clients, con_map, host, signalled>>
      BY <2>7 DEF RequestThrows, RequestPart, RequestOnBridge
    <3>2. pc = "batch" /\ pc' # "exited"
      BY <2>7 DEF RequestThrows, RequestPart, RequestOnBridge, RequestDone,
                  ClientReads, Handles, Visits, Proceed, WriteEnd
    <3> QED
      BY <2>7, <3>1, <3>2, RequestType, DescriptorsUntouched
  <2>8. CASE ResponseThrows(e) \/ ResponsePart(e) \/ ResponseDone(e)
    <3>1. UNCHANGED <<epoll, clients, con_map, host, signalled>>
      BY <2>8 DEF ResponseThrows, ResponsePart, ResponseDone
    <3>2. pc = "batch" /\ pc' # "exited"
      BY <2>8 DEF ResponseThrows, ResponsePart, ResponseDone, BridgeReads,
                  Handles, Visits, Proceed, WriteEnd
    <3> QED
      BY <2>8, <3>1, <3>2, ResponseType, DescriptorsUntouched
  <2> QED
    BY <1>2, <2>1, <2>2, <2>3, <2>4, <2>5, <2>6, <2>7, <2>8 DEF Visit
<1>3. CASE Exit
  BY <1>3, LoopControlType, ExitDescriptors
<1>4. CASE Start \/ LoopTest \/ EnterWait \/ EpollWait
  <2>1. UNCHANGED <<epoll, clients, con_map, host, signalled>>
        /\ pc # "exited" /\ pc' # "exited"
    BY <1>4 DEF Start, LoopTest, EnterWait, EpollWait
  <2> QED
    BY <1>4, <2>1, LoopControlType, DescriptorsUntouched
<1>5. CASE SigInt
  BY <1>5, SignalType, SigIntDescriptors
<1>6. CASE SigTerm
  <2>1. UNCHANGED <<epoll, clients, con_map, host>>
        /\ pc # "exited" /\ pc' # "exited"
    BY <1>6 DEF SigTerm, Interrupt, Halted
  <2>2. signalled' = signalled \cup {"TERM"}
    BY <1>6 DEF SigTerm, Interrupt
  <2>3. Listened' = Listened /\ Listening' = Listening
        /\ ClientFds' = ClientFds /\ BridgeFds' = BridgeFds
    BY <2>1, <2>2 DEF Listened, Listening, ClientFds, BridgeFds
  <2>4. Descriptors'
    BY <2>1, <2>3 DEF Inv, TypeOK, Descriptors, RegistryCoherent, OpenFds,
                      Watches, CapturesValid
  <2> QED
    BY <1>6, <2>4, SignalType
<1>7. CASE Environment
  <2>1. NetworkTypeOK' /\ AskedOnce'
    BY <1>1, <1>7, ClientStepType, OriginStepType DEF Environment, Types
  <2>2. ProcessTypeOK'
    BY <1>1, <1>7 DEF Environment, Types, ProcessTypeOK
  <2>3. UNCHANGED <<host, epoll, clients, con_map, signalled, pc>>
    BY <1>7 DEF Environment, ClientStep, OriginStep, ClientConnect, ClientAsk,
                ClientFinish, OriginSends, PeerClose
  <2> QED
    BY <2>1, <2>2, <2>3, DescriptorsUntouched DEF Types
<1>8. CASE UNCHANGED vars
  <2>1. Types'
    BY <1>1, <1>8 DEF Types, NetworkTypeOK, AskedOnce, ProcessTypeOK
  <2> QED
    BY <1>8, <2>1, DescriptorsUntouched
<1> QED
  BY <1>2, <1>3, <1>4, <1>5, <1>6, <1>7, <1>8 DEF Next, Loop
-----------------------------------------------------------------------------
(* The inductive invariant holds in every behaviour of the process,        *)
(* whatever the clients, the origins, the kernel's choice of events and    *)
(* the signals do: its loop, handlers and signal handler all keep it.      *)
THEOREM InvHolds == Spec => []Inv
<1>1. Init => Inv
  BY InitInv
<1>2. Inv /\ [Next]_vars => Inv'
  BY NextInv
<1> QED
  BY <1>1, <1>2, PTL DEF Spec

(* Every variable keeps its type: every handler that runs finds the map    *)
(* entries it dereferences (clients, con_map, handlers) to be there.       *)
THEOREM TypeCorrect == Spec => []TypeOK
<1>1. Inv => TypeOK
  BY DEF Inv
<1> QED
  BY <1>1, InvHolds, PTL

(* epoll_wrapper's kernel set, handlers and fd_status always name exactly  *)
(* the server socket and the descriptors in clients and con_map, and those *)
(* are the open ones: add_socket and remove_socket always come in pairs    *)
(* with the opening and closing of a descriptor.                           *)
THEOREM RegistryStaysCoherent == Spec => []RegistryCoherent
<1>1. Inv => RegistryCoherent
  BY DEF Inv
<1> QED
  BY <1>1, InvHolds, PTL

(* The reference into tcp_server::clients that a bridge's closures capture *)
(* is never left dangling and never comes to name another connection: a    *)
(* bridge is erased before, or with, the client it was made for.           *)
THEOREM CapturesStayValid == Spec => []CapturesValid
<1>1. Inv => CapturesValid
  BY DEF Inv
<1> QED
  BY <1>1, InvHolds, PTL
=============================================================================
