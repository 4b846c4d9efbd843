------------------------------- MODULE Proxy --------------------------------
(***************************************************************************)
(* The proxy process: main() and its closures (src/proxy.cpp), http_server *)
(* (src/http_server.cpp), http_connection::query (src/http_connection.cpp) *)
(* and tcp_server (src/tcp.h) on top of the epoll loop.                    *)
(*                                                                         *)
(* One thread runs everything, so a handler is one action, whatever it     *)
(* calls; what the rest of the world does happens between two handlers,    *)
(* and in particular between the moment epoll_wait fills its array of      *)
(* events and the moment the loop reaches one of them.                     *)
(***************************************************************************)
EXTENDS Network

CONSTANTS MaxEvents, \* MAXEVENTS, the length of the array of events
          Reliable,  \* hosts to which connect() always succeeds
          Signals    \* signals that may be sent, each at most once

ASSUME ProxyAssumption ==
  /\ MaxEvents \in Nat \ {0}
  /\ Links \subseteq Nat
  /\ Cardinality(Links) >= MaxRequests \* so that a bridge always finds a link
  /\ Reliable \subseteq Hosts
  /\ Signals \subseteq {"INT", "TERM"}

VARIABLES epoll,       \* the epoll_wrapper and the descriptor table
          clients,     \* tcp_server::clients, from fd to the connection
          request_map, \* http_server::request_map: what a request has so far
          con_map,     \* main's con_map, from a client's fd to its bridge
          response,    \* query's holder: what a bridge's response has so far
          batch,       \* the events of the array that the loop has to visit
          pc,          \* where the loop is, or how the process ended
          running,     \* tcp_server::running
          signalled    \* the signals that were delivered

serverVars == <<clients, request_map, con_map, response>>
loopVars == <<running, signalled>>
vars == <<netVars, epoll, serverVars, batch, pc, loopVars>>

(* "exited" is a return from main.  The others are deaths: an exception    *)
(* nobody catches in the accept handler or in the request parser, and the  *)
(* default action of SIGPIPE.                                              *)
Halted == {"exited", "accept_threw", "parse_threw", "sigpipe"}

(* is_alive is left out: it is set by the query that follows the creation  *)
(* of a bridge in the same handler, and the bridge is erased when it drops.*)
Bridge == [host : Hosts, fd : Fds]

ASSUME BridgeAssumption == None \notin Bridge

(* `peer` is not in epoll_event: it records who the event was about.       *)
Event == [fd : Fds, kind : {"in", "rdhup"}, peer : Peers \cup {Listener}]

TypeOK ==
  /\ NetworkTypeOK
  /\ epoll       \in Registry
  /\ clients     \in [Fds -> Clients \cup {None}]
  /\ request_map \in [Fds -> Seq(Piece)]
  /\ con_map     \in [Fds -> Bridge \cup {None}]
  /\ response    \in [Fds -> Seq(Piece)]
  /\ batch       \in SUBSET Event
  /\ pc          \in {"boot", "top", "prep", "wait", "batch"} \cup Halted
  /\ running     \in BOOLEAN
  /\ signalled   \in SUBSET Signals

AcceptHandler == [kind |-> "accept", connection |-> ListenFd, client |-> None]
ClientHandler(fd, c) == [kind |-> "client", connection |-> fd, client |-> c]
BridgeHandler(fd, c) == [kind |-> "bridge", connection |-> fd, client |-> c]

(* main, up to the call of start(): the server socket listens and has its  *)
(* handler, sigaction has been called.                                     *)
Init ==
  /\ NetworkInit
  /\ epoll = add_socket(open_fd(EmptyRegistry, ListenFd, Listener),
                        ListenFd, AcceptHandler)
  /\ clients     = [fd \in Fds |-> None]
  /\ request_map = [fd \in Fds |-> <<>>]
  /\ con_map     = [fd \in Fds |-> None]
  /\ response    = [fd \in Fds |-> <<>>]
  /\ batch       = {}
  /\ pc          = "boot"
  /\ running     = FALSE
  /\ signalled   = {}

-----------------------------------------------------------------------------
(* The loop: tcp_server::start and epoll_wrapper::process_events.          *)

Start ==
  /\ pc = "boot"
  /\ running' = TRUE
  /\ pc' = "top"
  /\ UNCHANGED <<netVars, epoll, serverVars, batch, signalled>>

LoopTest ==
  /\ pc = "top" /\ running
  /\ pc' = "prep"
  /\ UNCHANGED <<netVars, epoll, serverVars, batch, loopVars>>

(* clients.clear(), then `delete server` and `delete con_map`: every       *)
(* destructor closes its descriptor.                                       *)
Exit ==
  /\ pc = "top" /\ ~running
  /\ pc' = "exited"
  /\ epoll' = EmptyRegistry
  /\ clients' = [fd \in Fds |-> None]
  /\ con_map' = [fd \in Fds |-> None]
  /\ request_map' = [fd \in Fds |-> <<>>]
  /\ response' = [fd \in Fds |-> <<>>]
  /\ UNCHANGED <<netVars, batch, loopVars>>

EnterWait ==
  /\ pc = "prep"
  /\ pc' = "wait"
  /\ UNCHANGED <<netVars, epoll, serverVars, batch, loopVars>>

(* Level-triggered readiness for EPOLLIN | EPOLLRDHUP.                     *)
Ready(p) ==
  IF p = Listener THEN backlog # <<>> ELSE rx[p] # <<>> \/ far[p] # "open"

(* Mutant of EventFor: process_events tests EPOLLIN, which is set when the *)
(* peer has closed, before EPOLLRDHUP.                                     *)
EventInFirst(fd, p) == [fd |-> fd, kind |-> "in", peer |-> p]

EventFor(fd, p) ==
  [fd   |-> fd,
   kind |-> IF p # Listener /\ far[p] # "open" THEN "rdhup" ELSE "in",
   peer |-> p]

ReadyEvents == {EventFor(fd, epoll.fdt[fd]) :
                  fd \in {f \in epoll.interest : Ready(epoll.fdt[f])}}

(* The kernel chooses which events fit into the array and their order.     *)
EpollWait ==
  /\ pc = "wait" /\ ReadyEvents # {}
  /\ batch' \in SUBSET ReadyEvents
  /\ \/ batch' = ReadyEvents /\ Cardinality(ReadyEvents) <= MaxEvents
     \/ Cardinality(batch') = MaxEvents
  /\ pc' = "batch"
  /\ UNCHANGED <<netVars, epoll, serverVars, loopVars>>

(* The loop goes on to the next event, unless the process ends here.       *)
Proceed(e, end) ==
  /\ batch' = batch \ {e}
  /\ pc' = IF end # "ok" THEN end ELSE IF batch = {e} THEN "top" ELSE "batch"

Visits(e) == pc = "batch" /\ e \in batch

Handles(e, kind) ==
  /\ Visits(e)
  /\ epoll.handlers[e.fd] # None
  /\ epoll.handlers[e.fd].kind = kind

(* handlers.find(evfd) finds nothing: the descriptor was removed by an     *)
(* event visited before, or by a signal.                                   *)
Ignore(e) ==
  /\ Visits(e)
  /\ epoll.handlers[e.fd] = None
  /\ Proceed(e, "ok")
  /\ UNCHANGED <<netVars, epoll, serverVars, loopVars>>

-----------------------------------------------------------------------------
(* Reading, writing and closing sockets.                                   *)

(* Bytes that are read, or whose socket is closed, are no longer unread.   *)
Drain(ps) == rx' = [p \in Peers |-> IF p \in ps THEN <<>> ELSE rx[p]]

(* tcp_socket::send checks the result of write(), which fails with EPIPE   *)
(* after a reset; but SIGPIPE, which nobody ignores, comes first.  A write *)
(* to a client waits until the client has read enough, since send() makes  *)
(* its socket blocking, and the whole process with it: that the write ends *)
(* is an assumption about clients.                                         *)
WriteEnd(p) == IF far[p] = "reset" THEN "sigpipe" ELSE "ok"

(* A write to a peer that has closed is answered by RST, sooner or later.  *)
FarAfterWrite(p) ==
  IF far[p] = "closed" THEN {far, [far EXCEPT ![p] = "reset"]} ELSE {far}

(* Mutant of DropBridge: con_map->erase without remove_socket.             *)
EraseBridge(cfd) ==
  IF con_map[cfd] = None THEN epoll ELSE close_fd(epoll, con_map[cfd].fd)

(* con_map->erase(cfd): the bridge of client cfd leaves the epoll set and  *)
(* its destructor closes it.                                               *)
DropBridge(cfd) ==
  IF con_map[cfd] = None THEN epoll
  ELSE close_fd(remove_socket(epoll, con_map[cfd].fd), con_map[cfd].fd)

BridgePeer(cfd) ==
  IF con_map[cfd] = None THEN {} ELSE {epoll.fdt[con_map[cfd].fd]}

(* The holder of a dropped bridge is deleted or can no longer be reached.  *)
DropResponse(cfd) ==
  IF con_map[cfd] = None THEN response
  ELSE [response EXCEPT ![con_map[cfd].fd] = <<>>]

(* Mutant of DropClient: the client's bridge stays.                        *)
DropOnlyClient(cfd) == close_fd(remove_socket(epoll, cfd), cfd)

(* The bridge goes, then disconnect_client removes and closes the client.  *)
DropClient(cfd) == close_fd(remove_socket(DropBridge(cfd), cfd), cfd)

-----------------------------------------------------------------------------
(* tcp_server's accept handler, followed by http_server's on_connect.      *)

(* Mutant of Accept: on_connect does not start a new request.              *)
AcceptStale(e) ==
  /\ Handles(e, "accept") /\ backlog # <<>>
  /\ \E fd \in FreeFd(epoll) :
       LET c == Head(backlog)
       IN  /\ epoll' = add_socket(open_fd(epoll, fd, c), fd, ClientHandler(fd, c))
           /\ clients' = [clients EXCEPT ![fd] = c]
  /\ backlog' = Tail(backlog)
  /\ Proceed(e, "ok")
  /\ UNCHANGED <<rx, far, clientVars, originVars, request_map, con_map,
                 response, loopVars>>

Accept(e) ==
  /\ Handles(e, "accept") /\ backlog # <<>>
  /\ \E fd \in FreeFd(epoll) :
       LET c == Head(backlog)
       IN  /\ epoll' = add_socket(open_fd(epoll, fd, c), fd, ClientHandler(fd, c))
           /\ clients' = [clients EXCEPT ![fd] = c]
           /\ request_map' = [request_map EXCEPT ![fd] = <<>>]
  /\ backlog' = Tail(backlog)
  /\ Proceed(e, "ok")
  /\ UNCHANGED <<rx, far, clientVars, originVars, con_map, response, loopVars>>

(* accept() returns -1: it is logged, and add_flag(O_NONBLOCK) throws.     *)
AcceptFails(e) ==
  /\ Handles(e, "accept") /\ FreeFd(epoll) = {}
  /\ Proceed(e, "accept_threw")
  /\ UNCHANGED <<netVars, epoll, serverVars, loopVars>>

-----------------------------------------------------------------------------
(* http_server's on_data_income and the on_request of main.                *)

(* The request after this read.                                            *)
Income(fd) == request_map[fd] \o rx[clients[fd]]

IsComplete(r) == \E i \in 1..Len(r) : r[i].part \in {"interim", "end"}

ClientReads(e) == Handles(e, "client") /\ e.kind = "in"

(* parse() throws on a title that is empty, and nobody catches it.         *)
RequestThrows(e) ==
  /\ ClientReads(e) /\ Income(e.fd) = <<>>
  /\ Proceed(e, "parse_threw")
  /\ UNCHANGED <<netVars, epoll, serverVars, loopVars>>

RequestPart(e) ==
  /\ ClientReads(e) /\ Income(e.fd) # <<>> /\ ~IsComplete(Income(e.fd))
  /\ request_map' = [request_map EXCEPT ![e.fd] = Income(e.fd)]
  /\ Drain({clients[e.fd]})
  /\ Proceed(e, "ok")
  /\ UNCHANGED <<backlog, far, clientVars, originVars, epoll, clients, con_map,
                 response, loopVars>>

Wanted(fd) == Head(Income(fd)).req

(* Mutant of RequestDone: request_map keeps the request.                   *)
RequestKept(e) ==
  /\ ClientReads(e) /\ IsComplete(Income(e.fd))
  /\ request_map' = [request_map EXCEPT ![e.fd] = Income(e.fd)]

(* A complete request is handed to on_request and erased from request_map. *)
RequestDone(e) ==
  /\ ClientReads(e) /\ IsComplete(Income(e.fd))
  /\ request_map' = [request_map EXCEPT ![e.fd] = <<>>]

(* Mutant of SameHost: any bridge will do.                                 *)
AnyHost(fd) == con_map[fd] # None

SameHost(fd) == con_map[fd] # None /\ con_map[fd].host = Wanted(fd).host

(* The bridge is still there and goes to this host: query only sends.      *)
RequestOnBridge(e) ==
  /\ RequestDone(e) /\ SameHost(e.fd)
  /\ LET l == epoll.fdt[con_map[e.fd].fd]
     IN  /\ far' \in FarAfterWrite(l)
         /\ inbox' = IF far[l] = "open"
                     THEN [inbox EXCEPT ![l] = Append(@, Wanted(e.fd))] ELSE inbox
         /\ Proceed(e, WriteEnd(l))
  /\ Drain({clients[e.fd]})
  /\ UNCHANGED <<backlog, clientVars, host, replied, stage, epoll, clients,
                 con_map, response, loopVars>>

(* The links are taken in order, at most one for each request.             *)
FreshLink == {l \in Links : /\ host[l] = None
                            /\ \A m \in Links : host[m] = None => l <= m}

(* There is no bridge, or it goes to another host and is dropped: a new    *)
(* one is connected, registered and given the request.                     *)
RequestNewBridge(e) ==
  /\ RequestDone(e) /\ ~SameHost(e.fd)
  /\ \E l \in FreshLink, fd \in FreeFd(DropBridge(e.fd)) :
       /\ epoll' = add_socket(open_fd(DropBridge(e.fd), fd, l), fd,
                              BridgeHandler(e.fd, clients[e.fd]))
       /\ con_map' = [con_map EXCEPT
                        ![e.fd] = [host |-> Wanted(e.fd).host, fd |-> fd]]
       /\ response' = [DropResponse(e.fd) EXCEPT ![fd] = <<>>]
       /\ far' = [far EXCEPT ![l] = "open"]
       /\ host' = [host EXCEPT ![l] = Wanted(e.fd).host]
       /\ inbox' = [inbox EXCEPT ![l] = <<Wanted(e.fd)>>]
  /\ Drain({clients[e.fd]} \cup BridgePeer(e.fd))
  /\ Proceed(e, "ok")
  /\ UNCHANGED <<backlog, clientVars, replied, stage, clients, loopVars>>

(* Mutant of RequestRefused: after the bridge to another host is dropped,  *)
(* on_request does not go on to connect a new one.                         *)
RequestForgotten(e) ==
  /\ RequestDone(e) /\ ~SameHost(e.fd)
  /\ epoll' = DropBridge(e.fd)
  /\ con_map' = [con_map EXCEPT ![e.fd] = None]
  /\ response' = DropResponse(e.fd)
  /\ Drain({clients[e.fd]} \cup BridgePeer(e.fd))
  /\ Proceed(e, "ok")
  /\ UNCHANGED <<backlog, far, clientVars, originVars, clients, loopVars>>

(* The constructor of the new bridge throws: no such host, no connection,  *)
(* or no descriptor.  The catch block only logs, so the client is left     *)
(* without a bridge and without an answer.                                 *)
RequestRefused(e) ==
  /\ RequestDone(e) /\ ~SameHost(e.fd)
  /\ \/ Wanted(e.fd).host \notin Reliable
     \/ FreeFd(DropBridge(e.fd)) = {}
  /\ epoll' = DropBridge(e.fd)
  /\ con_map' = [con_map EXCEPT ![e.fd] = None]
  /\ response' = DropResponse(e.fd)
  /\ Drain({clients[e.fd]} \cup BridgePeer(e.fd))
  /\ Proceed(e, "ok")
  /\ UNCHANGED <<backlog, far, clientVars, originVars, clients, loopVars>>

-----------------------------------------------------------------------------
(* The handlers that query() registers for a bridge.                       *)

(* The response after this read.                                           *)
Download(fd) == response[fd] \o rx[epoll.fdt[fd]]

BridgeReads(e) == Handles(e, "bridge") /\ e.kind = "in"

(* parse() throws unless the data begins with a status line; the handler   *)
(* catches it and starts with a new response.  What it would take for a    *)
(* status line by accident, a rest of a body with a number for its second  *)
(* word, is in no body here.                                               *)
Garbled(r) == r # <<>> => Head(r).part = "end"

ResponseThrows(e) ==
  /\ BridgeReads(e) /\ Garbled(Download(e.fd))
  /\ response' = [response EXCEPT ![e.fd] = <<>>]
  /\ Drain({epoll.fdt[e.fd]})
  /\ Proceed(e, "ok")
  /\ UNCHANGED <<backlog, far, clientVars, originVars, epoll, clients,
                 request_map, con_map, loopVars>>

(* Mutant of ResponsePart: each read starts a new response.                *)
ResponsePartLost(e) ==
  /\ BridgeReads(e)
  /\ ~Garbled(Download(e.fd)) /\ ~IsComplete(Download(e.fd))
  /\ Drain({epoll.fdt[e.fd]})
  /\ Proceed(e, "ok")
  /\ UNCHANGED <<backlog, far, clientVars, originVars, epoll, clients,
                 request_map, con_map, response, loopVars>>

ResponsePart(e) ==
  /\ BridgeReads(e)
  /\ ~Garbled(Download(e.fd)) /\ ~IsComplete(Download(e.fd))
  /\ response' = [response EXCEPT ![e.fd] = Download(e.fd)]
  /\ Drain({epoll.fdt[e.fd]})
  /\ Proceed(e, "ok")
  /\ UNCHANGED <<backlog, far, clientVars, originVars, epoll, clients,
                 request_map, con_map, loopVars>>

(* The i-th piece of r is the first to complete it.                        *)
Completes(r, i) ==
  /\ r[i].part \in {"interim", "end"}
  /\ \A j \in 1..(i - 1) : r[j].part \notin {"interim", "end"}

(* connection.send_response.  What the client's end does with it.          *)
Deliver(c, piece) ==
  /\ far' \in FarAfterWrite(c)
  /\ IF far[c] = "open"
     THEN /\ got' = [got EXCEPT ![c] = Append(@, piece)]
          /\ turn' = [turn EXCEPT ![c] = IF piece.part = "end" THEN "idle" ELSE @]
     ELSE UNCHANGED <<got, turn>>

(* Mutant of ResponseDone: the holder keeps the response it has sent.      *)
ResponseKept(e) ==
  /\ BridgeReads(e) /\ ~Garbled(Download(e.fd))
  /\ LET c == clients[epoll.handlers[e.fd].connection]
     IN  /\ \E i \in 1..Len(Download(e.fd)) :
              /\ Completes(Download(e.fd), i)
              /\ Deliver(c, Download(e.fd)[i])
         /\ Proceed(e, WriteEnd(c))
  /\ response' = [response EXCEPT ![e.fd] = Download(e.fd)]
  /\ Drain({epoll.fdt[e.fd]})
  /\ UNCHANGED <<backlog, asked, originVars, epoll, clients, request_map,
                 con_map, loopVars>>

(* The response goes to `connection`; what was read beyond it is lost with *)
(* the old http_response.                                                  *)
ResponseDone(e) ==
  /\ BridgeReads(e) /\ ~Garbled(Download(e.fd))
  /\ LET c == clients[epoll.handlers[e.fd].connection]
     IN  /\ \E i \in 1..Len(Download(e.fd)) :
              /\ Completes(Download(e.fd), i)
              /\ Deliver(c, Download(e.fd)[i])
         /\ Proceed(e, WriteEnd(c))
  /\ response' = [response EXCEPT ![e.fd] = <<>>]
  /\ Drain({epoll.fdt[e.fd]})
  /\ UNCHANGED <<backlog, asked, originVars, epoll, clients, request_map,
                 con_map, loopVars>>

-----------------------------------------------------------------------------
(* EPOLLRDHUP: the handler's on_disconnect, then remove_socket(evfd).      *)

(* Mutant of ClientHup: request_map.clear() instead of erase(fd).          *)
ClientHupClears(e) ==
  /\ Handles(e, "client") /\ e.kind = "rdhup"
  /\ epoll' = remove_socket(DropClient(e.fd), e.fd)
  /\ clients' = [clients EXCEPT ![e.fd] = None]
  /\ con_map' = [con_map EXCEPT ![e.fd] = None]
  /\ request_map' = [fd \in Fds |-> <<>>]
  /\ response' = DropResponse(e.fd)
  /\ Drain({clients[e.fd]} \cup BridgePeer(e.fd))
  /\ Proceed(e, "ok")
  /\ UNCHANGED <<backlog, far, clientVars, originVars, loopVars>>

(* The client has closed: on_disconnect of main drops its bridge.          *)
ClientHup(e) ==
  /\ Handles(e, "client") /\ e.kind = "rdhup"
  /\ epoll' = remove_socket(DropClient(e.fd), e.fd)
  /\ clients' = [clients EXCEPT ![e.fd] = None]
  /\ con_map' = [con_map EXCEPT ![e.fd] = None]
  /\ request_map' = [request_map EXCEPT ![e.fd] = <<>>]
  /\ response' = DropResponse(e.fd)
  /\ Drain({clients[e.fd]} \cup BridgePeer(e.fd))
  /\ Proceed(e, "ok")
  /\ UNCHANGED <<backlog, far, clientVars, originVars, loopVars>>

(* The origin has closed: the bridge goes, whatever it still had to say,   *)
(* and the client with it.  Its entry of request_map stays.                *)
BridgeHup(e) ==
  /\ Handles(e, "bridge") /\ e.kind = "rdhup"
  /\ LET cfd == epoll.handlers[e.fd].connection
     IN  /\ epoll' = remove_socket(DropClient(cfd), e.fd)
         /\ clients' = [clients EXCEPT ![cfd] = None]
         /\ con_map' = [con_map EXCEPT ![cfd] = None]
         /\ response' = [response EXCEPT ![e.fd] = <<>>]
         /\ Drain({clients[cfd]} \cup BridgePeer(cfd))
  /\ Proceed(e, "ok")
  /\ UNCHANGED <<backlog, far, clientVars, originVars, request_map, loopVars>>

-----------------------------------------------------------------------------
(* my_handler.  A signal interrupts epoll_wait, which then has no events.  *)

Interrupt(sig) ==
  /\ pc \notin Halted /\ sig \in Signals \ signalled
  /\ signalled' = signalled \cup {sig}
  /\ pc' = IF pc = "wait" THEN "top" ELSE pc
  /\ UNCHANGED <<netVars, serverVars, batch>>

SigTerm == Interrupt("TERM") /\ UNCHANGED <<epoll, running>>

(* server_global->stop().                                                  *)
SigInt ==
  /\ Interrupt("INT")
  /\ running' = FALSE
  /\ epoll' = remove_socket(epoll, ListenFd)

-----------------------------------------------------------------------------
Connected(p) == \E fd \in Fds : epoll.fdt[fd] = p

(* The other end of p's connection is still open: at the proxy, or in its  *)
(* listen queue.                                                           *)
Attached(p) ==
  /\ pc \notin Halted
  /\ Connected(p) \/ \E i \in 1..Len(backlog) : backlog[i] = p

Visit(e) ==
  \/ Ignore(e) \/ Accept(e) \/ AcceptFails(e)
  \/ RequestThrows(e) \/ RequestPart(e)
  \/ RequestOnBridge(e) \/ RequestNewBridge(e) \/ RequestRefused(e)
  \/ ResponseThrows(e) \/ ResponsePart(e) \/ ResponseDone(e)
  \/ ClientHup(e) \/ BridgeHup(e)

Loop == Start \/ LoopTest \/ Exit \/ EnterWait \/ EpollWait
        \/ \E e \in batch : Visit(e)

ClientStep(c) ==
  \/ pc \notin Halted /\ ClientConnect(c)
  \/ Attached(c) /\ \/ \E h \in Hosts : ClientAsk(c, h)
                    \/ ClientFinish(c)
                    \/ PeerClose(c)

OriginStep(l) ==
  Attached(l) /\ \/ \E part \in {"interim", "part", "end"} : OriginSends(l, part)
                 \/ PeerClose(l)

Environment ==
  /\ (\E c \in Clients : ClientStep(c)) \/ (\E l \in Links : OriginStep(l))
  /\ UNCHANGED <<epoll, serverVars, batch, pc, loopVars>>

Next == Loop \/ SigTerm \/ SigInt \/ Environment

Spec == Init /\ [][Next]_vars

(* The process is scheduled, and its calls return: a client reads what is  *)
(* written to it, and connect() ends.  Beyond that the network, the users  *)
(* and the signals owe nothing.                                            *)
FairSpec == Spec /\ WF_vars(Loop)

-----------------------------------------------------------------------------
(* Safety.                                                                 *)

ClientFds == {fd \in Fds : clients[fd] # None}
BridgeFds == {con_map[fd].fd : fd \in {f \in Fds : con_map[f] # None}}

(* The server socket while it is open, and while it is watched.            *)
Listening == IF pc = "exited" THEN {} ELSE {ListenFd}
Listened  == IF "INT" \in signalled THEN {} ELSE Listening

(* epoll_wrapper's three tables (kernel set, handlers, fd_status) and the  *)
(* maps of tcp_server and of main never drift apart, whatever sequence of  *)
(* accepts, host switches, hang-ups and stale events ran: no descriptor is *)
(* leaked, watched without an owner, or owned and not watched.             *)
RegistryCoherent ==
  /\ OpenFds(epoll) = Listening \cup ClientFds \cup BridgeFds
  /\ Watches(epoll, Listened \cup ClientFds \cup BridgeFds)
  /\ pc # "exited" => epoll.fdt[ListenFd] = Listener

ClientCaptured(fd) ==
  clients[fd] # None => /\ epoll.handlers[fd] = ClientHandler(fd, clients[fd])
                        /\ epoll.fdt[fd] = clients[fd]

BridgeCaptured(fd) ==
  con_map[fd] # None =>
    LET bridge == con_map[fd]
    IN  /\ clients[fd] # None
        /\ epoll.handlers[bridge.fd] = BridgeHandler(fd, clients[fd])
        /\ epoll.fdt[bridge.fd] \in Links
        /\ host[epoll.fdt[bridge.fd]] = bridge.host

HandlerOwned(fd) ==
  epoll.handlers[fd] # None =>
    LET handler == epoll.handlers[fd]
    IN  /\ handler.kind = "accept" => fd = ListenFd
        /\ handler.kind = "client" => clients[fd] # None
        /\ handler.kind = "bridge" => /\ con_map[handler.connection] # None
                                      /\ con_map[handler.connection].fd = fd

(* The closures of a bridge hold a reference into tcp_server::clients and  *)
(* look con_map up with it.  The entry is the one they were made for, and  *)
(* its bridge is this one, which goes to the host it is listed under.  So  *)
(* no operator[] makes up a missing connection, and no client is answered  *)
(* or closed in another's place.                                           *)
CapturesValid ==
  \A fd \in Fds : ClientCaptured(fd) /\ BridgeCaptured(fd) /\ HandlerOwned(fd)

(* What request_map holds for a client, with what the client's socket has  *)
(* yet to give, is a beginning of the one request this client is at: never *)
(* the half request of an earlier client that had the same descriptor.     *)
IncomeIsOneRequest ==
  \A fd \in ClientFds :
    LET c == clients[fd]
        piece(part) == [req |-> Latest(c, asked[c]), part |-> part]
    IN  Income(fd) # <<>> =>
          /\ asked[c] # <<>>
          /\ Income(fd) \in {<<piece("head")>>, <<piece("head"), piece("end")>>}

(* Everything on its way through a client's bridge answers the request     *)
(* that this client is waiting for: the rest of an answer from a host it   *)
(* has left, or of one already given, never follows.                       *)
DownloadIsAwaited ==
  \A fd \in Fds : con_map[fd] # None =>
    LET c == clients[fd]
    IN  \A i \in 1..Len(Download(con_map[fd].fd)) :
          /\ turn[c] = "waiting"
          /\ Download(con_map[fd].fd)[i].req = Latest(c, asked[c])

(* A request reaches the host its Host header names, and reaches a server  *)
(* once, although bridges are reused, switched and lost with requests on   *)
(* them.                                                                   *)
RoutedOnce ==
  \A l, m \in Links : \A i \in 1..Len(inbox[l]) :
    /\ inbox[l][i].host = host[l]
    /\ \A j \in 1..Len(inbox[m]) : inbox[l][i] = inbox[m][j] => l = m /\ i = j

(* A handler that takes one client down leaves the others as they were:    *)
(* their descriptors, bridges, half-read requests and half-read responses. *)
Undisturbed(fd) ==
  /\ clients'[fd] = clients[fd] /\ con_map'[fd] = con_map[fd]
  /\ Income(fd)' = Income(fd)
  /\ con_map[fd] # None =>
       Download(con_map[fd].fd)' = Download(con_map[fd].fd)

HangupIsPrivate ==
  [][pc' \notin Halted =>
       \A fd, other \in ClientFds :
         fd # other /\ clients'[fd] # clients[fd] => Undisturbed(other)]_vars

-----------------------------------------------------------------------------
(* The inductive invariant of the descriptors: the type invariant and the  *)
(* two invariants of the tables need one another, and a client that has a  *)
(* request under way has asked for one.                                    *)
Inv ==
  /\ TypeOK
  /\ RegistryCoherent
  /\ CapturesValid
  /\ \A c \in Clients : turn[c] # "idle" => asked[c] # <<>>
=============================================================================
