----------------------- MODULE ProxyRefinementProofs ------------------------
(***************************************************************************)
(* The proxy implements ProxyService, for every value of the constants.    *)
(* TrafficInv says why: a request that is handed over is outstanding and   *)
(* new to every server, and what is delivered answers the request that is  *)
(* outstanding.  Steps are matched one by one:                             *)
(*   ClientConnect, ClientAsk               Connect, Ask                   *)
(*   RequestOnBridge, RequestNewBridge      Serve                          *)
(*   ResponseDone                           Answer                         *)
(*   ClientHup, BridgeHup, a client closes  Disconnect                     *)
(*   the process ends, wherever             Stop                           *)
(* and every other step, as well as one of these when it comes too late    *)
(* for the far end, changes nothing that can be seen.                      *)
(***************************************************************************)
EXTENDS ProxyTrafficProofs, ProxyRefinement

USE DEF vars, netVars, clientVars, originVars, serverVars, loopVars

-----------------------------------------------------------------------------
(* What the service sees.                                                  *)

(* A client's connection looks the same as long as its far end is in the   *)
(* same state, or was not open anyway, and the proxy has its own end.      *)
SameConn(c) ==
  /\ far'[c] = "absent" <=> far[c] = "absent"
  /\ far'[c] = "open" <=> far[c] = "open"
  /\ Attached(c)' <=> Attached(c)

(* If all do, nothing is seen of the connections.                          *)
LEMMA ConnsKept ==
  ASSUME \A c \in Clients : SameConn(c)
  PROVE  Conns' = Conns
BY DEF SameConn, Conns, ConnOf

(* And the others' do when one client's changes.                           *)
LEMMA ConnChanges ==
  ASSUME NEW c \in Clients, NEW state, ConnOf(c)' = state,
         \A d \in Clients : d # c => SameConn(d)
  PROVE  Conns' = [Conns EXCEPT ![c] = state]
BY DEF SameConn, Conns, ConnOf

(* The proxy keeps its ends while its tables stay and it goes on running.  *)
LEMMA AttachedKept ==
  ASSUME UNCHANGED <<backlog, epoll.fdt>>, pc' \in Halted <=> pc \in Halted
  PROVE  \A p : Attached(p)' <=> Attached(p)
BY DEF Attached, Connected

(* The requests that reached a server, now and after a step.               *)
LEMMA InServed ==
  ASSUME NEW r
  PROVE  /\ r \in Served <=>
              \E l \in Links : \E i \in 1..Len(inbox[l]) : inbox[l][i] = r
         /\ r \in Served' <=>
              \E l \in Links : \E i \in 1..Len(inbox'[l]) : inbox'[l][i] = r
BY DEF Served

(* They stay while no inbox changes.                                       *)
LEMMA ServedKept ==
  ASSUME inbox' = inbox
  PROVE  Served' = Served
BY DEF Served

(* A client has a request outstanding while it is at one.                  *)
LEMMA OutstandingTurn ==
  ASSUME Traffic, NEW c \in Clients
  PROVE  /\ Service!Latest(c) = Latest(c, asked[c])
         /\ Service!Outstanding(c) <=> turn[c] # "idle"
BY DEF Traffic, AnswersGiven, Latest, Service!Latest, Service!Outstanding

(* The process ends, and the far ends with it.                             *)
LEMMA EndsService ==
  ASSUME pc' \in Halted, UNCHANGED <<asked, got, inbox>>,
         \A c \in Clients : far'[c] = "absent" <=> far[c] = "absent"
  PROVE  Service!Next
<1>1. Conns' = [c \in Clients |-> IF Conns[c] = "open" THEN "closed" ELSE Conns[c]]
  BY DEF Conns, ConnOf, Attached
<1>2. Served' = Served
  BY ServedKept
<1> QED
  BY <1>1, <1>2 DEF Service!Next, Service!Stop

(* A client is gone, if it was there.                                      *)
LEMMA LeavesService ==
  ASSUME NEW c \in Clients, ~(far[c] = "absent"), ~(far'[c] = "absent"),
         ConnOf(c)' = "closed", \A d \in Clients : d # c => SameConn(d),
         UNCHANGED <<asked, got, inbox>>
  PROVE  [Service!Next]_(Service!vars)
<1>1. Conns' = [Conns EXCEPT ![c] = "closed"] /\ Served' = Served
  BY ConnChanges, ServedKept
<1>2. Conns[c] \in {"open", "closed"}
  BY DEF Conns, ConnOf
<1>3. CASE Conns[c] = "open"
  BY <1>1, <1>3 DEF Service!Next, Service!Disconnect
<1>4. CASE Conns[c] = "closed"
  <2>1. Conns' = Conns
    BY <1>1, <1>4 DEF Conns
  <2> QED
    BY <1>1, <2>1 DEF Service!vars
<1> QED
  BY <1>2, <1>3, <1>4

(* A step that nobody sees.                                                *)
LEMMA Unseen ==
  ASSUME \A c \in Clients : SameConn(c), UNCHANGED <<asked, got, inbox>>
  PROVE  UNCHANGED Service!vars
BY ConnsKept, ServedKept DEF Service!vars


-----------------------------------------------------------------------------
(* The steps of the service.                                               *)

(* A request that no server has goes to one.                               *)
LEMMA ServesRequest ==
  ASSUME Traffic, NEW c \in Clients, turn[c] # "idle",
         NEW want, want = Latest(c, asked[c]), want \notin Served,
         Served' = Served \cup {want},
         \A d \in Clients : SameConn(d), UNCHANGED <<asked, got>>
  PROVE  Service!Next
<1>1. Service!Outstanding(c) /\ Service!Latest(c) = want
  BY OutstandingTurn
<1>2. Conns' = Conns
  BY ConnsKept
<1> QED
  BY <1>1, <1>2 DEF Service!Next, Service!Serve

(* Accept takes the client out of the queue and gives it a descriptor.     *)
LEMMA AcceptUnseen ==
  ASSUME Inv, NEW e \in batch, Accept(e)
  PROVE  UNCHANGED Service!vars
<1>1. PICK fd \in Fds, c \in Clients :
        /\ c = backlog[1] /\ 1 \in 1..Len(backlog)
        /\ epoll.fdt[fd] = None /\ fd \notin ClientFds \cup BridgeFds
        /\ epoll'.fdt = [epoll.fdt EXCEPT ![fd] = c]
        /\ clients' = [clients EXCEPT ![fd] = c]
        /\ request_map' = [request_map EXCEPT ![fd] = <<>>]
        /\ \A i \in 1..Len(backlog') :
             i + 1 \in 1..Len(backlog) /\ backlog'[i] = backlog[i + 1]
  BY AcceptEffect
<1>2. /\ UNCHANGED <<far, asked, got, inbox>>
      /\ pc \notin Halted /\ pc' \notin Halted
      /\ backlog \in Seq(Clients) /\ backlog # <<>> /\ backlog' = Tail(backlog)
      /\ epoll.fdt \in [Fds -> Peers \cup {Listener, None}]
  BY RegistryFields
     DEF Accept, Handles, Visits, Proceed, Halted, Inv, TypeOK, NetworkTypeOK
<1>3. ASSUME NEW d \in Clients, Attached(d)
      PROVE  Attached(d)'
  <2>1. CASE d = c
    <3>1. Connected(d)'
      BY <1>1, <1>2, <2>1 DEF Connected
    <3> QED
      BY <1>2, <3>1 DEF Attached
  <2>2. CASE Connected(d)
    <3>1. PICK f \in Fds : epoll.fdt[f] = d
      BY <2>2 DEF Connected
    <3>2. f # fd
      BY <1>1, <3>1, NoneAssumption
    <3>3. epoll'.fdt[f] = d
      BY <1>1, <1>2, <3>1, <3>2
    <3> QED
      BY <1>2, <3>3 DEF Attached, Connected
  <2>3. CASE d # c /\ \E i \in 1..Len(backlog) : backlog[i] = d
    <3>1. PICK i \in 1..Len(backlog) : backlog[i] = d
      BY <2>3
    <3>2. i # 1 /\ Len(backlog) \in Nat /\ Len(backlog') = Len(backlog) - 1
      BY <1>1, <1>2, <2>3, <3>1, HeadTailProperties, LenProperties
    <3>3. i - 1 \in 1..Len(backlog')
      BY <3>2
    <3>4. backlog'[i - 1] = backlog[(i - 1) + 1]
      BY <1>1, <3>3
    <3>5. backlog'[i - 1] = d
      BY <3>1, <3>4
    <3> QED
      BY <1>2, <3>3, <3>5 DEF Attached
  <2> QED
    BY <1>3, <2>1, <2>2, <2>3 DEF Attached
<1>4. ASSUME NEW d \in Clients, Attached(d)'
      PROVE  Attached(d)
  <2>1. Connected(d)' => d = c \/ Connected(d)
    BY <1>1, <1>2 DEF Connected
  <2>2. (\E i \in 1..Len(backlog') : backlog'[i] = d)
          => \E i \in 1..Len(backlog) : backlog[i] = d
    BY <1>1
  <2> QED
    BY <1>1, <1>2, <1>4, <2>1, <2>2 DEF Attached
<1>5. \A d \in Clients : SameConn(d)
  BY <1>2, <1>3, <1>4 DEF SameConn
<1> QED
  BY <1>2, <1>5, Unseen

(* A hang-up disconnects its client, if it was not gone before, and nobody *)
(* else.                                                                   *)
LEMMA HupDisconnects ==
  ASSUME Inv, PeersDistinct, NEW e \in batch, ClientHup(e) \/ BridgeHup(e)
  PROVE  [Service!Next]_(Service!vars)
<1>1. PICK cfd \in ClientFds : Drops(cfd, BridgeOf(cfd) \cup {cfd})
  BY HupDrops
<1>2. PICK c \in Clients : c = clients[cfd] /\ c \in Peers
  BY <1>1, ClientEnd
<1> DEFINE gone == BridgeOf(cfd) \cup {cfd}
<1>3. /\ UNCHANGED <<backlog, far, asked, got, inbox>>
      /\ \A fd \in Fds : epoll'.fdt[fd] = IF fd \in gone THEN None ELSE epoll.fdt[fd]
      /\ pc \notin Halted /\ pc' \notin Halted
  BY <1>1 DEF Drops, ClientHup, BridgeHup, Handles, Visits, Proceed, Halted
<1>4. \A fd \in gone : fd \in Fds => epoll.fdt[fd] = c \/ epoll.fdt[fd] \in Links
  BY <1>1, <1>2, ClientEnd, BridgeEnd DEF BridgeOf, LinkOf
<1> HIDE DEF gone
<1>5. ~Connected(c)'
  <2> SUFFICES ASSUME NEW fd \in Fds, epoll'.fdt[fd] = c PROVE FALSE
    BY DEF Connected
  <2>1. epoll.fdt[fd] = c /\ fd \notin gone
    BY <1>2, <1>3, NoneAssumption
  <2>2. fd = cfd
    BY <1>1, <1>2, <2>1, ClientEnd DEF PeersDistinct
  <2> QED
    BY <2>1, <2>2 DEF gone
<1>6. ASSUME NEW d \in Clients, d # c
      PROVE  SameConn(d)
  <2>1. Connected(d)' <=> Connected(d)
    BY <1>3, <1>4, <1>6, NoneAssumption, PeersAssumption DEF Connected
  <2> QED
    BY <1>3, <2>1 DEF SameConn, Attached
<1>7. far[c] # "absent" /\ ~Queued(c)
  BY <1>1, <1>2, ClientEnd
<1>8. ConnOf(c)' = "closed"
  BY <1>3, <1>5, <1>7 DEF ConnOf, Attached, Queued
<1> QED
  BY <1>3, <1>6, <1>7, <1>8, LeavesService


(* A request that goes on the bridge is served, unless the origin closed   *)
(* before; when the origin has reset the connection, the process ends.     *)
LEMMA OnBridgeServes ==
  ASSUME Inv, Traffic, NEW e \in batch, RequestOnBridge(e)
  PROVE  [Service!Next]_(Service!vars)
<1>1. PICK cfd \in ClientFds : cfd = e.fd /\ con_map[cfd] # None /\ cfd \in Fds
  BY ClientHandled, NoneAssumption
     DEF RequestOnBridge, RequestDone, ClientReads, ClientFds, SameHost
<1>2. PICK c \in Clients, want \in Request :
        /\ c = clients[cfd] /\ want = Latest(c, asked[c]) /\ want = Wanted(cfd)
        /\ turn[c] = "waiting"
        /\ \A l \in Links : \A i \in 1..Len(inbox[l]) : inbox[l][i] # want
  <2>1. IsComplete(Income(cfd))
    BY <1>1 DEF RequestOnBridge, RequestDone
  <2>2. PICK c, want : c = clients[cfd] /\ want = Latest(c, asked[c])
    OBVIOUS
  <2> QED
    BY <1>1, <2>1, <2>2, NotServedYet
<1>3. PICK l \in Links : l = LinkOf(cfd) /\ l \in Peers /\ l \notin Clients
  BY <1>1, BridgeEnd DEF Traffic
<1>4. /\ far' \in FarAfterWrite(l)
      /\ inbox' = IF far[l] = "open" THEN [inbox EXCEPT ![l] = Append(@, want)]
                  ELSE inbox
      /\ Proceed(e, WriteEnd(l)) /\ pc = "batch"
      /\ UNCHANGED <<backlog, asked, got, epoll>>
  BY <1>1, <1>2, <1>3
     DEF RequestOnBridge, RequestDone, ClientReads, Handles, Visits, LinkOf
<1>5. \A d \in Clients : d # l /\ far'[d] = far[d]
  BY <1>3, <1>4 DEF FarAfterWrite, Inv, TypeOK, NetworkTypeOK, Peers
<1>6. CASE far[l] = "reset"
  <2>1. pc' = "sigpipe" /\ inbox' = inbox
    BY <1>4, <1>6 DEF WriteEnd, Proceed
  <2> QED
    BY <1>4, <1>5, <2>1, EndsService DEF Halted
<1>7. CASE far[l] # "reset"
  <2>1. pc' \notin Halted /\ pc \notin Halted
    BY <1>4, <1>7 DEF WriteEnd, Proceed, Halted
  <2>2. \A d \in Clients : SameConn(d)
    BY <1>4, <1>5, <2>1, AttachedKept DEF SameConn
  <2>3. CASE far[l] # "open"
    BY <1>4, <2>2, <2>3, Unseen
  <2>4. CASE far[l] = "open"
    <3>1. /\ inbox' = [inbox EXCEPT ![l] = Append(inbox[l], want)]
          /\ inbox \in [Links -> Seq(Request)] /\ inbox[l] \in Seq(Request)
          /\ Len(inbox[l]) \in Nat
      BY <1>4, <2>4, LenProperties DEF Inv, TypeOK, NetworkTypeOK
    <3>2. /\ Len(Append(inbox[l], want)) = Len(inbox[l]) + 1
          /\ \A i \in 1..Len(inbox[l]) : Append(inbox[l], want)[i] = inbox[l][i]
          /\ Append(inbox[l], want)[Len(inbox[l]) + 1] = want
      BY <3>1, AppendProperties
    <3>3. ASSUME NEW m \in Links, NEW i \in 1..Len(inbox'[m])
          PROVE  inbox'[m][i] \in Served \cup {want}
      <4>1. CASE m # l
        BY <3>1, <4>1, InServed
      <4>2. CASE m = l
        <5>1. inbox'[m] = Append(inbox[l], want)
          BY <3>1, <4>2
        <5>2. i \in 1..Len(inbox[l]) \/ i = Len(inbox[l]) + 1
          BY <3>1, <3>2, <5>1
        <5> QED
          BY <3>2, <5>1, <5>2, InServed
      <4> QED
        BY <4>1, <4>2
    <3>4. ASSUME NEW m \in Links, NEW i \in 1..Len(inbox[m])
          PROVE  \E j \in 1..Len(inbox'[m]) : inbox'[m][j] = inbox[m][i]
      <4>1. CASE m # l
        BY <3>1, <4>1
      <4>2. CASE m = l
        <5>1. inbox'[m] = Append(inbox[l], want)
          BY <3>1, <4>2
        <5>2. i \in 1..Len(inbox'[m]) /\ inbox'[m][i] = inbox[m][i]
          BY <3>1, <3>2, <4>2, <5>1
        <5> QED
          BY <5>2
      <4> QED
        BY <4>1, <4>2
    <3>5. \E j \in 1..Len(inbox'[l]) : inbox'[l][j] = want
      <4>1. inbox'[l] = Append(inbox[l], want)
        BY <3>1
      <4>2. Len(inbox[l]) + 1 \in 1..Len(inbox'[l])
        BY <3>1, <3>2, <4>1
      <4> QED
        BY <3>2, <4>1, <4>2
    <3>6. Served' = Served \cup {want}
      <4>1. ASSUME NEW r \in Served' PROVE r \in Served \cup {want}
        BY <3>3, InServed
      <4>2. ASSUME NEW r \in Served PROVE r \in Served'
        BY <3>4, InServed
      <4>3. want \in Served'
        BY <3>5, InServed
      <4> QED
        BY <4>1, <4>2, <4>3
    <3> QED
      BY <1>2, <1>4, <2>2, <3>6, InServed, ServesRequest
  <2> QED
    BY <2>3, <2>4
<1> QED
  BY <1>6, <1>7

(* On a new bridge a request is always served.                             *)
LEMMA NewBridgeServes ==
  ASSUME Inv, Traffic, NEW e \in batch, RequestNewBridge(e)
  PROVE  Service!Next
<1>1. PICK cfd \in ClientFds : cfd = e.fd /\ cfd \in Fds
  BY ClientHandled, NoneAssumption
     DEF RequestNewBridge, RequestDone, ClientReads, ClientFds
<1>2. PICK c \in Clients, want \in Request :
        /\ c = clients[cfd] /\ want = Latest(c, asked[c]) /\ want = Wanted(cfd)
        /\ turn[c] = "waiting"
        /\ \A l \in Links : \A i \in 1..Len(inbox[l]) : inbox[l][i] # want
  <2>1. IsComplete(Income(cfd))
    BY <1>1 DEF RequestNewBridge, RequestDone
  <2>2. PICK c, want : c = clients[cfd] /\ want = Latest(c, asked[c])
    OBVIOUS
  <2> QED
    BY <1>1, <2>1, <2>2, NotServedYet
<1>3. PICK l \in Links, new \in Fds :
        /\ host[l] = None /\ rx[l] = <<>> /\ replied[l] = 0 /\ ~Connected(l)
        /\ epoll.fdt[new] = None \/ new \in BridgeOf(cfd)
        /\ \A fd \in Fds : con_map[fd] # None /\ fd # cfd => con_map[fd].fd # new
        /\ epoll'.fdt = [fd \in Fds |-> IF fd = new THEN l
                                        ELSE IF fd \in BridgeOf(cfd) THEN None
                                        ELSE epoll.fdt[fd]]
        /\ con_map' = [con_map EXCEPT ![cfd] = [host |-> want.host, fd |-> new]]
        /\ response' = [DropResponse(cfd) EXCEPT ![new] = <<>>]
        /\ far' = [far EXCEPT ![l] = "open"]
        /\ host' = [host EXCEPT ![l] = want.host]
        /\ inbox' = [inbox EXCEPT ![l] = <<want>>]
  BY <1>1, <1>2, NewBridgeEffect, ZenonT(60)
<1>4. /\ UNCHANGED <<backlog, asked, got>>
      /\ pc \notin Halted /\ pc' \notin Halted
  BY DEF RequestNewBridge, RequestDone, ClientReads, Handles, Visits, Proceed, Halted
<1>5. \A d \in Clients : d # l /\ far'[d] = far[d]
  BY <1>3, PeersAssumption DEF Inv, TypeOK, NetworkTypeOK, Peers
<1>6. ASSUME NEW d \in Clients
      PROVE  Connected(d)' <=> Connected(d)
  <2>1. ASSUME NEW fd \in Fds, epoll.fdt[fd] = d
        PROVE  epoll'.fdt[fd] = d
    <3>1. fd \in ClientFds
      BY <2>1, ClientFdOf
    <3>2. fd \notin BridgeOf(cfd)
      BY <1>1, <3>1, OwnersDistinct DEF BridgeOf, BridgeFds
    <3> QED
      BY <1>3, <2>1, <3>2, NoneAssumption
  <2>2. ASSUME NEW fd \in Fds, epoll'.fdt[fd] = d
        PROVE  epoll.fdt[fd] = d
    BY <1>3, <1>5, <2>2, NoneAssumption
  <2> QED
    BY <2>1, <2>2 DEF Connected
<1>7. \A d \in Clients : SameConn(d)
  BY <1>4, <1>5, <1>6 DEF SameConn, Attached
<1>8. Served' = Served \cup {want}
  <2>1. /\ \A m \in Links : m # l => inbox'[m] = inbox[m]
        /\ inbox'[l] = <<want>>
    BY <1>3 DEF Inv, TypeOK, NetworkTypeOK
  <2>2. /\ Len(<<want>>) = 1 /\ <<want>>[1] = want
    OBVIOUS
  <2>3. \A i \in 1..Len(inbox[l]) : FALSE
    BY <1>3, InboxType, NetworkAssumption DEF Traffic, RoutedOnce, Request, Inv
  <2>4. ASSUME NEW r \in Served'
        PROVE  r \in Served \cup {want}
    <3>1. PICK m \in Links : \E i \in 1..Len(inbox'[m]) : inbox'[m][i] = r
      BY <2>4, InServed
    <3>2. CASE m = l
      BY <2>1, <2>2, <3>1, <3>2
    <3>3. CASE m # l
      BY <2>1, <3>1, <3>3, InServed
    <3> QED
      BY <3>2, <3>3
  <2>5. ASSUME NEW r \in Served
        PROVE  r \in Served'
    <3>1. PICK m \in Links : \E i \in 1..Len(inbox[m]) : inbox[m][i] = r
      BY <2>5, InServed
    <3>2. inbox'[m] = inbox[m]
      BY <2>1, <2>3, <3>1
    <3> QED
      BY <3>1, <3>2, InServed
  <2>6. want \in Served'
    <3>1. 1 \in 1..Len(inbox'[l]) /\ inbox'[l][1] = want
      BY <2>1, <2>2
    <3> QED
      BY <3>1, InServed
  <2> QED
    BY <2>4, <2>5, <2>6
<1> QED
  BY <1>2, <1>4, <1>7, <1>8, InServed, ServesRequest


(* A delivered response is an answer, unless the client closed before;     *)
(* when it has reset the connection, the process ends.                     *)
LEMMA DoneAnswers ==
  ASSUME Inv, Traffic, NEW e \in batch, ResponseDone(e)
  PROVE  [Service!Next]_(Service!vars)
<1>1. PICK cfd \in ClientFds, c \in Clients, l \in Links, piece \in Piece :
        /\ c = clients[cfd] /\ con_map[cfd] # None /\ con_map[cfd].fd = e.fd
        /\ l = LinkOf(cfd) /\ e.fd \in Fds
        /\ turn[c] = "waiting" /\ Income(cfd) = <<>>
        /\ piece.req = Latest(c, asked[c]) /\ piece.part \in {"interim", "end"}
        /\ piece.part = "end" => replied[l] = Len(inbox[l])
        /\ inbox[l] # <<>> /\ inbox[l][Len(inbox[l])] = piece.req
        /\ Deliver(c, piece)
        /\ Drain({l}) /\ response' = [response EXCEPT ![e.fd] = <<>>]
  BY DoneEffect
<1>2. /\ UNCHANGED <<backlog, asked, inbox, epoll>> /\ pc = "batch"
      /\ Proceed(e, WriteEnd(clients[epoll.handlers[e.fd].connection]))
  BY DEF ResponseDone, BridgeReads, Handles, Visits
<1>3. c = clients[epoll.handlers[e.fd].connection]
  <2>1. cfd \in Fds
    BY DEF ClientFds
  <2>2. epoll.handlers[e.fd] = BridgeHandler(cfd, clients[cfd])
    BY <1>1, <2>1 DEF Inv, CapturesValid, BridgeCaptured
  <2> QED
    BY <1>1, <2>2 DEF BridgeHandler
<1>4. /\ far[c] # "absent" /\ Connected(c) /\ c \in Peers
      /\ far \in [Peers -> Far] /\ far' \in FarAfterWrite(c)
  BY <1>1, ClientEnd DEF Traffic, Deliver, Inv, TypeOK, NetworkTypeOK
<1>5. \A d \in Clients : /\ far'[d] = "absent" <=> far[d] = "absent"
                         /\ far'[d] = "open" <=> far[d] = "open"
  BY <1>4 DEF FarAfterWrite, Peers
<1>6. CASE far[c] = "reset"
  <2>1. pc' = "sigpipe" /\ got' = got
    BY <1>1, <1>2, <1>3, <1>6 DEF WriteEnd, Proceed, Deliver
  <2> QED
    BY <1>2, <1>5, <2>1, EndsService DEF Halted
<1>7. CASE far[c] # "reset"
  <2>1. pc' \notin Halted /\ pc \notin Halted
    BY <1>2, <1>3, <1>7 DEF WriteEnd, Proceed, Halted
  <2>2. \A d \in Clients : SameConn(d)
    BY <1>2, <1>5, <2>1, AttachedKept DEF SameConn
  <2>3. CASE far[c] # "open"
    <3>1. got' = got
      BY <1>1, <2>3 DEF Deliver
    <3> QED
      BY <1>2, <2>2, <3>1, Unseen
  <2>4. CASE far[c] = "open"
    <3>1. got' = [got EXCEPT ![c] = Append(@, piece)]
      BY <1>1, <2>4 DEF Deliver
    <3>2. piece = [req |-> Service!Latest(c), part |-> piece.part]
      BY <1>1, OutstandingTurn DEF Piece
    <3>3. Service!Outstanding(c)
      BY <1>1, OutstandingTurn
    <3>4. Conns[c] = "open"
      BY <1>4, <2>1, <2>4 DEF Conns, ConnOf, Attached
    <3>5. Service!Latest(c) \in Served
      <4>1. inbox[l] \in Seq(Request) /\ Len(inbox[l]) \in 1..Len(inbox[l])
        BY <1>1, LenProperties, EmptySeq DEF Inv, TypeOK, NetworkTypeOK
      <4> QED
        BY <1>1, <3>2, <4>1, InServed, OutstandingTurn
    <3>6. Conns' = Conns /\ Served' = Served
      BY <1>2, <2>2, ConnsKept, ServedKept
    <3>7. Service!Answer(c, piece.part)
      BY <1>2, <3>1, <3>2, <3>3, <3>4, <3>5, <3>6 DEF Service!Answer
    <3> QED
      BY <1>1, <3>7 DEF Service!Next
  <2> QED
    BY <2>3, <2>4
<1> QED
  BY <1>6, <1>7

(* The other visits: some end the process, the rest are not seen.          *)
LEMMA VisitServes ==
  ASSUME Inv, Traffic, NEW e \in batch, Visit(e)
  PROVE  [Service!Next]_(Service!vars)
<1>1. CASE AcceptFails(e) \/ RequestThrows(e)
  <2>1. pc' \in Halted /\ UNCHANGED <<far, asked, got, inbox>>
    BY <1>1 DEF AcceptFails, RequestThrows, Proceed, Halted
  <2> QED
    BY <2>1, EndsService
<1>2. CASE Ignore(e) \/ RequestPart(e) \/ ResponseThrows(e) \/ ResponsePart(e)
  <2>1. /\ UNCHANGED <<backlog, epoll.fdt, far, asked, got, inbox>>
        /\ pc \notin Halted /\ pc' \notin Halted
    BY <1>2 DEF Ignore, RequestPart, ClientReads, ResponseThrows, ResponsePart,
       BridgeReads, Handles, Visits, Proceed, Halted
  <2> QED
    BY <2>1, AttachedKept, Unseen DEF SameConn
<1>3. CASE Accept(e)
  BY <1>3, AcceptUnseen
<1>4. CASE RequestOnBridge(e)
  BY <1>4, OnBridgeServes
<1>5. CASE RequestNewBridge(e)
  BY <1>5, NewBridgeServes
<1>6. CASE RequestRefused(e)
  <2>1. e.fd \in ClientFds /\ e.fd \in Fds
    BY <1>6, ClientHandled, NoneAssumption
       DEF RequestRefused, RequestDone, ClientReads, ClientFds
  <2>2. epoll'.fdt = [fd \in Fds |-> IF fd \in BridgeOf(e.fd) THEN None
                                     ELSE epoll.fdt[fd]]
    BY <1>6, <2>1, DropBridgeEffect DEF RequestRefused
  <2>3. /\ UNCHANGED <<backlog, far, asked, got, inbox>>
        /\ pc \notin Halted /\ pc' \notin Halted
    BY <1>6 DEF RequestRefused, RequestDone, ClientReads, Handles, Visits,
       Proceed, Halted
  <2>4. \A fd \in BridgeOf(e.fd) : fd \in Fds => epoll.fdt[fd] \in Links
    BY <2>1, BridgeEnd DEF BridgeOf, LinkOf, Traffic
  <2>5. \A d \in Clients : Connected(d)' <=> Connected(d)
    BY <2>2, <2>4, NoneAssumption, PeersAssumption DEF Connected
  <2> QED
    BY <2>3, <2>5, Unseen DEF SameConn, Attached
<1>7. CASE ResponseDone(e)
  BY <1>7, DoneAnswers
<1>8. CASE ClientHup(e) \/ BridgeHup(e)
  BY <1>8, HupDisconnects DEF Traffic
<1> QED
  BY <1>1, <1>2, <1>3, <1>4, <1>5, <1>6, <1>7, <1>8 DEF Visit

(* A client connects.                                                      *)
LEMMA ConnectServes ==
  ASSUME Inv, NEW c \in Clients, pc \notin Halted, ClientConnect(c),
         UNCHANGED <<epoll, serverVars, batch, pc, loopVars>>
  PROVE  Service!Next
<1>1. /\ far[c] = "absent" /\ far' = [far EXCEPT ![c] = "open"]
      /\ backlog' = Append(backlog, c)
      /\ UNCHANGED <<asked, got, inbox>>
      /\ far \in [Peers -> Far] /\ backlog \in Seq(Clients)
      /\ Len(backlog) \in Nat
  BY LenProperties DEF ClientConnect, Inv, TypeOK, NetworkTypeOK
<1>2. /\ Len(backlog') = Len(backlog) + 1
      /\ backlog'[Len(backlog) + 1] = c
      /\ \A i \in 1..Len(backlog) : backlog'[i] = backlog[i]
  BY <1>1, AppendProperties
<1>3. /\ far'[c] = "open"
      /\ \A d \in Clients : d # c => far'[d] = far[d]
  BY <1>1 DEF Peers
<1>4. Attached(c)'
  <2>1. Len(backlog) + 1 \in 1..Len(backlog')
    BY <1>1, <1>2
  <2> QED
    BY <1>2, <2>1 DEF Attached
<1>5. ASSUME NEW d \in Clients, d # c
      PROVE  SameConn(d)
  <2>1. (\E i \in 1..Len(backlog') : backlog'[i] = d)
          <=> \E i \in 1..Len(backlog) : backlog[i] = d
    BY <1>1, <1>2, <1>5
  <2>2. Connected(d)' <=> Connected(d)
    BY DEF Connected
  <2> QED
    BY <1>3, <1>5, <2>1, <2>2 DEF SameConn, Attached
<1>6. ConnOf(c)' = "open" /\ Conns[c] = "new"
  BY <1>1, <1>3, <1>4 DEF ConnOf, Conns
<1>7. Conns' = [Conns EXCEPT ![c] = "open"] /\ Served' = Served
  BY <1>1, <1>5, <1>6, ConnChanges, ServedKept
<1> QED
  BY <1>1, <1>6, <1>7 DEF Service!Next, Service!Connect

(* A client asks, when it has no request outstanding.                      *)
LEMMA AskServes ==
  ASSUME Traffic, NEW c \in Clients, Attached(c),
         NEW h \in Hosts, ClientAsk(c, h),
         UNCHANGED <<epoll, serverVars, batch, pc, loopVars>>
  PROVE  Service!Next
<1>1. /\ far[c] = "open" /\ turn[c] = "idle"
      /\ asked' = [asked EXCEPT ![c] = Append(@, h)]
      /\ UNCHANGED <<backlog, far, got, inbox>>
  BY DEF ClientAsk
<1>2. Conns' = Conns /\ Served' = Served
  BY <1>1, AttachedKept, ConnsKept, ServedKept DEF SameConn
<1>3. Conns[c] = "open" /\ ~Service!Outstanding(c)
  BY <1>1, OutstandingTurn DEF Conns, ConnOf
<1> QED
  BY <1>1, <1>2, <1>3 DEF Service!Next, Service!Ask

(* What clients and origins do is a step of the service, or is not seen.   *)
LEMMA EnvironmentServes ==
  ASSUME Inv, Traffic, Environment
  PROVE  [Service!Next]_(Service!vars)
<1>1. UNCHANGED <<epoll, serverVars, batch, pc, loopVars>>
  BY DEF Environment
<1>2. ASSUME NEW c \in Clients, ClientStep(c)
      PROVE  [Service!Next]_(Service!vars)
  <2>1. CASE pc \notin Halted /\ ClientConnect(c)
    BY <1>1, <2>1, ConnectServes
  <2>2. CASE Attached(c) /\ \E h \in Hosts : ClientAsk(c, h)
    BY <1>1, <2>2, AskServes
  <2>3. CASE ClientFinish(c)
    <3>1. UNCHANGED <<backlog, far, asked, got, inbox>>
      BY <2>3 DEF ClientFinish
    <3> QED
      BY <1>1, <3>1, AttachedKept, Unseen DEF SameConn
  <2>4. CASE PeerClose(c)
    <3>1. /\ far[c] = "open" /\ far' = [far EXCEPT ![c] = "closed"]
          /\ UNCHANGED <<backlog, asked, got, inbox>>
          /\ far \in [Peers -> Far]
      BY <2>4 DEF PeerClose, Inv, TypeOK, NetworkTypeOK
    <3>2. far'[c] = "closed" /\ \A d \in Clients : d # c => far'[d] = far[d]
      BY <3>1 DEF Peers
    <3>3. \A d \in Clients : d # c => SameConn(d)
      BY <1>1, <3>1, <3>2, AttachedKept DEF SameConn
    <3>4. ConnOf(c)' = "closed"
      BY <3>2 DEF ConnOf
    <3> QED
      BY <3>1, <3>2, <3>3, <3>4, LeavesService
  <2> QED
    BY <1>2, <2>1, <2>2, <2>3, <2>4 DEF ClientStep
<1>3. ASSUME NEW l \in Links, OriginStep(l)
      PROVE  [Service!Next]_(Service!vars)
  <2>1. UNCHANGED <<backlog, asked, got, inbox>>
    BY <1>3 DEF OriginStep, OriginSends, PeerClose
  <2>2. \A d \in Clients : far'[d] = far[d]
    BY <1>3, PeersAssumption
       DEF OriginStep, OriginSends, PeerClose, Inv, TypeOK, NetworkTypeOK, Peers
  <2> QED
    BY <1>1, <2>1, <2>2, AttachedKept, Unseen DEF SameConn
<1> QED
  BY <1>2, <1>3 DEF Environment

-----------------------------------------------------------------------------
(* The theorem.                                                            *)

(* Before anybody connects.                                                *)
LEMMA InitServes == Init => Service!Init
<1> SUFFICES ASSUME Init PROVE Service!Init
  OBVIOUS
<1>1. Conns = [c \in Clients |-> "new"]
  BY DEF Init, NetworkInit, Conns, ConnOf, Peers
<1>2. Served = {}
  <2>1. \A l \in Links : \A i \in 1..Len(inbox[l]) : FALSE
    BY DEF Init, NetworkInit
  <2> QED
    BY <2>1 DEF Served
<1> QED
  BY <1>1, <1>2 DEF Service!Init, Init, NetworkInit

(* Step by step.                                                           *)
LEMMA NextServes == TrafficInv /\ [Next]_vars => [Service!Next]_(Service!vars)
<1> SUFFICES ASSUME Inv, Traffic, [Next]_vars
             PROVE  [Service!Next]_(Service!vars)
  BY DEF TrafficInv
<1>1. CASE Start \/ LoopTest \/ EnterWait \/ EpollWait \/ SigTerm \/ SigInt
           \/ UNCHANGED vars
  <2>1. epoll'.fdt = epoll.fdt
    BY <1>1, FdsAssumption DEF Start, LoopTest, EnterWait, EpollWait, SigTerm,
       SigInt, remove_socket, Inv, TypeOK, Registry
  <2>2. /\ UNCHANGED <<backlog, far, asked, got, inbox>>
        /\ pc' \in Halted <=> pc \in Halted
    BY <1>1 DEF Start, LoopTest, EnterWait, EpollWait, SigTerm, SigInt,
       Interrupt, Halted
  <2> QED
    BY <2>1, <2>2, AttachedKept, Unseen DEF SameConn
<1>2. CASE Exit
  <2>1. pc' \in Halted /\ UNCHANGED <<far, asked, got, inbox>>
    BY <1>2 DEF Exit, Halted
  <2> QED
    BY <2>1, EndsService
<1>3. CASE \E e \in batch : Visit(e)
  BY <1>3, VisitServes
<1>4. CASE Environment
  BY <1>4, EnvironmentServes
<1> QED
  BY <1>1, <1>2, <1>3, <1>4 DEF Next, Loop

(* The proxy implements its service: a request is handed to a server of    *)
(* its host at most once, only what a client waits for is answered, once   *)
(* it was served and at most once, and clients are disconnected one by one *)
(* unless the whole process ends.                                          *)
THEOREM ServiceImplemented == Spec => ImplementsService
BY TrafficInvHolds, InitServes, NextServes, PTL
   DEF Spec, ImplementsService, Service!Spec
=============================================================================
