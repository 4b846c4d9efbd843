---------------------------- MODULE ProxyTraffic ----------------------------
(***************************************************************************)
(* Where a request and the answer to it can be, at any moment, on their    *)
(* way through the proxy: what is inductive about IncomeIsOneRequest,      *)
(* DownloadIsAwaited, RoutedOnce and HangupIsPrivate.                      *)
(***************************************************************************)
EXTENDS Proxy

(* A connection has one descriptor at most.  A client waits in the listen  *)
(* queue once, and before it has a descriptor.                             *)
PeersDistinct ==
  /\ \A f, g \in Fds :
       epoll.fdt[f] \in Peers /\ epoll.fdt[f] = epoll.fdt[g] => f = g
  /\ \A p \in Peers : Connected(p) => far[p] # "absent"
  /\ \A i, j \in 1..Len(backlog) :
       /\ far[backlog[i]] # "absent" /\ ~Connected(backlog[i])
       /\ backlog[i] = backlog[j] => i = j

(* r, the bytes of client c that no request was made of yet, is what the   *)
(* client's turn says: all of its request, or nothing once that is handed  *)
(* over, while it waits.                                                   *)
Fits(c, r) ==
  LET piece(part) == [req |-> Latest(c, asked[c]), part |-> part]
  IN  \/ turn[c] \in {"idle", "waiting"} /\ r = <<>>
      \/ turn[c] = "sending" /\ r = <<piece("head")>>
      \/ turn[c] = "waiting" /\ r = <<piece("head"), piece("end")>>

IncomeFits ==
  /\ \A c \in Clients : far[c] = "absent" => turn[c] = "idle" /\ rx[c] = <<>>
  /\ \A i \in 1..Len(backlog) : Fits(backlog[i], rx[backlog[i]])
  /\ \A fd \in ClientFds : Fits(clients[fd], Income(fd))

(* A request that reached a server is one that its client has sent in full *)
(* and that the proxy does not hold any more.                              *)
HandedOver(req) ==
  /\ req.n <= Len(asked[req.client]) /\ far[req.client] # "absent"
  /\ \A i \in 1..Len(backlog) : backlog[i] # req.client
  /\ req.n = Len(asked[req.client]) =>
       /\ turn[req.client] # "sending"
       /\ \A fd \in Fds : clients[fd] = req.client => Income(fd) = <<>>

InboxesHandedOver ==
  \A l \in Links : \A i \in 1..Len(inbox[l]) : HandedOver(inbox[l][i])

(* A bridge has at most one request to be answered, the last it was given, *)
(* which is the one its client waits for; and so has all that is on its    *)
(* way back.                                                               *)
BridgeAnswers(c, l, download) ==
  LET Awaited == turn[c] = "waiting"
                 /\ inbox[l][Len(inbox[l])] = Latest(c, asked[c])
  IN  /\ inbox[l] # <<>> /\ replied[l] <= Len(inbox[l])
      /\ replied[l] < Len(inbox[l]) => Awaited /\ replied[l] + 1 = Len(inbox[l])
      /\ \A i \in 1..Len(download) :
           /\ Awaited /\ download[i].req = Latest(c, asked[c])
           /\ download[i].part = "end" => replied[l] = Len(inbox[l])

BridgesAnswer ==
  /\ \A l \in Links : host[l] = None => rx[l] = <<>> /\ replied[l] = 0
  /\ \A fd \in Fds : con_map[fd] # None =>
       BridgeAnswers(clients[fd], epoll.fdt[con_map[fd].fd],
                     Download(con_map[fd].fd))

(* A client is at a request until it has the answer to it, and has none to *)
(* a request it has yet to ask.                                            *)
AnswersGiven ==
  \A c \in Clients :
    /\ turn[c] # "idle" <=>
         /\ asked[c] # <<>>
         /\ \A i \in 1..Len(got[c]) :
              got[c][i] # [req |-> Latest(c, asked[c]), part |-> "end"]
    /\ \A i \in 1..Len(got[c]) : got[c][i].req.n <= Len(asked[c])

Traffic ==
  /\ PeersDistinct
  /\ IncomeFits
  /\ RoutedOnce
  /\ InboxesHandedOver
  /\ BridgesAnswer
  /\ AnswersGiven

TrafficInv == Inv /\ Traffic
=============================================================================
