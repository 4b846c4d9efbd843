----------------------------- MODULE ChatOrder ------------------------------
(***************************************************************************)
(* What stands between the descriptors, the array of events, the broadcast *)
(* and the log of the chat server at any moment: what is inductive about   *)
(* ClientsWatched, FeedIsLog, LogIsTruth and HangupIsReal.                 *)
(***************************************************************************)
EXTENDS Chat

HandlersMatch ==
  /\ epoll.fdt[ListenFd] = Listener
  /\ epoll.handlers[ListenFd].kind = "accept"
  /\ \A fd \in ClientFds : epoll.handlers[fd].kind = "client"

(* The handler that runs, and the last notice, are about event e.          *)
Handling(e) == talk # <<>> /\ talk[1].event = e

(* An event of the array is still of the connection that it was made for,  *)
(* and there is one for each: it has closed, or there is something to      *)
(* read until its handler runs.                                            *)
EventsCurrent ==
  \A e \in batch :
    /\ e.fd \in Watched
    /\ \A f \in batch : e.fd = f.fd => e = f
    /\ e.kind = "rdhup" =>
         e.fd # ListenFd /\ far[clients[e.fd].peer] \in {"closed", "reset"}
    /\ e.kind = "in" /\ e.fd # ListenFd =>
         rx[clients[e.fd].peer] # <<>> \/ Handling(e)

(* A broadcast is the last notice of the log, on its way to clients that   *)
(* it is not about.                                                        *)
BroadcastCurrent ==
  /\ talk # <<>> <=> pc \in {"talk", "sigpipe"}
  /\ talk # <<>> =>
       /\ talk[1].event \in batch
       /\ log # <<>> /\ talk[1].notice = log[Len(log)].notice
       /\ \A fd \in talk[1].todo :
            fd \in ClientFds /\ clients[fd].peer # log[Len(log)].from
       /\ talk[1].event.kind = "rdhup" =>
            /\ clients[talk[1].event.fd].peer = log[Len(log)].from
            /\ log[Len(log)].notice.what = "disconnected"

(* A client waits in the listen queue once, before anything is told of it, *)
(* and then has one descriptor, until it has closed.                       *)
ClientsPlaced ==
  /\ \A i \in 1..Len(backlog) :
       /\ far[backlog[i]] # "absent" /\ About(backlog[i]) = {}
       /\ \A fd \in ClientFds : clients[fd].peer # backlog[i]
       /\ \A j \in 1..Len(backlog) : backlog[i] = backlog[j] => i = j
  /\ \A f \in ClientFds :
       /\ far[clients[f].peer] # "absent"
       /\ \A g \in ClientFds : clients[f].peer = clients[g].peer => f = g
  /\ \A c \in Clients : About(c) # {} =>
       /\ far[c] # "absent"
       /\ far[c] = "open" => \E fd \in ClientFds : clients[fd].peer = c

Places ==
  /\ HandlersMatch
  /\ EventsCurrent
  /\ BroadcastCurrent
  /\ ClientsPlaced

PlacesInv == TypeOK /\ ClientsWatched /\ Places

-----------------------------------------------------------------------------
(* A client of the table has been announced under its id, and its end is   *)
(* announced only by the handler that erases it.                           *)
ClientsAnnounced ==
  \A fd \in ClientFds :
    /\ \E i \in About(clients[fd].peer) : log[i].notice.id = clients[fd].id
    /\ \A i \in About(clients[fd].peer) :
         log[i].notice.what = "disconnected" =>
           talk # <<>> /\ talk[1].event.fd = fd /\ talk[1].event.kind = "rdhup"

Known == {log[i].from : i \in 1..Len(log)}

(* The id of the n-th client after the first.                              *)
IdOf(n) == IF FirstId + n < IdRange THEN FirstId + n ELSE FirstId + n - IdRange

IdsCounted ==
  /\ id_counter = IdOf(Cardinality(Known))
  /\ \A i \in 1..Len(log) :
       \E n \in 0..(Cardinality(Known) - 1) : log[i].notice.id = IdOf(n)

ChatInv ==
  PlacesInv /\ ClientsAnnounced /\ IdsCounted /\ LogIsTruth /\ FeedIsLog
=============================================================================
