---------------------------- MODULE EpollWrapper ----------------------------
(***************************************************************************)
(* epoll_wrapper (src/epoll_wrapper.cpp) together with the descriptors it  *)
(* watches.  The handlers of the event loop call add_socket, remove_socket *)
(* and close_fd several times in a row, so the operations are operators    *)
(* on a registry E, which the composing module keeps in a variable:        *)
(*   E.fdt        the descriptor table of the process: who is at the other *)
(*                end of each descriptor (the kernel's, and the sfd of the *)
(*                tcp_socket objects)                                      *)
(*   E.interest   the descriptors in the kernel's epoll set efd            *)
(*   E.handlers   the map from descriptors to epoll_handler closures       *)
(*   E.fd_status  the vector of (fd, tag) pairs: how many of its elements  *)
(*                name each descriptor, since add_socket may push twice    *)
(***************************************************************************)
EXTENDS Naturals

CONSTANTS Fds,      \* descriptors the process may use for sockets
          ListenFd, \* the descriptor of the listening server_socket
          Clients,  \* TCP connections that clients open to the proxy
          Links,    \* TCP connections that the proxy opens to origin servers
          Listener, \* stands for the far end of ListenFd, which has none
          None      \* an absent map entry, a closed descriptor

ASSUME FdsAssumption == Fds \subseteq Nat /\ ListenFd \in Fds

ASSUME PeersAssumption ==
  Clients \cap Links = {} /\ Listener \notin Clients \cup Links

Peers == Clients \cup Links

(* A registered closure.  A bridge's closures capture &connection, the     *)
(* node of tcp_server::clients it was made for: `connection` is the key of *)
(* that node and `client` the connection that lived in it then.            *)
Handler == [kind : {"accept", "client", "bridge"}, connection : Fds,
            client : Clients \cup {None}]

ASSUME NoneAssumption ==
  None \notin Clients \cup Links \cup {Listener} \cup Handler

Registry == [fdt       : [Fds -> Peers \cup {Listener, None}],
             interest  : SUBSET Fds,
             handlers  : [Fds -> Handler \cup {None}],
             fd_status : [Fds -> Nat]]

EmptyRegistry == [fdt       |-> [fd \in Fds |-> None],
                  interest  |-> {},
                  handlers  |-> [fd \in Fds |-> None],
                  fd_status |-> [fd \in Fds |-> 0]]

-----------------------------------------------------------------------------
(* The kernel hands out the lowest free descriptor.  The set is empty when *)
(* the descriptor limit is reached, otherwise it has one element.          *)
FreeFd(E) ==
  {fd \in Fds : /\ E.fdt[fd] = None
                /\ \A low \in Fds : E.fdt[low] = None => fd <= low}

(* socket()+connect(), or accept(), gives descriptor fd to peer p.         *)
open_fd(E, fd, p) == [E EXCEPT !.fdt[fd] = p]

(* Mutant of close_fd: the destructor does not close its descriptor.       *)
leak_fd(E, fd) == [E EXCEPT !.interest = @ \ {fd}]

(* close() also drops the descriptor from the epoll set: nothing in the    *)
(* program duplicates descriptors.  handlers and fd_status stay.           *)
close_fd(E, fd) == [E EXCEPT !.fdt[fd] = None, !.interest = @ \ {fd}]

(* handlers.insert keeps an entry that is already there; EPOLL_CTL_ADD of  *)
(* a member fails, which is only logged.                                   *)
add_socket(E, fd, handler) ==
  [E EXCEPT !.interest      = @ \cup {fd},
            !.handlers[fd]  = IF @ = None THEN handler ELSE @,
            !.fd_status[fd] = @ + 1]

(* Mutant of remove_socket: it does not look whether fd is there.          *)
remove_unseen(E, fd) == [E EXCEPT !.interest      = @ \ {fd},
                                  !.handlers[fd]  = None,
                                  !.fd_status[fd] = @ - 1]

(* Only a descriptor found in fd_status is removed, and one element of the *)
(* vector with it; otherwise the call only logs a warning.                 *)
remove_socket(E, fd) ==
  IF E.fd_status[fd] = 0 THEN E
  ELSE [E EXCEPT !.interest      = @ \ {fd},
                 !.handlers[fd]  = None,
                 !.fd_status[fd] = @ - 1]

-----------------------------------------------------------------------------
(* The registry watches exactly the descriptors of S: each is in the epoll *)
(* set, has a handler and one fd_status element; no other has any of them. *)
Watches(E, S) ==
  /\ E.interest = S
  /\ \A fd \in Fds : /\ fd \in S <=> E.handlers[fd] # None
                    /\ E.fd_status[fd] = IF fd \in S THEN 1 ELSE 0

OpenFds(E) == {fd \in Fds : E.fdt[fd] # None}
=============================================================================
