------------------------- MODULE EpollWrapperProofs -------------------------
(***************************************************************************)
(* What the operations of epoll_wrapper and the calls around them do to a  *)
(* registry that watches a known set of descriptors.                       *)
(***************************************************************************)
EXTENDS EpollWrapper, TLAPS

(* The registry is well formed, `open` are its open descriptors and `S`,   *)
(* all of them open, the watched ones.                                     *)
Consistent(E, open, S) ==
  /\ E \in Registry
  /\ OpenFds(E) = open
  /\ S \subseteq open
  /\ Watches(E, S)

-----------------------------------------------------------------------------
(* A registry is its four tables.                                          *)
LEMMA RegistryFields ==
  ASSUME NEW E \in Registry
  PROVE  /\ E.fdt \in [Fds -> Peers \cup {Listener, None}]
         /\ E.interest \in SUBSET Fds
         /\ E.handlers \in [Fds -> Handler \cup {None}]
         /\ E.fd_status \in [Fds -> Nat]
BY DEF Registry

(* remove_socket of a descriptor that is not watched changes nothing: the  *)
(* second removal that process_events makes after every hang-up.           *)
LEMMA RemoveAbsent ==
  ASSUME NEW E, NEW open, NEW S, Consistent(E, open, S),
         NEW fd \in Fds, fd \notin S
  PROVE  remove_socket(E, fd) = E
BY DEF Consistent, Watches, remove_socket

(* remove_socket of a watched descriptor takes it out of all three tables  *)
(* and leaves it open: what stop() does to the server socket.              *)
LEMMA RemoveWatched ==
  ASSUME NEW E, NEW open, NEW S, Consistent(E, open, S),
         NEW fd \in Fds, fd \in S
  PROVE  LET F == remove_socket(E, fd)
         IN  /\ Consistent(F, open, S \ {fd})
             /\ F.fdt = E.fdt
             /\ F.handlers = [E.handlers EXCEPT ![fd] = None]
<1>1. E.fd_status[fd] = 1 /\ E.interest = S
  BY DEF Consistent, Watches
<1> DEFINE F == remove_socket(E, fd)
<1>2. F = [E EXCEPT !.interest = S \ {fd}, !.handlers[fd] = None,
                    !.fd_status[fd] = 0]
  BY <1>1 DEF remove_socket, Consistent, Registry
<1>3. /\ F.fdt = E.fdt /\ F.interest = S \ {fd}
      /\ F.handlers = [E.handlers EXCEPT ![fd] = None]
      /\ F.fd_status = [E.fd_status EXCEPT ![fd] = 0]
  BY <1>2 DEF Consistent, Registry
<1>4. F \in Registry
  <2>1. E \in Registry
    BY DEF Consistent
  <2>2. [E.handlers EXCEPT ![fd] = None] \in [Fds -> Handler \cup {None}]
    BY <2>1, RegistryFields
  <2>3. [E.fd_status EXCEPT ![fd] = 0] \in [Fds -> Nat]
    BY <2>1, RegistryFields
  <2>4. S \ {fd} \in SUBSET Fds
    BY <1>1, <2>1, RegistryFields
  <2> QED
    BY <1>2, <2>1, <2>2, <2>3, <2>4 DEF Registry
<1>5. OpenFds(F) = open
  BY <1>3 DEF Consistent, OpenFds
<1>6. Watches(F, S \ {fd})
  BY <1>3 DEF Consistent, Watches, Registry
<1> QED
  BY <1>3, <1>4, <1>5, <1>6 DEF Consistent

(* remove_socket followed by the destructor's close(): the end of every    *)
(* connection.                                                             *)
LEMMA RemoveAndClose ==
  ASSUME NEW E, NEW open, NEW S, Consistent(E, open, S),
         NEW fd \in Fds, fd \in S
  PROVE  LET F == close_fd(remove_socket(E, fd), fd)
         IN  /\ Consistent(F, open \ {fd}, S \ {fd})
             /\ F.fdt = [E.fdt EXCEPT ![fd] = None]
             /\ F.handlers = [E.handlers EXCEPT ![fd] = None]
<1> DEFINE R == remove_socket(E, fd)
           F == close_fd(R, fd)
<1>1. /\ Consistent(R, open, S \ {fd}) /\ R.fdt = E.fdt
      /\ R.handlers = [E.handlers EXCEPT ![fd] = None]
  BY RemoveWatched
<1> HIDE DEF R
<1>2. /\ F.fdt = [R.fdt EXCEPT ![fd] = None] /\ F.interest = R.interest \ {fd}
      /\ F.handlers = R.handlers /\ F.fd_status = R.fd_status
      /\ F \in Registry
  BY <1>1 DEF close_fd, Consistent, Registry
<1>3. OpenFds(F) = open \ {fd}
  BY <1>1, <1>2 DEF Consistent, OpenFds, Registry
<1>4. Watches(F, S \ {fd})
  BY <1>1, <1>2 DEF Consistent, Watches
<1>5. S \ {fd} \subseteq open \ {fd}
  BY DEF Consistent
<1> QED
  BY <1>1, <1>2, <1>3, <1>4, <1>5 DEF Consistent, R

(* A new descriptor that add_socket registers: an accepted client or a     *)
(* connected bridge.                                                       *)
LEMMA OpenAndAdd ==
  ASSUME NEW E, NEW open, NEW S, Consistent(E, open, S),
         NEW fd \in FreeFd(E), NEW p \in Peers, NEW h \in Handler
  PROVE  LET F == add_socket(open_fd(E, fd, p), fd, h)
         IN  /\ fd \in Fds /\ fd \notin open
             /\ Consistent(F, open \cup {fd}, S \cup {fd})
             /\ F.fdt = [E.fdt EXCEPT ![fd] = p]
             /\ F.handlers = [E.handlers EXCEPT ![fd] = h]
<1> DEFINE O == open_fd(E, fd, p)
           F == add_socket(O, fd, h)
<1>1. fd \in Fds /\ fd \notin open /\ fd \notin S
  BY DEF FreeFd, Consistent, OpenFds
<1>2. p # None /\ h # None
  BY NoneAssumption DEF Peers
<1>3. /\ O \in Registry /\ O.fdt = [E.fdt EXCEPT ![fd] = p]
      /\ O.interest = S /\ O.handlers = E.handlers /\ O.fd_status = E.fd_status
  BY <1>1 DEF open_fd, Consistent, Registry, Watches
<1>4. O.handlers[fd] = None /\ O.fd_status[fd] = 0
  BY <1>1, <1>3 DEF Consistent, Watches
<1> HIDE DEF O
<1>5. /\ F.fdt = O.fdt /\ F.interest = S \cup {fd}
      /\ F.handlers = [O.handlers EXCEPT ![fd] = h]
      /\ F.fd_status = [O.fd_status EXCEPT ![fd] = 1]
      /\ F \in Registry
  <2>1. F = [O EXCEPT !.interest = S \cup {fd}, !.handlers[fd] = h,
                      !.fd_status[fd] = 1]
    BY <1>1, <1>3, <1>4 DEF add_socket, Registry
  <2>2. [O.handlers EXCEPT ![fd] = h] \in [Fds -> Handler \cup {None}]
    BY <1>3, RegistryFields
  <2>3. [O.fd_status EXCEPT ![fd] = 1] \in [Fds -> Nat]
    BY <1>3, RegistryFields
  <2>4. S \cup {fd} \in SUBSET Fds
    BY <1>1, <1>3, RegistryFields
  <2> QED
    BY <1>3, <2>1, <2>2, <2>3, <2>4 DEF Registry
<1>6. OpenFds(F) = open \cup {fd}
  BY <1>1, <1>2, <1>3, <1>5 DEF Consistent, OpenFds, Registry
<1>7. Watches(F, S \cup {fd})
  BY <1>1, <1>2, <1>3, <1>5 DEF Consistent, Watches, Registry
<1>8. S \cup {fd} \subseteq open \cup {fd}
  BY DEF Consistent
<1> QED
  BY <1>1, <1>3, <1>5, <1>6, <1>7, <1>8 DEF Consistent, O

(* The listening socket is the first descriptor, and is registered first.  *)
LEMMA ListenAndAdd ==
  ASSUME NEW h \in Handler
  PROVE  LET E == add_socket(open_fd(EmptyRegistry, ListenFd, Listener), ListenFd, h)
         IN  /\ E.fdt = [fd \in Fds |-> IF fd = ListenFd THEN Listener ELSE None]
             /\ E.handlers = [fd \in Fds |-> IF fd = ListenFd THEN h ELSE None]
             /\ Consistent(E, {ListenFd}, {ListenFd})
<1> DEFINE O == open_fd(EmptyRegistry, ListenFd, Listener)
           E == add_socket(O, ListenFd, h)
<1>1. ListenFd \in Fds /\ Listener # None
  BY FdsAssumption, NoneAssumption
<1>2. h \in Handler /\ h # None
  BY NoneAssumption
<1>3. /\ E.fdt = [fd \in Fds |-> IF fd = ListenFd THEN Listener ELSE None]
      /\ E.interest = {ListenFd}
      /\ E.handlers = [fd \in Fds |-> IF fd = ListenFd THEN h ELSE None]
      /\ E.fd_status = [fd \in Fds |-> IF fd = ListenFd THEN 1 ELSE 0]
      /\ E \in Registry
  <2>1. O = [fdt       |-> [fd \in Fds |-> IF fd = ListenFd THEN Listener ELSE None],
             interest  |-> {},
             handlers  |-> [fd \in Fds |-> None],
             fd_status |-> [fd \in Fds |-> 0]]
    BY <1>1 DEF open_fd, EmptyRegistry
  <2> HIDE DEF O
  <2>2. E = add_socket(O, ListenFd, h)
    OBVIOUS
  <2> HIDE DEF E
  <2>3. /\ O.fdt = [fd \in Fds |-> IF fd = ListenFd THEN Listener ELSE None]
        /\ O.interest = {}
        /\ O.handlers = [fd \in Fds |-> None]
        /\ O.fd_status = [fd \in Fds |-> 0]
    BY <2>1
  <2>4. O.handlers[ListenFd] = None /\ O.fd_status[ListenFd] + 1 = 1
    BY <1>1, <2>3
  <2>5. E = [O EXCEPT !.interest = O.interest \cup {ListenFd},
                      !.handlers[ListenFd] = h,
                      !.fd_status[ListenFd] = O.fd_status[ListenFd] + 1]
    BY <1>1, <2>1, <2>2, <2>4 DEF add_socket
  <2>6. E = [fdt       |-> O.fdt,
             interest  |-> {ListenFd},
             handlers  |-> [O.handlers EXCEPT ![ListenFd] = h],
             fd_status |-> [O.fd_status EXCEPT ![ListenFd] = 1]]
    BY <2>1, <2>4, <2>5
  <2>7. /\ E.fdt = O.fdt
        /\ E.interest = {ListenFd}
        /\ E.handlers = [fd \in Fds |-> IF fd = ListenFd THEN h ELSE None]
        /\ E.fd_status = [fd \in Fds |-> IF fd = ListenFd THEN 1 ELSE 0]
    BY <1>1, <2>6, <2>3
  <2>8. E.fdt \in [Fds -> Peers \cup {Listener, None}]
    BY <2>3, <2>7
  <2>9. E.handlers \in [Fds -> Handler \cup {None}]
    BY <1>2, <2>7
  <2> QED
    BY <1>1, <2>3, <2>6, <2>7, <2>8, <2>9 DEF Registry
<1> HIDE DEF O, E
<1>4. OpenFds(E) = {ListenFd}
  <2>1. \A fd \in Fds : E.fdt[fd] # None <=> fd = ListenFd
    <3>1. E.fdt = [fd \in Fds |-> IF fd = ListenFd THEN Listener ELSE None]
      BY <1>3
    <3> QED
      BY <1>1, <3>1
  <2> QED
    BY <1>1, <2>1 DEF OpenFds
<1>5. Watches(E, {ListenFd})
  BY <1>1, <1>2, <1>3 DEF Watches
<1> QED
  BY <1>3, <1>4, <1>5 DEF Consistent, O, E
=============================================================================
