---------------------------- MODULE ProxyClaims -----------------------------
(***************************************************************************)
(* What messages and checks in the source say of the proxy and its own     *)
(* runs refute.  Each property is checked by a run that ends in a          *)
(* counterexample.                                                         *)
(***************************************************************************)
EXTENDS Proxy

(* The loop visits e, and calls a handler for it.                          *)
Called(e) ==
  /\ pc = "batch" /\ e \in batch /\ e \notin batch'
  /\ epoll.handlers[e.fd] # None

(* epoll_wrapper.cpp:81, "epoll: data_income": there is data, or a         *)
(* connection, where on_data_income is called.                             *)
IncomeMeansData ==
  [][\A e \in Event : Called(e) /\ e.kind = "in"
       => IF epoll.fdt[e.fd] = Listener THEN backlog # <<>>
          ELSE rx[epoll.fdt[e.fd]] # <<>>]_vars

(* http_connection.cpp:74, "couldn't download from fd": a bridge that is   *)
(* given up does not have the whole answer waiting in its socket.          *)
CouldNotDownload ==
  [][\A e \in Event :
       /\ Called(e) /\ e.kind = "rdhup" /\ epoll.handlers[e.fd].kind = "bridge"
       /\ far[epoll.fdt[e.fd]] = "closed"
       => Garbled(Download(e.fd)) \/ ~IsComplete(Download(e.fd))]_vars

(* tcp.h:134-146, "accept failed": an accept() that fails is logged, and   *)
(* the proxy goes on.                                                      *)
AcceptFailureLogged == pc # "accept_threw"

(* tcp_socket.cpp:162-166, "error when writing": a write() that fails is   *)
(* logged, and the proxy goes on.                                          *)
WriteFailureLogged == pc # "sigpipe"

(* proxy.cpp:28, "SIGINT caught; aborting".                                *)
IntStops == "INT" \in signalled ~> pc \in Halted
=============================================================================
