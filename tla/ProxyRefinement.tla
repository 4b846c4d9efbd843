-------------------------- MODULE ProxyRefinement ---------------------------
(***************************************************************************)
(* The proxy implements ProxyService.                                      *)
(***************************************************************************)
EXTENDS Proxy

ConnOf(c) == IF far[c] = "absent" THEN "new"
             ELSE IF far[c] = "open" /\ Attached(c) THEN "open" ELSE "closed"

Conns == [c \in Clients |-> ConnOf(c)]

Served == UNION {{inbox[l][i] : i \in 1..Len(inbox[l])} : l \in Links}

Service == INSTANCE ProxyService WITH conn <- Conns, served <- Served

(* Every step of the proxy and of its environment is one of the service,   *)
(* or changes nothing that its clients and servers can see.                *)
ImplementsService == Service!Spec
=============================================================================
