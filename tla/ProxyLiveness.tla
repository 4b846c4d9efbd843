--------------------------- MODULE ProxyLiveness ----------------------------
(***************************************************************************)
(* What the proxy must eventually do, and the service it implements.       *)
(***************************************************************************)
EXTENDS Proxy

(* A connection whose far end has closed is given up by the proxy.         *)
HangupSeen ==
  \A p \in Peers :
    (Attached(p) /\ far[p] \in {"closed", "reset"}) ~> ~Attached(p)

Reached(c, n) ==
  \E l \in Links : \E i \in 1..Len(inbox[l]) :
    inbox[l][i].client = c /\ inbox[l][i].n = n

(* A complete request for a host that can be connected to reaches a server *)
(* of that host, unless the client's connection ends.                      *)
RequestForwarded ==
  \A c \in Clients, n \in 1..MaxRequests :
    (turn[c] = "waiting" /\ Len(asked[c]) = n) ~> (Reached(c, n) \/ ~Attached(c))

Answered(c, n) ==
  \E i \in 1..Len(got[c]) : got[c][i].part = "end" /\ got[c][i].req.n = n

(* An answer that has arrived in full at the proxy reaches the client,     *)
(* unless the client's connection ends.                                    *)
AnswerForwarded ==
  \A l \in Links, c \in Clients, n \in 1..MaxRequests :
    (\E i \in 1..Len(rx[l]) : /\ rx[l][i].part = "end"
                              /\ rx[l][i].req.client = c /\ rx[l][i].req.n = n)
      ~> (Answered(c, n) \/ ~Attached(c))
=============================================================================
