---------------------------- MODULE ProxyService ----------------------------
(***************************************************************************)
(* What the proxy promises its clients, without descriptors, bridges and   *)
(* events: a request is handed to a server of its host at most once, only  *)
(* the request a client waits for is answered, only once it was served,    *)
(* and at most once; and a client is disconnected on its own, unless the   *)
(* whole service stops.                                                    *)
(***************************************************************************)
EXTENDS Naturals, Sequences

CONSTANTS Clients, Hosts

VARIABLES conn,   \* conn[c]: "new", "open" or "closed"
          asked,  \* asked[c]: the hosts of c's requests
          served, \* the requests that a server received
          got     \* got[c]: the messages c received, in order

vars == <<conn, asked, served, got>>

Init ==
  /\ conn = [c \in Clients |-> "new"]
  /\ asked = [c \in Clients |-> <<>>]
  /\ served = {}
  /\ got = [c \in Clients |-> <<>>]

Latest(c) == [client |-> c, n |-> Len(asked[c]), host |-> asked[c][Len(asked[c])]]

(* c has asked for something and does not have the final answer.           *)
Outstanding(c) ==
  /\ asked[c] # <<>>
  /\ \A i \in 1..Len(got[c]) : got[c][i] # [req |-> Latest(c), part |-> "end"]

Connect(c) ==
  /\ conn[c] = "new"
  /\ conn' = [conn EXCEPT ![c] = "open"]
  /\ UNCHANGED <<asked, served, got>>

Ask(c, h) ==
  /\ conn[c] = "open" /\ ~Outstanding(c)
  /\ asked' = [asked EXCEPT ![c] = Append(@, h)]
  /\ UNCHANGED <<conn, served, got>>

(* A client that has left may still have its request served.               *)
Serve(c) ==
  /\ Outstanding(c) /\ Latest(c) \notin served
  /\ served' = served \cup {Latest(c)}
  /\ UNCHANGED <<conn, asked, got>>

(* "end" is the final answer, "interim" a 100 Continue before it.          *)
Answer(c, part) ==
  /\ conn[c] = "open" /\ Outstanding(c) /\ Latest(c) \in served
  /\ got' = [got EXCEPT ![c] = Append(@, [req |-> Latest(c), part |-> part])]
  /\ UNCHANGED <<conn, asked, served>>

Disconnect(c) ==
  /\ conn[c] = "open"
  /\ conn' = [conn EXCEPT ![c] = "closed"]
  /\ UNCHANGED <<asked, served, got>>

Stop ==
  /\ conn' = [c \in Clients |-> IF conn[c] = "open" THEN "closed" ELSE conn[c]]
  /\ UNCHANGED <<asked, served, got>>

Next ==
  \/ \E c \in Clients : \/ Connect(c) \/ Serve(c) \/ Disconnect(c)
                        \/ \E h \in Hosts : Ask(c, h)
                        \/ \E part \in {"interim", "end"} : Answer(c, part)
  \/ Stop

Spec == Init /\ [][Next]_vars
=============================================================================
