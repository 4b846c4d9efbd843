------------------------------ MODULE Network -------------------------------
(***************************************************************************)
(* The world around the proxy, reduced to what the code in src/ uses of    *)
(* it: TCP connections with their unread bytes, browsers that speak        *)
(* HTTP/1.1 with keep-alive and send a request only after the answer to    *)
(* the previous one (no pipelining), and origin servers that answer in     *)
(* order and may close whenever they like.  Everything here is external    *)
(* to the repository.                                                      *)
(*                                                                         *)
(* A request travels as two pieces, "head" (request line and some headers) *)
(* and "end" (the rest); a response as "part" and "end", and an origin may *)
(* put an "interim" response (100 Continue), complete by itself, before    *)
(* it.  TCP may deliver pieces one by one or glued together.               *)
(***************************************************************************)
EXTENDS EpollWrapper, Sequences, FiniteSets

CONSTANTS Hosts,        \* values of the Host header
          MaxRequests,  \* bound: requests that all clients send together
          Interim       \* may origins send interim responses?

ASSUME NetworkAssumption ==
  MaxRequests \in Nat /\ Interim \in BOOLEAN /\ None \notin Hosts

VARIABLES backlog,  \* clients whose connection waits in the listen queue
          rx,       \* rx[p]: bytes from peer p that the proxy has not read
          far,      \* far[p]: what peer p did with its end of the connection
          turn,     \* turn[c]: where client c is in its request
          asked,    \* asked[c]: the host of each request c has begun to send
          got,      \* got[c]: the messages client c received
          host,     \* host[l]: the host that link l was opened to, if it was
          inbox,    \* inbox[l]: the requests that reached the origin of l
          replied,  \* replied[l]: how many of them it has answered in full
          stage     \* stage[l]: how far its answer to the next one is sent

clientVars == <<turn, asked, got>>
originVars == <<host, inbox, replied, stage>>
netVars == <<backlog, rx, far, clientVars, originVars>>

Request == [client : Clients, n : Nat \ {0}, host : Hosts]
Piece   == [req : Request, part : {"head", "interim", "part", "end"}]

(* "absent": not connected yet; "open"; "closed": the peer has closed and  *)
(* the proxy's kernel knows (EPOLLRDHUP); "reset": the peer has moreover   *)
(* answered a write of the proxy's with RST.                               *)
Far == {"absent", "open", "closed", "reset"}

NetworkTypeOK ==
  /\ backlog \in Seq(Clients)
  /\ rx      \in [Peers -> Seq(Piece)]
  /\ far     \in [Peers -> Far]
  /\ turn    \in [Clients -> {"idle", "sending", "waiting"}]
  /\ asked   \in [Clients -> Seq(Hosts)]
  /\ got     \in [Clients -> Seq(Piece)]
  /\ host    \in [Links -> Hosts \cup {None}]
  /\ inbox   \in [Links -> Seq(Request)]
  /\ replied \in [Links -> Nat]
  /\ stage   \in [Links -> {"idle", "interim", "part"}]

NetworkInit ==
  /\ backlog = <<>>
  /\ rx      = [p \in Peers |-> <<>>]
  /\ far     = [p \in Peers |-> "absent"]
  /\ turn    = [c \in Clients |-> "idle"]
  /\ asked   = [c \in Clients |-> <<>>]
  /\ got     = [c \in Clients |-> <<>>]
  /\ host    = [l \in Links |-> None]
  /\ inbox   = [l \in Links |-> <<>>]
  /\ replied = [l \in Links |-> 0]
  /\ stage   = [l \in Links |-> "idle"]

Arrive(p, req, part) ==
  rx' = [rx EXCEPT ![p] = Append(@, [req |-> req, part |-> part])]

-----------------------------------------------------------------------------
(* Clients.                                                                *)

ClientConnect(c) ==
  /\ far[c] = "absent"
  /\ far' = [far EXCEPT ![c] = "open"]
  /\ backlog' = Append(backlog, c)
  /\ UNCHANGED <<rx, clientVars, originVars>>

(* The request that client c is sending or waiting for, asked being qs.    *)
Latest(c, qs) == [client |-> c, n |-> Len(qs), host |-> qs[Len(qs)]]

AskedSoFar ==
  Cardinality({cn \in Clients \X (1..MaxRequests) : cn[2] <= Len(asked[cn[1]])})

ClientAsk(c, h) ==
  /\ far[c] = "open" /\ turn[c] = "idle" /\ AskedSoFar < MaxRequests
  /\ asked' = [asked EXCEPT ![c] = Append(@, h)]
  /\ turn' = [turn EXCEPT ![c] = "sending"]
  /\ Arrive(c, Latest(c, asked'[c]), "head")
  /\ UNCHANGED <<backlog, far, got, originVars>>

ClientFinish(c) ==
  /\ far[c] = "open" /\ turn[c] = "sending"
  /\ turn' = [turn EXCEPT ![c] = "waiting"]
  /\ Arrive(c, Latest(c, asked[c]), "end")
  /\ UNCHANGED <<backlog, far, asked, got, originVars>>

-----------------------------------------------------------------------------
(* Origin servers.                                                         *)

OriginSends(l, part) ==
  /\ far[l] = "open" /\ replied[l] < Len(inbox[l])
  /\ CASE part = "interim" -> Interim /\ stage[l] = "idle"
       [] part = "part"    -> stage[l] \in {"idle", "interim"}
       [] part = "end"     -> stage[l] = "part"
  /\ Arrive(l, inbox[l][replied[l] + 1], part)
  /\ stage' = [stage EXCEPT ![l] = IF part = "end" THEN "idle" ELSE part]
  /\ replied' = [replied EXCEPT ![l] = IF part = "end" THEN @ + 1 ELSE @]
  /\ UNCHANGED <<backlog, far, clientVars, host, inbox>>

(* Either side closes its end of the connection, for whatever reason.      *)
PeerClose(p) ==
  /\ far[p] = "open"
  /\ far' = [far EXCEPT ![p] = "closed"]
  /\ UNCHANGED <<backlog, rx, clientVars, originVars>>
=============================================================================
