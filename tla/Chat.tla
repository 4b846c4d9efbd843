-------------------------------- MODULE Chat ---------------------------------
(***************************************************************************)
(* The chat server: main2 and the handlers of init1 (src/server.cpp) on    *)
(* tcp_server (src/tcp.h) and the epoll loop.  A handler tells every other *)
(* client what has happened, one blocking write after the other, so that   *)
(* the rest of the world moves while a handler runs: a broadcast is kept   *)
(* in `talk`, and each of its writes is a step.                            *)
(***************************************************************************)
EXTENDS EpollWrapper, TcpSocket, FiniteSets

CONSTANTS MaxDeeds, \* bound: lines and closings of all clients together
          Buffer,   \* bound: notices that fit into the sockets to a client
          IdRange,  \* how many values an int has
          FirstId   \* id_counter, which nobody initializes

ASSUME ChatAssumption ==
  /\ Clients \subseteq Nat
  /\ MaxDeeds \in Nat /\ Buffer \in Nat \ {0}
  /\ IsFiniteSet(Clients)
  /\ IdRange \in Nat /\ Cardinality(Clients) < IdRange
  /\ FirstId \in 0..(IdRange - 1)

VARIABLES backlog,    \* clients whose connection waits in the listen queue
          far,        \* far[c]: what client c did with its end
          said,       \* said[c]: how many lines client c has sent
          rx,         \* rx[c]: those of them the server has not read
          heard,      \* heard[c]: the notices that were written to c
          unread,     \* unread[c]: how many of them c has not read
          epoll,      \* the epoll_wrapper and the descriptor table
          clients,    \* tcp_server::clients, from fd to the tcp_connection
          id_counter, \* tcp_server::id_counter
          batch,      \* the events of the array that the loop has to visit
          talk,       \* the handler that runs, and who is still to be told
          pc,         \* where the loop is, or how the process ended
          log         \* history: the notices, with whom they are about

worldVars == <<backlog, far, said, heard, unread>>
serverVars == <<epoll, clients, id_counter>>
vars == <<worldVars, rx, serverVars, batch, talk, pc, log>>

Halted == {"accept_threw", "sigpipe"}

(* "CLIENT #id CONNECTED", "CLIENT #id DISCONNECTED", "CLIENT #id: lines". *)
Notice == [id : 0..(IdRange - 1), what : {"connected", "disconnected", "says"},
           lines : Seq(Nat)]

Connection == [peer : Clients, id : 0..(IdRange - 1)]
ASSUME ConnectionAssumption == None \notin Connection

Event == [fd : Fds, kind : {"in", "rdhup"}]
Talk == [event : Event, notice : Notice, todo : SUBSET Fds]

TypeOK ==
  /\ backlog \in Seq(Clients)
  /\ far    \in [Clients -> {"absent", "open", "closed", "reset"}]
  /\ said   \in [Clients -> Nat]         /\ rx     \in [Clients -> Seq(Nat)]
  /\ heard  \in [Clients -> Seq(Notice)] /\ unread \in [Clients -> 0..Buffer]
  /\ epoll  \in Registry
  /\ clients \in [Fds -> Connection \cup {None}]
  /\ id_counter \in 0..(IdRange - 1)
  /\ batch \subseteq Event
  /\ talk \in {<<>>} \cup Seq(Talk) /\ Len(talk) <= 1
  /\ pc \in {"wait", "batch", "talk"} \cup Halted
  /\ log \in Seq([from : Clients, notice : Notice])

AcceptHandler == [kind |-> "accept", connection |-> ListenFd, client |-> None]
ClientHandler(fd, c) == [kind |-> "client", connection |-> fd, client |-> c]

(* main2, up to the loop in start().                                       *)
Init ==
  /\ backlog = <<>>
  /\ far    = [c \in Clients |-> "absent"]
  /\ said   = [c \in Clients |-> 0]
  /\ rx     = [c \in Clients |-> <<>>]
  /\ heard  = [c \in Clients |-> <<>>]
  /\ unread = [c \in Clients |-> 0]
  /\ epoll  = add_socket(open_fd(EmptyRegistry, ListenFd, Listener),
                         ListenFd, AcceptHandler)
  /\ clients = [fd \in Fds |-> None]
  /\ id_counter = FirstId
  /\ batch = {} /\ talk = <<>> /\ pc = "wait"
  /\ log = <<>>

-----------------------------------------------------------------------------
(* Clients connect once, say lines, read what they are told, and leave.    *)
(* They are numbered in the order in which they connect.                   *)

ClientConnect(c) ==
  /\ far[c] = "absent" /\ \A d \in Clients : d < c => far[d] # "absent"
  /\ far' = [far EXCEPT ![c] = "open"]
  /\ backlog' = Append(backlog, c)
  /\ UNCHANGED <<said, rx, heard, unread, serverVars, batch, talk, pc, log>>

Deeds ==
  {cn \in Clients \X (0..MaxDeeds) :
     IF cn[2] = 0 THEN far[cn[1]] \in {"closed", "reset"} ELSE cn[2] <= said[cn[1]]}

ClientSays(c) ==
  /\ far[c] = "open" /\ Cardinality(Deeds) < MaxDeeds
  /\ said' = [said EXCEPT ![c] = @ + 1]
  /\ rx' = [rx EXCEPT ![c] = Append(@, said'[c])]
  /\ UNCHANGED <<backlog, far, heard, unread, serverVars, batch, talk, pc, log>>

ClientReads(c) ==
  /\ far[c] = "open" /\ unread[c] > 0
  /\ unread' = [unread EXCEPT ![c] = 0]
  /\ UNCHANGED <<backlog, far, said, rx, heard, serverVars, batch, talk, pc, log>>

ClientCloses(c) ==
  /\ far[c] = "open" /\ Cardinality(Deeds) < MaxDeeds
  /\ far' = [far EXCEPT ![c] = "closed"]
  /\ unread' = [unread EXCEPT ![c] = 0]
  /\ UNCHANGED <<backlog, said, rx, heard, serverVars, batch, talk, pc, log>>

-----------------------------------------------------------------------------
(* The loop: epoll_wrapper::process_events.  MAXEVENTS is more than the    *)
(* descriptors there are.                                                  *)

Ready(p) == IF p = Listener THEN backlog # <<>> ELSE rx[p] # <<>> \/ far[p] # "open"

EventFor(fd, p) ==
  [fd   |-> fd,
   kind |-> IF p # Listener /\ far[p] # "open" THEN "rdhup" ELSE "in"]

EpollWait ==
  /\ pc = "wait"
  /\ batch' = {EventFor(fd, epoll.fdt[fd]) :
                 fd \in {f \in epoll.interest : Ready(epoll.fdt[f])}}
  /\ batch' # {}
  /\ pc' = "batch"
  /\ UNCHANGED <<worldVars, rx, serverVars, talk, log>>

Handles(e, kind) ==
  /\ pc = "batch" /\ e \in batch
  /\ epoll.handlers[e.fd] # None
  /\ epoll.handlers[e.fd].kind = kind

(* What a handler has to tell, about connection con on descriptor fd: the  *)
(* loop over clients passes over the one with the same descriptor.         *)
Others(fd) == {i \in Fds : clients[i] # None /\ i # fd}

Tells(e, con, todo, what, lines) ==
  LET notice == [id |-> con.id, what |-> what, lines |-> lines]
  IN  /\ talk' = <<[event |-> e, notice |-> notice, todo |-> todo]>>
      /\ log' = Append(log, [from |-> con.peer, notice |-> notice])
      /\ pc' = "talk"

-----------------------------------------------------------------------------
(* tcp_server's accept handler, followed by init1's on_connect.            *)

(* Mutant of Accept: id_counter stays.                                     *)
AcceptSameId(e) ==
  /\ Handles(e, "accept") /\ backlog # <<>>
  /\ \E fd \in FreeFd(epoll) :
       LET con == [peer |-> Head(backlog), id |-> id_counter]
       IN  /\ epoll' = add_socket(open_fd(epoll, fd, con.peer), fd,
                                  ClientHandler(fd, con.peer))
           /\ clients' = [clients EXCEPT ![fd] = con]
           /\ Tells(e, con, Others(fd), "connected", <<>>)
  /\ backlog' = Tail(backlog)
  /\ UNCHANGED <<far, said, rx, heard, unread, id_counter, batch>>

(* Mutant of Accept: epoll.add_socket is not called.                       *)
AcceptUnwatched(e) ==
  /\ Handles(e, "accept") /\ backlog # <<>>
  /\ \E fd \in FreeFd(epoll) :
       LET con == [peer |-> Head(backlog), id |-> id_counter]
       IN  /\ epoll' = open_fd(epoll, fd, con.peer)
           /\ clients' = [clients EXCEPT ![fd] = con]
           /\ Tells(e, con, Others(fd), "connected", <<>>)
  /\ id_counter' = (id_counter + 1) % IdRange
  /\ backlog' = Tail(backlog)
  /\ UNCHANGED <<far, said, rx, heard, unread, batch>>

Accept(e) ==
  /\ Handles(e, "accept") /\ backlog # <<>>
  /\ \E fd \in FreeFd(epoll) :
       LET con == [peer |-> Head(backlog), id |-> id_counter]
       IN  /\ epoll' = add_socket(open_fd(epoll, fd, con.peer), fd,
                                  ClientHandler(fd, con.peer))
           /\ clients' = [clients EXCEPT ![fd] = con]
           /\ Tells(e, con, Others(fd), "connected", <<>>)
  /\ id_counter' = (id_counter + 1) % IdRange
  /\ backlog' = Tail(backlog)
  /\ UNCHANGED <<far, said, rx, heard, unread, batch>>

(* accept() returns -1, at the limit of the process or of the system: it   *)
(* is logged, and add_flag(O_NONBLOCK) throws.                             *)
AcceptFails(e) ==
  /\ Handles(e, "accept")
  /\ pc' = "accept_threw"
  /\ UNCHANGED <<worldVars, rx, serverVars, batch, talk, log>>

(* init1's on_data_income: recieve_data takes all that is there, and when  *)
(* that is nothing nobody is told.                                         *)
Income(e) ==
  /\ Handles(e, "client") /\ e.kind = "in"
  /\ LET con == clients[e.fd]
     IN  /\ Tells(e, con, IF rx[con.peer] = <<>> THEN {} ELSE Others(e.fd),
                  "says", rx[con.peer])
         /\ rx' = [rx EXCEPT ![con.peer] = <<>>]
  /\ UNCHANGED <<worldVars, serverVars, batch>>

(* init1's on_disconnect.                                                  *)
Hangup(e) ==
  /\ Handles(e, "client") /\ e.kind = "rdhup"
  /\ Tells(e, clients[e.fd], Others(e.fd), "disconnected", <<>>)
  /\ UNCHANGED <<worldVars, rx, serverVars, batch>>

-----------------------------------------------------------------------------
(* The loop over clients, in the order of their descriptors.               *)

Telling(fd) ==
  /\ pc = "talk"
  /\ fd \in talk[1].todo /\ \A i \in talk[1].todo : fd <= i
  /\ talk' = <<[talk[1] EXCEPT !.todo = @ \ {fd}]>>

(* send_data to a client that is there: its socket was made non-blocking   *)
(* when it was accepted, so revert_flag makes it block until there is room.*)
TellOpen(fd) ==
  /\ Telling(fd)
  /\ LET c    == clients[fd].peer
         room == unread[c] < Buffer
     IN  /\ far[c] = "open"
         /\ room \/ revert_flag(add_flag(blocking)).nonblock
         /\ heard' = IF room THEN [heard EXCEPT ![c] = Append(@, talk[1].notice)]
                     ELSE heard
         /\ unread' = IF room THEN [unread EXCEPT ![c] = @ + 1] ELSE unread
  /\ UNCHANGED <<backlog, far, said, rx, serverVars, batch, pc, log>>

(* To one that has closed: nobody reads it, and RST comes back some time.  *)
TellClosed(fd) ==
  /\ Telling(fd) /\ far[clients[fd].peer] = "closed"
  /\ far' \in {far, [far EXCEPT ![clients[fd].peer] = "reset"]}
  /\ UNCHANGED <<backlog, said, rx, heard, unread, serverVars, batch, pc, log>>

(* To one whose RST has come: SIGPIPE, which nobody ignores.               *)
TellReset(fd) ==
  /\ pc = "talk"
  /\ fd \in talk[1].todo /\ \A i \in talk[1].todo : fd <= i
  /\ far[clients[fd].peer] = "reset"
  /\ pc' = "sigpipe"
  /\ UNCHANGED <<worldVars, rx, serverVars, batch, talk, log>>

Proceed(e) ==
  /\ batch' = batch \ {e}
  /\ talk' = <<>>
  /\ pc' = IF batch = {e} THEN "wait" ELSE "batch"

(* Mutant of Told: disconnect_client follows every event of a client.      *)
ToldAndGone ==
  /\ pc = "talk" /\ talk[1].todo = {}
  /\ LET e == talk[1].event
     IN  /\ Proceed(e)
         /\ IF e.fd # ListenFd
            THEN /\ epoll' = close_fd(remove_socket(epoll, e.fd), e.fd)
                 /\ clients' = [clients EXCEPT ![e.fd] = None]
            ELSE UNCHANGED <<epoll, clients>>
  /\ UNCHANGED <<worldVars, rx, id_counter, log>>

(* The handler returns.  After on_disconnect, disconnect_client takes the  *)
(* client out of epoll and closes it, and process_events removes the       *)
(* descriptor once more.                                                   *)
Told ==
  /\ pc = "talk" /\ talk[1].todo = {}
  /\ LET e == talk[1].event
     IN  /\ Proceed(e)
         /\ IF e.kind = "rdhup"
            THEN /\ epoll' = remove_socket(close_fd(remove_socket(epoll, e.fd), e.fd),
                                           e.fd)
                 /\ clients' = [clients EXCEPT ![e.fd] = None]
            ELSE UNCHANGED <<epoll, clients>>
  /\ UNCHANGED <<worldVars, rx, id_counter, log>>

-----------------------------------------------------------------------------
Visit == \E e \in batch : Accept(e) \/ AcceptFails(e) \/ Income(e) \/ Hangup(e)
Tell == \E fd \in Fds : TellOpen(fd) \/ TellClosed(fd) \/ TellReset(fd)
Server == EpollWait \/ Visit \/ Tell \/ Told

Next ==
  \/ Server
  \/ \E c \in Clients :
       ClientConnect(c) \/ ClientSays(c) \/ ClientReads(c) \/ ClientCloses(c)

(* The process is scheduled, and clients read what they are told: one      *)
(* that does not read stops everybody, for a write to it never returns.    *)
Spec ==
  /\ Init /\ [][Next]_vars
  /\ WF_vars(Server) /\ \A c \in Clients : WF_vars(ClientReads(c))
-----------------------------------------------------------------------------
ClientFds == {fd \in Fds : clients[fd] # None}
Watched == {ListenFd} \cup ClientFds

(* The tables agree: the listening socket and the clients are what is      *)
(* open, in the epoll set, and has a handler.                              *)
ClientsWatched ==
  /\ Watches(epoll, Watched)
  /\ OpenFds(epoll) = Watched
  /\ ListenFd \notin ClientFds
  /\ \A fd \in ClientFds : epoll.fdt[fd] = clients[fd].peer

(* Where the log has a notice about c.                                     *)
About(c) == {i \in 1..Len(log) : log[i].from = c}

(* Where it has, among its first i notices, one that c has to hear: all    *)
(* that is told of others after its own connect.                           *)
Feed(c, i) ==
  {k \in 1..i : log[k].from # c /\ \E j \in 1..(k - 1) : log[j].from = c}

Owed(c) == talk # <<>> /\ \E fd \in talk[1].todo : clients[fd].peer = c

(* However the events of several clients and the writes about them fall    *)
(* among each other, all clients hear the same notices in the same order:  *)
(* each hears what happened to the others since it has been accepted,      *)
(* without a gap and without its own words, while it is there; when it has *)
(* closed it may miss the end.                                             *)
FeedIsLog ==
  \A c \in Clients :
    LET all   == Feed(c, Len(log))
        given == Len(heard[c]) + (IF Owed(c) THEN 1 ELSE 0)
    IN  /\ given <= Cardinality(all)
        /\ far[c] = "open" => given = Cardinality(all)
        /\ \A i \in all : LET n == Cardinality(Feed(c, i))
                          IN  n <= Len(heard[c]) => heard[c][n] = log[i].notice

(* An id stands for one client.                                            *)
IdsDistinct ==
  \A i, j \in 1..Len(log) :
    log[i].notice.id = log[j].notice.id <=> log[i].from = log[j].from

(* The first notice about a client is CONNECTED and the others are not;    *)
(* only its last can be DISCONNECTED, and is once the client is erased.    *)
LivesInOrder ==
  \A c \in Clients : \A i \in About(c) :
    LET what == log[i].notice.what
    IN  /\ what = "connected" <=> \A j \in About(c) : i <= j
        /\ what = "disconnected" => \A j \in About(c) : j <= i
        /\ (\A j \in About(c) : j <= i) /\ (\A fd \in ClientFds : clients[fd].peer # c)
             => what = "disconnected"

(* The notices about a client repeat its lines in order, each once.  Only  *)
(* a client that closes may have its last lines dropped.                   *)
LinesIntact ==
  \A c \in Clients :
    LET read     == said[c] - Len(rx[c])
        Lines(i) == log[i].notice.lines
    IN  /\ Len(rx[c]) <= said[c]
        /\ \A n \in 1..Len(rx[c]) : rx[c][n] = read + n
        /\ \A n \in 1..read : \E i \in About(c) :
             \E k \in 1..Len(Lines(i)) : Lines(i)[k] = n
        /\ \A i, j \in About(c) : \A k \in 1..Len(Lines(i)), m \in 1..Len(Lines(j)) :
             /\ Lines(i)[k] <= read
             /\ i < j \/ (i = j /\ k < m) => Lines(i)[k] < Lines(j)[m]

(* The notices are true.                                                   *)
LogIsTruth == IdsDistinct /\ LivesInOrder /\ LinesIntact

(* Only a client that has closed is disconnected, whatever is done to      *)
(* descriptors between its event and the handling of it.                   *)
HangupIsReal ==
  [][\A fd \in Fds :
       clients[fd] # None /\ clients'[fd] = None
         => far[clients[fd].peer] \in {"closed", "reset"}]_vars

Waiting(c) ==
  \/ \E i \in 1..Len(backlog) : backlog[i] = c
  \/ \E fd \in Fds : /\ clients[fd] # None /\ clients[fd].peer = c
                    /\ (rx[c] # <<>> \/ far[c] # "open")

(* If clients read, nobody waits for ever to be accepted, to be listened   *)
(* to or to be given up, and every broadcast ends; unless the process      *)
(* ends, at the descriptor limit or by a write to a client that has left.  *)
Attended ==
  /\ \A c \in Clients : Waiting(c) ~> ~Waiting(c) \/ pc \in Halted
  /\ pc = "talk" ~> pc # "talk"
=============================================================================
