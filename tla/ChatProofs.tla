----------------------------- MODULE ChatProofs -----------------------------
(***************************************************************************)
(* The tables of the chat server agree, and only clients that have closed  *)
(* are disconnected, for all values of the constants.                      *)
(***************************************************************************)
EXTENDS ChatOrder, EpollWrapperProofs, SequenceTheorems

USE ChatAssumption, FdsAssumption, PeersAssumption, NoneAssumption

-----------------------------------------------------------------------------
(* A broadcast is one record.                                              *)
LEMMA TalkFields ==
  ASSUME TypeOK, talk # <<>>
  PROVE  /\ talk = <<talk[1]>> /\ talk[1] \in Talk
         /\ talk[1].event \in Event /\ talk[1].event.fd \in Fds
         /\ talk[1].notice \in Notice /\ talk[1].todo \subseteq Fds
<1>1. talk \in Seq(Talk) /\ Len(talk) = 1
  <2>1. talk \in Seq(Talk) /\ Len(talk) <= 1
    BY DEF TypeOK
  <2> QED
    BY <2>1, EmptySeq, LenProperties
<1>2. talk[1] \in Talk /\ talk = <<talk[1]>>
  BY <1>1
<1> QED
  BY <1>2 DEF Talk, Event

(* An entry of the client table is a connection.                           *)
LEMMA ClientFields ==
  ASSUME TypeOK, NEW fd \in ClientFds
  PROVE  /\ fd \in Fds /\ clients[fd] \in Connection
         /\ clients[fd].peer \in Clients /\ clients[fd].id \in 0..(IdRange - 1)
BY DEF TypeOK, ClientFds, Connection

(* An event of the array names a watched descriptor.                       *)
LEMMA EventFields ==
  ASSUME TypeOK, NEW e \in batch
  PROVE  e \in Event /\ e.fd \in Fds /\ e.kind \in {"in", "rdhup"}
BY DEF TypeOK, Event

(* The registry watches what it has open.                                  *)
LEMMA RegistryWatches ==
  ASSUME TypeOK, ClientsWatched
  PROVE  /\ Watched \subseteq Fds /\ ClientFds \subseteq Fds
         /\ Consistent(epoll, Watched, Watched)
BY DEF TypeOK, ClientsWatched, Consistent, Watched, ClientFds

(* The next value of an int.                                               *)
LEMMA NextId ==
  ASSUME NEW i \in 0..(IdRange - 1)
  PROVE  /\ (i + 1) % IdRange = IF i + 1 < IdRange THEN i + 1 ELSE 0
         /\ (i + 1) % IdRange \in 0..(IdRange - 1)
OBVIOUS


-----------------------------------------------------------------------------
(* What the steps of the server do to the tables and to the log.           *)

Entry == [from : Clients, notice : Notice]
Whats == {"connected", "disconnected", "says"}

(* A handler that begins to tell makes the last notice of the log.         *)
LEMMA TellsEffect ==
  ASSUME log \in Seq(Entry), NEW e \in Event, NEW con \in Connection,
         NEW todo \in SUBSET Fds, NEW lines \in Seq(Nat),
         NEW what \in Whats, Tells(e, con, todo, what, lines)
  PROVE  /\ log' \in Seq(Entry) /\ Len(log') = Len(log) + 1
         /\ \A i \in 1..Len(log) : log'[i] = log[i]
         /\ LET entry == log'[Len(log) + 1]
            IN  /\ entry \in Entry
                /\ entry.from = con.peer /\ entry.notice.id = con.id
                /\ entry.notice.what = what /\ entry.notice.lines = lines
                /\ talk'[1].notice = entry.notice
         /\ talk' \in Seq(Talk) /\ Len(talk') = 1 /\ talk' # <<>>
         /\ talk'[1].event = e /\ talk'[1].todo = todo
         /\ pc' = "talk"
<1> DEFINE notice == [id |-> con.id, what |-> what, lines |-> lines]
           entry  == [from |-> con.peer, notice |-> notice]
           record == [event |-> e, notice |-> notice, todo |-> todo]
<1>1. log' = Append(log, entry) /\ talk' = <<record>> /\ pc' = "talk"
  BY DEF Tells
<1>2. entry \in Entry /\ record \in Talk
  BY DEF Connection, Entry, Notice, Talk, Whats
<1> HIDE DEF entry, record
<1>3. /\ log' \in Seq(Entry) /\ Len(log') = Len(log) + 1
      /\ \A i \in 1..Len(log) : log'[i] = log[i]
      /\ log'[Len(log) + 1] = entry
  BY <1>1, <1>2, AppendProperties
<1>4. /\ talk' \in Seq(Talk) /\ Len(talk') = 1 /\ talk' # <<>>
      /\ talk'[1] = record
  BY <1>1, <1>2
<1> QED
  BY <1>1, <1>2, <1>3, <1>4 DEF entry, record

(* What an event that is handled is, and the connection it is of.          *)
LEMMA HandlesEffect ==
  ASSUME PlacesInv, NEW e, NEW kind \in {"accept", "client"}, Handles(e, kind)
  PROVE  /\ pc = "batch" /\ talk = <<>> /\ e \in batch /\ e \in Event
         /\ e.fd \in Fds /\ e.kind \in {"in", "rdhup"}
         /\ kind = "accept" => e.fd = ListenFd /\ e.kind = "in"
         /\ kind = "client" =>
              e.fd \in ClientFds /\ clients[e.fd] \in Connection
<1>1. pc = "batch" /\ e \in batch /\ epoll.handlers[e.fd].kind = kind
  BY DEF Handles
<1>2. talk = <<>>
  BY <1>1 DEF PlacesInv, Places, BroadcastCurrent
<1>3. e \in Event /\ e.fd \in Fds /\ e.kind \in {"in", "rdhup"}
  BY <1>1, EventFields DEF PlacesInv
<1>4. e.fd \in Watched /\ (e.kind = "rdhup" => e.fd # ListenFd)
  BY <1>1 DEF PlacesInv, Places, EventsCurrent
<1>5. e.fd = ListenFd <=> kind = "accept"
  BY <1>1, <1>4 DEF PlacesInv, Places, HandlersMatch, Watched
<1>6. kind = "client" => e.fd \in ClientFds
  BY <1>4, <1>5 DEF Watched
<1>7. e.fd \in ClientFds => clients[e.fd] \in Connection
  BY ClientFields DEF PlacesInv
<1> QED
  BY <1>1, <1>2, <1>3, <1>4, <1>5, <1>6, <1>7

(* Accept gives the first client of the queue a descriptor that was free.  *)
LEMMA AcceptEffect ==
  ASSUME PlacesInv, NEW e, Accept(e)
  PROVE  \E fd \in Fds, con \in Connection :
           /\ con = [peer |-> Head(backlog), id |-> id_counter]
           /\ backlog # <<>> /\ fd \notin Watched
           /\ Tells(e, con, ClientFds, "connected", <<>>)
           /\ clients' = [clients EXCEPT ![fd] = con]
           /\ ClientFds' = ClientFds \cup {fd} /\ Watched' = Watched \cup {fd}
           /\ Consistent(epoll', Watched \cup {fd}, Watched \cup {fd})
           /\ epoll'.fdt = [epoll.fdt EXCEPT ![fd] = con.peer]
           /\ epoll'.handlers =
                [epoll.handlers EXCEPT ![fd] = ClientHandler(fd, con.peer)]
<1> DEFINE con == [peer |-> Head(backlog), id |-> id_counter]
<1>1. backlog # <<>>
  BY DEF Accept
<1>2. con \in Connection /\ con.peer \in Clients /\ con.peer \in Peers
  <2>1. Head(backlog) \in Clients
    BY <1>1, HeadTailProperties DEF PlacesInv, TypeOK
  <2> QED
    BY <2>1 DEF PlacesInv, TypeOK, Connection, Peers
<1> HIDE DEF con
<1>3. PICK fd \in FreeFd(epoll) :
        /\ epoll' = add_socket(open_fd(epoll, fd, con.peer), fd,
                               ClientHandler(fd, con.peer))
        /\ clients' = [clients EXCEPT ![fd] = con]
        /\ Tells(e, con, Others(fd), "connected", <<>>)
  BY DEF Accept, con
<1>4. Consistent(epoll, Watched, Watched)
  BY RegistryWatches DEF PlacesInv
<1>5. fd \in Fds
  BY DEF FreeFd
<1>6. ClientHandler(fd, con.peer) \in Handler
  BY <1>2, <1>5 DEF ClientHandler, Handler
<1>7. /\ fd \notin Watched
      /\ Consistent(epoll', Watched \cup {fd}, Watched \cup {fd})
      /\ epoll'.fdt = [epoll.fdt EXCEPT ![fd] = con.peer]
      /\ epoll'.handlers =
           [epoll.handlers EXCEPT ![fd] = ClientHandler(fd, con.peer)]
  <2> DEFINE h == ClientHandler(fd, con.peer)
  <2>1. h \in Handler /\ con.peer \in Peers
    BY <1>2, <1>6
  <2> HIDE DEF h
  <2> DEFINE F == add_socket(open_fd(epoll, fd, con.peer), fd, h)
  <2>2. /\ fd \notin Watched
        /\ Consistent(F, Watched \cup {fd}, Watched \cup {fd})
        /\ F.fdt = [epoll.fdt EXCEPT ![fd] = con.peer]
        /\ F.handlers = [epoll.handlers EXCEPT ![fd] = h]
    BY <1>4, <2>1, OpenAndAdd
  <2> QED
    BY <1>3, <2>2 DEF h
<1>8. con # None /\ clients \in [Fds -> Connection \cup {None}]
  BY <1>2, ConnectionAssumption DEF PlacesInv, TypeOK
<1>9. ClientFds' = ClientFds \cup {fd} /\ Watched' = Watched \cup {fd}
  BY <1>3, <1>5, <1>8 DEF ClientFds, Watched
<1>10. Others(fd) = ClientFds
  BY <1>7 DEF Others, ClientFds, Watched
<1> QED
  BY <1>1, <1>2, <1>3, <1>5, <1>7, <1>9, <1>10 DEF con


(* The handler that runs has a record of what it tells, and its event is   *)
(* still in the array.                                                     *)
LEMMA Talks ==
  ASSUME PlacesInv, pc = "talk"
  PROVE  /\ talk # <<>> /\ talk[1].event \in batch
         /\ talk[1].event.fd \in Watched
         /\ talk[1].event.kind \in {"in", "rdhup"}
         /\ talk[1].event.kind = "rdhup" =>
              /\ talk[1].event.fd \in ClientFds
              /\ far[clients[talk[1].event.fd].peer] \in {"closed", "reset"}
         /\ talk[1].todo \subseteq ClientFds
<1>1. talk # <<>> /\ talk[1].event \in batch /\ talk[1].todo \subseteq ClientFds
  BY DEF PlacesInv, Places, BroadcastCurrent
<1>2. talk[1].event.kind \in {"in", "rdhup"}
  BY <1>1, EventFields DEF PlacesInv
<1> QED
  BY <1>1, <1>2 DEF PlacesInv, Places, EventsCurrent, Watched

(* A write of a broadcast takes one descriptor from those to be told.      *)
LEMMA TellingEffect ==
  ASSUME PlacesInv, NEW fd, Telling(fd)
  PROVE  /\ pc = "talk" /\ fd \in ClientFds /\ clients[fd].peer \in Clients
         /\ fd \in talk[1].todo
         /\ talk' \in Seq(Talk) /\ Len(talk') = 1 /\ talk' # <<>>
         /\ talk'[1].event = talk[1].event /\ talk'[1].notice = talk[1].notice
         /\ talk'[1].todo = talk[1].todo \ {fd}
<1>1. pc = "talk" /\ fd \in talk[1].todo
  BY DEF Telling
<1>2. fd \in ClientFds /\ clients[fd].peer \in Clients
  BY <1>1, Talks, ClientFields DEF PlacesInv
<1>3. talk[1] \in Talk
  BY <1>1, Talks, TalkFields DEF PlacesInv
<1> DEFINE record == [talk[1] EXCEPT !.todo = @ \ {fd}]
<1>4. record \in Talk /\ record.event = talk[1].event
      /\ record.notice = talk[1].notice /\ record.todo = talk[1].todo \ {fd}
  BY <1>3 DEF Talk
<1>5. talk' = <<record>>
  BY DEF Telling
<1> HIDE DEF record
<1>6. talk' \in Seq(Talk) /\ Len(talk') = 1 /\ talk' # <<>> /\ talk'[1] = record
  BY <1>4, <1>5
<1> QED
  BY <1>1, <1>2, <1>4, <1>6

(* After a hang-up the client is in no table any more: the second removal  *)
(* finds nothing.                                                          *)
LEMMA ToldHangup ==
  ASSUME PlacesInv, Told, NEW fd, fd = talk[1].event.fd,
         talk[1].event.kind = "rdhup"
  PROVE  /\ fd \in ClientFds /\ fd # ListenFd
         /\ clients' = [clients EXCEPT ![fd] = None]
         /\ ClientFds' = ClientFds \ {fd} /\ Watched' = Watched \ {fd}
         /\ Consistent(epoll', Watched \ {fd}, Watched \ {fd})
         /\ epoll'.fdt = [epoll.fdt EXCEPT ![fd] = None]
         /\ epoll'.handlers = [epoll.handlers EXCEPT ![fd] = None]
<1>1. fd \in ClientFds /\ fd # ListenFd /\ fd \in Watched /\ fd \in Fds
  BY Talks DEF Told, PlacesInv, ClientsWatched, Watched, ClientFds
<1>2. clients' = [clients EXCEPT ![fd] = None]
  BY DEF Told
<1>3. epoll' = remove_socket(close_fd(remove_socket(epoll, fd), fd), fd)
  BY DEF Told
<1>4. Consistent(epoll, Watched, Watched)
  BY RegistryWatches DEF PlacesInv
<1> DEFINE F == close_fd(remove_socket(epoll, fd), fd)
<1>5. /\ Consistent(F, Watched \ {fd}, Watched \ {fd})
      /\ F.fdt = [epoll.fdt EXCEPT ![fd] = None]
      /\ F.handlers = [epoll.handlers EXCEPT ![fd] = None]
  BY <1>1, <1>4, RemoveAndClose
<1> HIDE DEF F
<1>6. remove_socket(F, fd) = F
  <2> DEFINE S == Watched \ {fd}
  <2>1. Consistent(F, S, S) /\ fd \in Fds /\ fd \notin S
    BY <1>1, <1>5
  <2> HIDE DEF S
  <2> QED
    BY <2>1, RemoveAbsent
<1>7. ClientFds' = ClientFds \ {fd} /\ Watched' = Watched \ {fd}
  BY <1>1, <1>2 DEF ClientFds, Watched, PlacesInv, TypeOK
<1> QED
  BY <1>1, <1>2, <1>3, <1>5, <1>6, <1>7 DEF F

(* Otherwise the tables stay.                                              *)
LEMMA ToldData ==
  ASSUME Told, talk[1].event.kind # "rdhup"
  PROVE  UNCHANGED <<epoll, clients>> /\ ClientFds' = ClientFds /\ Watched' = Watched
BY DEF Told, ClientFds, Watched


-----------------------------------------------------------------------------
(* TypeOK.                                                                 *)

(* What clients do: a line more in rx, a place more in the listen queue.   *)
LEMMA ClientTypes ==
  ASSUME TypeOK, NEW c \in Clients,
         ClientConnect(c) \/ ClientSays(c) \/ ClientReads(c) \/ ClientCloses(c)
  PROVE  TypeOK'
<1>5. unread \in [Clients -> 0..Buffer] /\ 0 \in 0..Buffer
  BY DEF TypeOK
<1>1. CASE ClientConnect(c)
  <2>1. backlog' \in Seq(Clients)
    BY <1>1, AppendProperties DEF ClientConnect, TypeOK
  <2>2. far' \in [Clients -> {"absent", "open", "closed", "reset"}]
    BY <1>1 DEF ClientConnect, TypeOK
  <2> QED
    BY <1>1, <2>1, <2>2 DEF ClientConnect, TypeOK, serverVars
<1>2. CASE ClientSays(c)
  <2>1. said' \in [Clients -> Nat]
    BY <1>2, SMTT(30) DEF ClientSays, TypeOK
  <2>2. Append(rx[c], said'[c]) \in Seq(Nat)
    <3>1. rx[c] \in Seq(Nat) /\ said'[c] \in Nat
      BY <2>1 DEF TypeOK
    <3> QED
      BY <3>1, AppendProperties
  <2>3. rx' \in [Clients -> Seq(Nat)]
    BY <1>2, <2>2 DEF ClientSays, TypeOK
  <2> QED
    BY <1>2, <2>1, <2>3 DEF ClientSays, TypeOK, serverVars
<1>3. CASE ClientReads(c)
  <2>1. unread' \in [Clients -> 0..Buffer]
    BY <1>3, <1>5 DEF ClientReads
  <2> QED
    BY <1>3, <2>1 DEF ClientReads, TypeOK, serverVars
<1>4. CASE ClientCloses(c)
  <2>1. unread' \in [Clients -> 0..Buffer]
    BY <1>4, <1>5 DEF ClientCloses
  <2>2. far' \in [Clients -> {"absent", "open", "closed", "reset"}]
    BY <1>4 DEF ClientCloses, TypeOK
  <2> QED
    BY <1>4, <2>1, <2>2 DEF ClientCloses, TypeOK, serverVars
<1> QED
  BY <1>1, <1>2, <1>3, <1>4

(* The array of events: each names a descriptor of the epoll set.          *)
LEMMA WaitTypes ==
  ASSUME PlacesInv, EpollWait
  PROVE  TypeOK'
<1>1. batch' \subseteq Event
  BY DEF EpollWait, EventFor, Event, PlacesInv, TypeOK, Registry
<1> QED
  BY <1>1 DEF EpollWait, PlacesInv, TypeOK, serverVars, worldVars

(* Accept: the new connection, its descriptor and the next id.             *)
LEMMA AcceptTypes ==
  ASSUME PlacesInv, NEW e, Accept(e)
  PROVE  TypeOK'
<1>1. e \in Event
  BY HandlesEffect DEF Accept
<1>2. PICK fd \in Fds, con \in Connection :
        /\ backlog # <<>>
        /\ Tells(e, con, ClientFds, "connected", <<>>)
        /\ clients' = [clients EXCEPT ![fd] = con]
        /\ Consistent(epoll', Watched \cup {fd}, Watched \cup {fd})
  BY AcceptEffect
<1>3. epoll' \in Registry
  BY <1>2 DEF Consistent
<1>4. clients' \in [Fds -> Connection \cup {None}]
  BY <1>2 DEF PlacesInv, TypeOK
<1>5. id_counter' \in 0..(IdRange - 1)
  BY NextId DEF Accept, PlacesInv, TypeOK
<1>6. backlog' \in Seq(Clients)
  BY <1>2, HeadTailProperties DEF Accept, PlacesInv, TypeOK
<1>7. log' \in Seq(Entry) /\ talk' \in Seq(Talk) /\ Len(talk') = 1 /\ pc' = "talk"
  <2>1. log \in Seq(Entry) /\ ClientFds \in SUBSET Fds /\ <<>> \in Seq(Nat)
    BY EmptySeq DEF PlacesInv, TypeOK, Entry, ClientFds
  <2> QED
    BY <1>1, <1>2, <2>1, TellsEffect DEF Whats
<1>8. UNCHANGED <<far, said, rx, heard, unread, batch>>
  BY DEF Accept
<1>9. TypeOK
  BY DEF PlacesInv
<1> QED
  BY <1>3, <1>4, <1>5, <1>6, <1>7, <1>8, <1>9, SMTT(30) DEF TypeOK, Entry

(* Income: the lines go from rx into the notice.                           *)
LEMMA IncomeTypes ==
  ASSUME PlacesInv, NEW e, Income(e)
  PROVE  TypeOK'
<1>1. e \in Event /\ clients[e.fd] \in Connection
  BY HandlesEffect DEF Income
<1> DEFINE con == clients[e.fd]
           todo == IF rx[con.peer] = <<>> THEN {} ELSE Others(e.fd)
<1>2. /\ con.peer \in Clients /\ rx[con.peer] \in Seq(Nat)
      /\ todo \in SUBSET Fds /\ log \in Seq(Entry)
  BY <1>1 DEF PlacesInv, TypeOK, Entry, Connection, Others
<1>3. Tells(e, con, todo, "says", rx[con.peer])
  BY DEF Income
<1>4. log' \in Seq(Entry) /\ talk' \in Seq(Talk) /\ Len(talk') = 1 /\ pc' = "talk"
  <2> HIDE DEF con, todo
  <2>1. con \in Connection
    BY <1>1 DEF con
  <2> QED
    BY <1>1, <1>2, <1>3, <2>1, TellsEffect DEF Whats
<1>5. rx' \in [Clients -> Seq(Nat)]
  BY EmptySeq DEF Income, PlacesInv, TypeOK
<1> QED
  BY <1>4, <1>5, SMTT(30) DEF Income, PlacesInv, TypeOK, Entry, worldVars, serverVars

(* Hangup: a notice without lines.                                         *)
LEMMA HangupTypes ==
  ASSUME PlacesInv, NEW e, Hangup(e)
  PROVE  TypeOK'
<1>1. e \in Event /\ clients[e.fd] \in Connection
  BY HandlesEffect DEF Hangup
<1>2. log \in Seq(Entry) /\ Others(e.fd) \in SUBSET Fds /\ <<>> \in Seq(Nat)
  BY EmptySeq DEF PlacesInv, TypeOK, Entry, Others
<1>3. log' \in Seq(Entry) /\ talk' \in Seq(Talk) /\ Len(talk') = 1 /\ pc' = "talk"
  <2>1. PICK con, todo, what, lines :
          /\ con = clients[e.fd] /\ todo = Others(e.fd)
          /\ what = "disconnected" /\ lines = <<>>
    OBVIOUS
  <2>2. Tells(e, con, todo, what, lines)
    BY <2>1 DEF Hangup
  <2>3. /\ con \in Connection /\ todo \in SUBSET Fds
        /\ lines \in Seq(Nat) /\ what \in Whats
    BY <1>1, <1>2, <2>1 DEF Whats
  <2> QED
    BY <1>1, <1>2, <2>2, <2>3, TellsEffect
<1> QED
  BY <1>3, SMTT(30) DEF Hangup, PlacesInv, TypeOK, Entry, worldVars, serverVars

(* A write of a broadcast: unread stays within the buffer.                 *)
LEMMA TellTypes ==
  ASSUME PlacesInv, NEW fd, TellOpen(fd) \/ TellClosed(fd) \/ TellReset(fd)
  PROVE  TypeOK'
<1>1. CASE TellOpen(fd)
  <2>1. Telling(fd) /\ talk # <<>>
    BY <1>1, Talks DEF TellOpen, Telling
  <2> DEFINE c == clients[fd].peer
  <2>2. c \in Clients /\ talk' \in Seq(Talk) /\ Len(talk') = 1
    BY <2>1, TellingEffect
  <2>3. talk[1].notice \in Notice
    BY <2>1, TalkFields DEF PlacesInv
  <2>4. Append(heard[c], talk[1].notice) \in Seq(Notice)
    <3>1. heard[c] \in Seq(Notice)
      BY <2>2 DEF PlacesInv, TypeOK
    <3> QED
      BY <2>3, <3>1, AppendProperties
  <2>5. heard' \in [Clients -> Seq(Notice)]
    <3>1. heard' \in {heard, [heard EXCEPT ![c] = Append(heard[c], talk[1].notice)]}
      BY <1>1 DEF TellOpen
    <3> QED
      BY <2>2, <2>4, <3>1 DEF PlacesInv, TypeOK
  <2>6. unread' \in [Clients -> 0..Buffer]
    <3>1. \/ unread' = unread
          \/ unread[c] < Buffer /\ unread' = [unread EXCEPT ![c] = @ + 1]
      BY <1>1 DEF TellOpen
    <3>2. unread \in [Clients -> 0..Buffer]
      BY DEF PlacesInv, TypeOK
    <3>3. \A u \in 0..Buffer : u < Buffer => u + 1 \in 0..Buffer
      BY Buffer \in Nat
    <3> QED
      BY <2>2, <3>1, <3>2, <3>3
  <2> QED
    BY <1>1, <2>2, <2>5, <2>6, SMTT(30) DEF TellOpen, PlacesInv, TypeOK, serverVars
<1>2. CASE TellClosed(fd)
  <2>1. talk' \in Seq(Talk) /\ Len(talk') = 1 /\ clients[fd].peer \in Clients
    BY <1>2, TellingEffect DEF TellClosed
  <2>2. far' \in [Clients -> {"absent", "open", "closed", "reset"}]
    BY <1>2, <2>1 DEF TellClosed, PlacesInv, TypeOK
  <2> QED
    BY <1>2, <2>1, <2>2 DEF TellClosed, PlacesInv, TypeOK, serverVars
<1>3. CASE TellReset(fd)
  BY <1>3 DEF TellReset, PlacesInv, TypeOK, serverVars, worldVars, Halted
<1> QED
  BY <1>1, <1>2, <1>3

(* The end of a handler, with what disconnect_client does.                 *)
LEMMA ToldTypes ==
  ASSUME PlacesInv, Told
  PROVE  TypeOK'
<1>1. batch' \subseteq Event /\ talk' = <<>> /\ pc' \in {"wait", "batch"}
  BY DEF Told, Proceed, PlacesInv, TypeOK
<1>2. epoll' \in Registry /\ clients' \in [Fds -> Connection \cup {None}]
  <2>1. CASE talk[1].event.kind = "rdhup"
    <3>1. /\ epoll' \in Registry
          /\ clients' = [clients EXCEPT ![talk[1].event.fd] = None]
      BY <2>1, ToldHangup DEF Consistent
    <3> QED
      BY <3>1 DEF PlacesInv, TypeOK
  <2>2. CASE talk[1].event.kind # "rdhup"
    BY <2>2, ToldData DEF PlacesInv, TypeOK
  <2> QED
    BY <2>1, <2>2
<1> QED
  BY <1>1, <1>2, EmptySeq DEF Told, PlacesInv, TypeOK, worldVars, Halted


-----------------------------------------------------------------------------
(* ClientsWatched and HandlersMatch.                                       *)

Tables == ClientsWatched /\ HandlersMatch

(* A step that touches neither table keeps them in agreement.              *)
LEMMA TablesKept ==
  ASSUME Tables, UNCHANGED <<epoll, clients>>
  PROVE  Tables' /\ ClientFds' = ClientFds /\ Watched' = Watched
BY DEF Tables, ClientsWatched, HandlersMatch, ClientFds, Watched

(* Accept adds its descriptor to all the tables.                           *)
LEMMA AcceptTables ==
  ASSUME PlacesInv, NEW e, Accept(e)
  PROVE  Tables'
<1>1. PICK fd \in Fds, con \in Connection :
        /\ fd \notin Watched
        /\ clients' = [clients EXCEPT ![fd] = con]
        /\ ClientFds' = ClientFds \cup {fd} /\ Watched' = Watched \cup {fd}
        /\ Consistent(epoll', Watched \cup {fd}, Watched \cup {fd})
        /\ epoll'.fdt = [epoll.fdt EXCEPT ![fd] = con.peer]
        /\ epoll'.handlers =
             [epoll.handlers EXCEPT ![fd] = ClientHandler(fd, con.peer)]
  BY AcceptEffect
<1>2. /\ clients \in [Fds -> Connection \cup {None}]
      /\ epoll.fdt \in [Fds -> Peers \cup {Listener, None}]
      /\ epoll.handlers \in [Fds -> Handler \cup {None}]
  BY RegistryFields DEF PlacesInv, TypeOK
<1>3. ClientFds \subseteq Fds /\ ListenFd \notin ClientFds
      /\ fd \notin ClientFds /\ fd # ListenFd
  BY <1>1 DEF PlacesInv, ClientsWatched, ClientFds, Watched
<1>4. ClientsWatched'
  <2>1. \A g \in ClientFds \cup {fd} : epoll'.fdt[g] = clients'[g].peer
    BY <1>1, <1>2, <1>3 DEF PlacesInv, ClientsWatched
  <2> QED
    BY <1>1, <1>3, <2>1 DEF ClientsWatched, Consistent
<1>5. HandlersMatch'
  <2>1. \A g \in ClientFds \cup {fd} : epoll'.handlers[g].kind = "client"
    BY <1>1, <1>2, <1>3 DEF PlacesInv, Places, HandlersMatch, ClientHandler
  <2>2. epoll'.fdt[ListenFd] = Listener /\ epoll'.handlers[ListenFd].kind = "accept"
    BY <1>1, <1>2, <1>3 DEF PlacesInv, Places, HandlersMatch
  <2> QED
    BY <1>1, <2>1, <2>2 DEF HandlersMatch
<1> QED
  BY <1>4, <1>5 DEF Tables

(* The end of on_disconnect takes it out of all of them.                   *)
LEMMA ToldTables ==
  ASSUME PlacesInv, Told
  PROVE  Tables'
<1>1. CASE talk[1].event.kind # "rdhup"
  BY <1>1, ToldData, TablesKept DEF PlacesInv, Places, Tables
<1>2. CASE talk[1].event.kind = "rdhup"
  <2>1. PICK fd : fd = talk[1].event.fd
    OBVIOUS
  <2>2. /\ fd \in ClientFds /\ fd # ListenFd
        /\ clients' = [clients EXCEPT ![fd] = None]
        /\ ClientFds' = ClientFds \ {fd} /\ Watched' = Watched \ {fd}
        /\ Consistent(epoll', Watched \ {fd}, Watched \ {fd})
        /\ epoll'.fdt = [epoll.fdt EXCEPT ![fd] = None]
        /\ epoll'.handlers = [epoll.handlers EXCEPT ![fd] = None]
    BY <1>2, <2>1, ToldHangup
  <2>3. /\ clients \in [Fds -> Connection \cup {None}]
        /\ epoll.fdt \in [Fds -> Peers \cup {Listener, None}]
        /\ epoll.handlers \in [Fds -> Handler \cup {None}]
    BY RegistryFields DEF PlacesInv, TypeOK
  <2>4. ClientFds \subseteq Fds /\ ListenFd \notin ClientFds
    BY DEF PlacesInv, ClientsWatched, ClientFds
  <2>5. ClientsWatched'
    <3>1. \A g \in ClientFds \ {fd} : epoll'.fdt[g] = clients'[g].peer
      BY <2>2, <2>3, <2>4 DEF PlacesInv, ClientsWatched
    <3> QED
      BY <2>2, <2>4, <3>1 DEF ClientsWatched, Consistent
  <2>6. HandlersMatch'
    BY <2>2, <2>3, <2>4 DEF PlacesInv, Places, HandlersMatch
  <2> QED
    BY <2>5, <2>6 DEF Tables
<1> QED
  BY <1>1, <1>2


-----------------------------------------------------------------------------
(* EventsCurrent.                                                          *)

(* Clients can only add to what their events say.                          *)
LEMMA ClientEvents ==
  ASSUME PlacesInv, NEW c \in Clients,
         ClientConnect(c) \/ ClientSays(c) \/ ClientReads(c) \/ ClientCloses(c)
  PROVE  EventsCurrent'
<1>1. /\ UNCHANGED <<batch, epoll, clients, talk>>
      /\ ClientFds' = ClientFds /\ Watched' = Watched
      /\ \A e : Handling(e)' <=> Handling(e)
  BY DEF ClientConnect, ClientSays, ClientReads, ClientCloses, serverVars,
         ClientFds, Watched, Handling
<1>2. \A d \in Clients :
        far[d] \in {"closed", "reset"} => far'[d] \in {"closed", "reset"}
  BY DEF ClientConnect, ClientSays, ClientReads, ClientCloses, PlacesInv, TypeOK
<1>3. \A d \in Clients : rx[d] # <<>> => rx'[d] # <<>>
  <2>1. CASE ClientSays(c)
    <3>1. PICK s \in Seq(Nat), n \in Nat : s = rx[c] /\ n = said'[c]
      BY <2>1 DEF ClientSays, PlacesInv, TypeOK
    <3>2. Append(s, n) # <<>>
      BY AppendProperties, EmptySeq
    <3>3. rx' = [rx EXCEPT ![c] = Append(s, n)]
      BY <2>1, <3>1 DEF ClientSays
    <3> QED
      BY <3>2, <3>3 DEF PlacesInv, TypeOK
  <2> QED
    BY <2>1 DEF ClientConnect, ClientReads, ClientCloses
<1>4. \A e \in batch : e.fd \in ClientFds => clients[e.fd].peer \in Clients
  BY ClientFields DEF PlacesInv
<1>5. \A e \in batch : e.fd # ListenFd => e.fd \in ClientFds
  BY DEF PlacesInv, Places, EventsCurrent, Watched
<1> QED
  BY <1>1, <1>2, <1>3, <1>4, <1>5 DEF PlacesInv, Places, EventsCurrent

(* epoll_wait reports each descriptor once, and what is so.                *)
LEMMA WaitEvents ==
  ASSUME PlacesInv, EpollWait
  PROVE  EventsCurrent'
<1>1. /\ UNCHANGED <<far, rx, epoll, clients>>
      /\ ClientFds' = ClientFds /\ Watched' = Watched
  BY DEF EpollWait, worldVars, serverVars, ClientFds, Watched
<1>2. ASSUME NEW e \in batch'
      PROVE  /\ e.fd \in Watched /\ e = EventFor(e.fd, epoll.fdt[e.fd])
             /\ Ready(epoll.fdt[e.fd])
  BY <1>2 DEF EpollWait, EventFor, PlacesInv, ClientsWatched, Watches
<1>3. ASSUME NEW e \in batch', e.fd \in ClientFds
      PROVE  /\ e.kind = "rdhup" => far[clients[e.fd].peer] \in {"closed", "reset"}
             /\ e.kind = "in" => rx[clients[e.fd].peer] # <<>>
  <2> DEFINE p == clients[e.fd].peer
  <2>1. epoll.fdt[e.fd] = p /\ p \in Clients /\ p # Listener
    BY <1>3, ClientFields DEF PlacesInv, ClientsWatched
  <2>2. far[p] \in {"open", "closed", "reset"}
    <3>1. far[p] # "absent"
      BY <1>3 DEF PlacesInv, Places, ClientsPlaced
    <3>2. far \in [Clients -> {"absent", "open", "closed", "reset"}]
      BY DEF PlacesInv, TypeOK
    <3> QED
      BY <2>1, <3>1, <3>2
  <2>3. e.kind = IF far[p] # "open" THEN "rdhup" ELSE "in"
    BY <1>2, <1>3, <2>1 DEF EventFor
  <2>4. rx[p] # <<>> \/ far[p] # "open"
    BY <1>2, <1>3, <2>1 DEF Ready
  <2> QED
    BY <2>2, <2>3, <2>4
<1>4. ASSUME NEW e \in batch', e.kind = "rdhup"
      PROVE  e.fd # ListenFd
  BY <1>2, <1>4 DEF EventFor, PlacesInv, Places, HandlersMatch
<1>5. \A e, f \in batch' : e.fd = f.fd => e = f
  BY <1>2
<1>6. \A e \in batch' : e.fd # ListenFd => e.fd \in ClientFds
  BY <1>2 DEF Watched
<1> QED
  BY <1>1, <1>2, <1>3, <1>4, <1>5, <1>6 DEF EventsCurrent

(* A new client gets a descriptor that no event of the array names.        *)
LEMMA AcceptEvents ==
  ASSUME PlacesInv, NEW e, Accept(e)
  PROVE  EventsCurrent'
<1>1. PICK fd \in Fds, con \in Connection :
        /\ fd \notin Watched
        /\ clients' = [clients EXCEPT ![fd] = con]
        /\ ClientFds' = ClientFds \cup {fd} /\ Watched' = Watched \cup {fd}
  BY AcceptEffect
<1>2. talk = <<>> /\ UNCHANGED <<far, rx, batch>>
  BY HandlesEffect DEF Accept
<1>3. \A f \in batch : f.fd \in Watched /\ clients'[f.fd] = clients[f.fd]
  BY <1>1, EventFields DEF PlacesInv, TypeOK, Places, EventsCurrent
<1> QED
  BY <1>1, <1>2, <1>3 DEF PlacesInv, Places, EventsCurrent, Handling

(* Reading a client's data leaves that of the others.                      *)
LEMMA IncomeEvents ==
  ASSUME PlacesInv, NEW e, Income(e)
  PROVE  EventsCurrent'
<1>1. /\ e \in batch /\ e.fd \in ClientFds /\ talk = <<>>
      /\ UNCHANGED <<far, batch, epoll, clients>>
      /\ rx' = [rx EXCEPT ![clients[e.fd].peer] = <<>>]
  BY HandlesEffect DEF Income, worldVars, serverVars
<1>2. ClientFds' = ClientFds /\ Watched' = Watched
  BY <1>1 DEF ClientFds, Watched
<1>3. Handling(e)'
  BY DEF Income, Tells, Handling
<1>4. ASSUME NEW f \in batch, f.fd \in ClientFds, f # e
      PROVE  rx'[clients[f.fd].peer] = rx[clients[f.fd].peer]
  <2>1. f.fd # e.fd
    BY <1>1, <1>4 DEF PlacesInv, Places, EventsCurrent
  <2>2. clients[f.fd].peer # clients[e.fd].peer
    BY <1>1, <1>4, <2>1 DEF PlacesInv, Places, ClientsPlaced
  <2>3. clients[f.fd].peer \in Clients
    BY <1>4, ClientFields DEF PlacesInv
  <2> QED
    BY <1>1, <2>2, <2>3 DEF PlacesInv, TypeOK
<1>5. \A f \in batch : f.fd # ListenFd => f.fd \in ClientFds
  BY DEF PlacesInv, Places, EventsCurrent, Watched
<1> QED
  BY <1>1, <1>2, <1>3, <1>4, <1>5 DEF PlacesInv, Places, EventsCurrent, Handling

(* A hang-up changes nothing of the connections.                           *)
LEMMA HangupEvents ==
  ASSUME PlacesInv, NEW e, Hangup(e)
  PROVE  EventsCurrent'
<1>1. talk = <<>> /\ UNCHANGED <<far, rx, batch, epoll, clients>>
  BY HandlesEffect DEF Hangup, worldVars, serverVars
<1> QED
  BY <1>1 DEF PlacesInv, Places, EventsCurrent, Handling, ClientFds, Watched

(* A write of a broadcast can only bring the RST of a client.              *)
LEMMA TellEvents ==
  ASSUME PlacesInv, NEW fd, TellOpen(fd) \/ TellClosed(fd) \/ TellReset(fd)
  PROVE  EventsCurrent'
<1>1. /\ UNCHANGED <<rx, batch, epoll, clients>>
      /\ ClientFds' = ClientFds /\ Watched' = Watched
  BY DEF TellOpen, TellClosed, TellReset, worldVars, serverVars, ClientFds, Watched
<1>2. \A e : Handling(e)' <=> Handling(e)
  <2>1. CASE TellReset(fd)
    BY <2>1 DEF TellReset, Handling
  <2>2. CASE TellOpen(fd) \/ TellClosed(fd)
    <3>1. Telling(fd)
      BY <2>2 DEF TellOpen, TellClosed
    <3>2. talk # <<>>
      BY <3>1, Talks DEF Telling
    <3> QED
      BY <3>1, <3>2, TellingEffect DEF Handling
  <2> QED
    BY <2>1, <2>2
<1>3. \A d \in Clients :
        far[d] \in {"closed", "reset"} => far'[d] \in {"closed", "reset"}
  BY DEF TellOpen, TellClosed, TellReset, worldVars, PlacesInv, TypeOK
<1>4. \A e \in batch : e.fd # ListenFd => clients[e.fd].peer \in Clients
  BY ClientFields DEF PlacesInv, Places, EventsCurrent, Watched
<1> QED
  BY <1>1, <1>2, <1>3, <1>4 DEF PlacesInv, Places, EventsCurrent

(* The event of the handler that returns was the only one of its           *)
(* descriptor.                                                             *)
LEMMA ToldEvents ==
  ASSUME PlacesInv, Told
  PROVE  EventsCurrent'
<1>1. PICK e : e = talk[1].event
  OBVIOUS
<1>2. /\ batch' = batch \ {e} /\ talk' = <<>> /\ UNCHANGED <<far, rx>>
      /\ e \in batch
  BY <1>1, Talks DEF Told, Proceed, worldVars
<1>3. ASSUME NEW f \in batch, f # e
      PROVE  /\ f.fd \in Watched' /\ clients'[f.fd] = clients[f.fd]
             /\ ~Handling(f)
  <2>1. f.fd # e.fd /\ f.fd \in Watched /\ f.fd \in Fds
    BY <1>2, <1>3, EventFields DEF PlacesInv, Places, EventsCurrent
  <2>2. ~Handling(f)
    BY <1>1, <1>3 DEF Handling
  <2>3. CASE e.kind = "rdhup"
    <3>1. clients' = [clients EXCEPT ![e.fd] = None] /\ Watched' = Watched \ {e.fd}
      BY <1>1, <2>3, ToldHangup
    <3> QED
      BY <2>1, <2>2, <3>1 DEF PlacesInv, TypeOK
  <2>4. CASE e.kind # "rdhup"
    BY <1>1, <2>1, <2>2, <2>4, ToldData
  <2> QED
    BY <2>3, <2>4
<1> QED
  BY <1>2, <1>3 DEF PlacesInv, Places, EventsCurrent, Handling


-----------------------------------------------------------------------------
(* BroadcastCurrent.                                                       *)

(* A handler begins to tell clients that the notice is not about.          *)
LEMMA TellsBroadcast ==
  ASSUME log \in Seq(Entry), NEW e \in Event, NEW con \in Connection,
         NEW todo \in SUBSET Fds, NEW lines \in Seq(Nat),
         NEW what \in Whats, Tells(e, con, todo, what, lines),
         e \in batch', todo \subseteq ClientFds',
         \A fd \in todo : clients'[fd].peer # con.peer,
         e.kind = "rdhup" => clients'[e.fd].peer = con.peer /\ what = "disconnected"
  PROVE  BroadcastCurrent'
<1>1. /\ log' \in Seq(Entry) /\ Len(log') = Len(log) + 1
      /\ log'[Len(log) + 1].from = con.peer
      /\ log'[Len(log) + 1].notice.what = what
      /\ talk'[1].notice = log'[Len(log) + 1].notice
      /\ talk' # <<>> /\ pc' = "talk"
      /\ talk'[1].event = e /\ talk'[1].todo = todo
  BY TellsEffect
<1>2. Len(log) \in Nat
  BY LenProperties
<1>3. log' # <<>>
  BY <1>1, <1>2, EmptySeq
<1> QED
  BY <1>1, <1>3 DEF BroadcastCurrent

(* The client that Accept tells of has no descriptor before.               *)
LEMMA AcceptBroadcast ==
  ASSUME PlacesInv, NEW e, Accept(e)
  PROVE  BroadcastCurrent'
<1>1. PICK fd \in Fds, con \in Connection :
        /\ con = [peer |-> Head(backlog), id |-> id_counter]
        /\ backlog # <<>> /\ fd \notin Watched
        /\ Tells(e, con, ClientFds, "connected", <<>>)
        /\ clients' = [clients EXCEPT ![fd] = con]
        /\ ClientFds' = ClientFds \cup {fd}
  BY AcceptEffect
<1>2. e \in Event /\ e \in batch /\ e.kind = "in" /\ batch' = batch
  BY HandlesEffect DEF Accept
<1>3. \A g \in ClientFds : clients'[g].peer # con.peer
  <2>1. con.peer = backlog[1] /\ 1 \in 1..Len(backlog)
    BY <1>1, EmptySeq DEF PlacesInv, TypeOK
  <2>2. \A g \in ClientFds : clients[g].peer # con.peer
    BY <2>1 DEF PlacesInv, Places, ClientsPlaced
  <2> QED
    BY <1>1, <2>2 DEF PlacesInv, TypeOK, ClientFds, Watched
<1>4. log \in Seq(Entry) /\ ClientFds \in SUBSET Fds /\ <<>> \in Seq(Nat)
  BY EmptySeq DEF PlacesInv, TypeOK, Entry, ClientFds
<1> QED
  <2>1. PICK todo \in SUBSET Fds, lines \in Seq(Nat) :
          todo = ClientFds /\ Tells(e, con, todo, "connected", lines)
    BY <1>1, <1>4
  <2>2. e \in batch' /\ todo \subseteq ClientFds' /\ e.kind # "rdhup"
        /\ \A g \in todo : clients'[g].peer # con.peer
    BY <1>1, <1>2, <1>3, <2>1
  <2> QED
    BY <1>2, <1>4, <2>1, <2>2, TellsBroadcast DEF Whats

(* Others(fd) leaves out the client that is told of.                       *)
LEMMA VisitBroadcast ==
  ASSUME PlacesInv, NEW e, Income(e) \/ Hangup(e)
  PROVE  BroadcastCurrent'
<1>1. /\ e \in Event /\ e \in batch /\ e.fd \in ClientFds
      /\ UNCHANGED <<batch, clients>> /\ ClientFds' = ClientFds
  BY HandlesEffect DEF Income, Hangup, serverVars, ClientFds
<1>2. PICK con \in Connection : con = clients[e.fd] /\ con.peer \in Clients
  BY <1>1, ClientFields DEF PlacesInv
<1>3. Others(e.fd) = ClientFds \ {e.fd}
  BY DEF Others, ClientFds
<1>4. \A fd \in Others(e.fd) : clients[fd].peer # con.peer
  BY <1>1, <1>2, <1>3 DEF PlacesInv, Places, ClientsPlaced
<1>5. log \in Seq(Entry) /\ Others(e.fd) \in SUBSET Fds /\ <<>> \in Seq(Nat)
      /\ rx[con.peer] \in Seq(Nat)
  BY <1>2, EmptySeq DEF PlacesInv, TypeOK, Entry, Others
<1>6. CASE Income(e)
  <2>1. PICK todo \in SUBSET Fds, lines \in Seq(Nat) :
          todo \subseteq Others(e.fd) /\ Tells(e, con, todo, "says", lines)
    BY <1>2, <1>5, <1>6 DEF Income
  <2>2. e.kind = "in"
    BY <1>6 DEF Income
  <2> QED
    BY <1>1, <1>2, <1>3, <1>4, <1>5, <2>1, <2>2, TellsBroadcast, ZenonT(60) DEF Whats
<1>7. CASE Hangup(e)
  <2>1. PICK todo \in SUBSET Fds, lines \in Seq(Nat) :
          todo = Others(e.fd) /\ Tells(e, con, todo, "disconnected", lines)
    BY <1>2, <1>5, <1>7 DEF Hangup
  <2> QED
    BY <1>1, <1>2, <1>3, <1>4, <1>5, <2>1, TellsBroadcast DEF Whats
<1> QED
  BY <1>6, <1>7

(* The writes of a broadcast leave its notice and its event.               *)
LEMMA TellBroadcast ==
  ASSUME PlacesInv, NEW fd, TellOpen(fd) \/ TellClosed(fd) \/ TellReset(fd)
  PROVE  BroadcastCurrent'
<1>1. UNCHANGED <<batch, clients, log>> /\ ClientFds' = ClientFds
  BY DEF TellOpen, TellClosed, TellReset, serverVars, ClientFds
<1>2. CASE TellReset(fd)
  BY <1>1, <1>2 DEF TellReset, PlacesInv, Places, BroadcastCurrent
<1>3. CASE TellOpen(fd) \/ TellClosed(fd)
  <2>1. Telling(fd) /\ pc' = pc
    BY <1>3 DEF TellOpen, TellClosed
  <2>2. /\ pc = "talk" /\ talk' # <<>> /\ talk # <<>>
        /\ talk'[1].event = talk[1].event /\ talk'[1].notice = talk[1].notice
        /\ talk'[1].todo = talk[1].todo \ {fd}
    BY <2>1, TellingEffect, Talks
  <2> QED
    BY <1>1, <2>1, <2>2 DEF PlacesInv, Places, BroadcastCurrent
<1> QED
  BY <1>2, <1>3

(* Nothing else begins or continues a broadcast.                           *)
LEMMA QuietBroadcast ==
  ASSUME PlacesInv,
         \/ \E c \in Clients : ClientConnect(c) \/ ClientSays(c)
                               \/ ClientReads(c) \/ ClientCloses(c)
         \/ EpollWait
         \/ \E e \in batch : AcceptFails(e)
         \/ Told
  PROVE  BroadcastCurrent'
<1>1. CASE \E c \in Clients : ClientConnect(c) \/ ClientSays(c)
                              \/ ClientReads(c) \/ ClientCloses(c)
  BY <1>1 DEF ClientConnect, ClientSays, ClientReads, ClientCloses, serverVars,
              ClientFds, PlacesInv, Places, BroadcastCurrent
<1>2. CASE EpollWait
  BY <1>2 DEF EpollWait, PlacesInv, Places, BroadcastCurrent
<1>3. CASE \E e \in batch : AcceptFails(e)
  BY <1>3 DEF AcceptFails, Handles, PlacesInv, Places, BroadcastCurrent
<1>4. CASE Told
  BY <1>4 DEF Told, Proceed, BroadcastCurrent
<1> QED
  BY <1>1, <1>2, <1>3, <1>4


-----------------------------------------------------------------------------
(* ClientsPlaced.                                                          *)

(* A new notice is one more about the client it is about.                  *)
LEMMA AboutGrows ==
  ASSUME log \in Seq(Entry), log' \in Seq(Entry), Len(log') = Len(log) + 1,
         \A i \in 1..Len(log) : log'[i] = log[i],
         NEW p, log'[Len(log) + 1].from = p
  PROVE  \A c : About(c)' = IF c = p THEN About(c) \cup {Len(log) + 1}
                            ELSE About(c)
<1>1. Len(log) \in Nat
  BY LenProperties
<1> QED
  BY <1>1 DEF About

(* A client connects only once, and leaves from where it is.               *)
LEMMA ClientPlaces ==
  ASSUME PlacesInv, NEW c \in Clients,
         ClientConnect(c) \/ ClientSays(c) \/ ClientReads(c) \/ ClientCloses(c)
  PROVE  ClientsPlaced'
<1>1. /\ UNCHANGED <<clients, log>> /\ ClientFds' = ClientFds
      /\ \A d : About(d)' = About(d)
  BY DEF ClientConnect, ClientSays, ClientReads, ClientCloses, serverVars,
         ClientFds, About
<1>2. far \in [Clients -> {"absent", "open", "closed", "reset"}]
      /\ backlog \in Seq(Clients)
  BY DEF PlacesInv, TypeOK
<1>3. ClientsPlaced
  BY DEF PlacesInv, Places
<1>4. \A fd \in ClientFds : clients[fd].peer \in Clients
  BY ClientFields DEF PlacesInv
<1>5. CASE ClientSays(c) \/ ClientReads(c)
  BY <1>1, <1>3, <1>5 DEF ClientSays, ClientReads, ClientsPlaced, About
<1>6. CASE ClientCloses(c)
  <2>1. far[c] = "open" /\ far' = [far EXCEPT ![c] = "closed"] /\ backlog' = backlog
    BY <1>6 DEF ClientCloses
  <2>2. \A i \in 1..Len(backlog) : backlog[i] \in Clients
    BY <1>2, ElementOfSeq
  <2> QED
    BY <1>1, <1>2, <1>3, <1>4, <2>1, <2>2 DEF ClientsPlaced, About
<1>7. CASE ClientConnect(c)
  <2>1. /\ far[c] = "absent" /\ far' = [far EXCEPT ![c] = "open"]
        /\ backlog' = Append(backlog, c)
    BY <1>7 DEF ClientConnect
  <2>2. /\ Len(backlog) \in Nat /\ Len(backlog') = Len(backlog) + 1
        /\ \A i \in 1..Len(backlog) :
             backlog'[i] = backlog[i] /\ backlog[i] \in Clients
        /\ backlog'[Len(backlog) + 1] = c
    BY <1>2, <2>1, AppendProperties, ElementOfSeq
  <2>3. About(c) = {} /\ \A fd \in ClientFds : clients[fd].peer # c
    BY <1>3, <2>1 DEF ClientsPlaced
  <2>4. \A i \in 1..Len(backlog) : backlog[i] # c
    BY <1>3, <2>1 DEF ClientsPlaced
  <2>5. \A d \in Clients : far[d] # "absent" => far'[d] # "absent"
    BY <1>2, <2>1
  <2>6. far'[c] # "absent"
    BY <1>2, <2>1
  <2>7. ASSUME NEW i \in 1..Len(backlog')
        PROVE  /\ far'[backlog'[i]] # "absent" /\ About(backlog'[i]) = {}
               /\ \A fd \in ClientFds : clients[fd].peer # backlog'[i]
               /\ \A j \in 1..Len(backlog') : backlog'[i] = backlog'[j] => i = j
    <3>1. \A j \in 1..Len(backlog') : j \in 1..Len(backlog) \/ j = Len(backlog) + 1
      BY <2>2
    <3>2. CASE i \in 1..Len(backlog)
      <4>1. /\ backlog'[i] = backlog[i] /\ backlog[i] \in Clients
            /\ far'[backlog[i]] # "absent" /\ About(backlog[i]) = {}
            /\ \A fd \in ClientFds : clients[fd].peer # backlog[i]
        BY <1>3, <2>2, <2>5, <3>2 DEF ClientsPlaced
      <4>2. \A j \in 1..Len(backlog) : backlog[i] = backlog[j] => i = j
        BY <1>3, <3>2 DEF ClientsPlaced
      <4> QED
        BY <2>2, <2>4, <3>1, <3>2, <4>1, <4>2
    <3>3. CASE i = Len(backlog) + 1
      BY <2>2, <2>3, <2>4, <2>6, <3>1, <3>3
    <3> QED
      BY <3>1, <3>2, <3>3
  <2>8. \A d \in Clients : About(d) # {} =>
          /\ far'[d] # "absent"
          /\ far'[d] = "open" => \E fd \in ClientFds : clients[fd].peer = d
    BY <1>2, <1>3, <2>1, <2>3 DEF ClientsPlaced
  <2>9. \A i \in 1..Len(backlog') :
          /\ far'[backlog'[i]] # "absent" /\ About(backlog[i])' = {}
          /\ \A fd \in ClientFds' : clients'[fd].peer # backlog'[i]
          /\ \A j \in 1..Len(backlog') : backlog'[i] = backlog'[j] => i = j
    BY <1>1, <2>7 DEF About
  <2>10. \A f \in ClientFds' :
           /\ far'[clients'[f].peer] # "absent"
           /\ \A g \in ClientFds' : clients'[f].peer = clients'[g].peer => f = g
    BY <1>1, <1>3, <1>4, <2>5 DEF ClientsPlaced
  <2>11. \A d \in Clients : About(d)' # {} =>
           /\ far'[d] # "absent"
           /\ far'[d] = "open" => \E fd \in ClientFds' : clients'[fd].peer = d
    BY <1>1, <2>8
  <2> QED
    BY <2>9, <2>10, <2>11 DEF ClientsPlaced
<1> QED
  BY <1>5, <1>6, <1>7

(* Accept takes the first client of the queue to the table.                *)
LEMMA AcceptPlaces ==
  ASSUME PlacesInv, NEW e, Accept(e)
  PROVE  ClientsPlaced'
<1>1. PICK fd \in Fds, con \in Connection :
        /\ con = [peer |-> Head(backlog), id |-> id_counter]
        /\ backlog # <<>> /\ fd \notin Watched
        /\ Tells(e, con, ClientFds, "connected", <<>>)
        /\ clients' = [clients EXCEPT ![fd] = con]
        /\ ClientFds' = ClientFds \cup {fd}
  BY AcceptEffect
<1>2. e \in Event /\ far' = far /\ backlog' = Tail(backlog)
  BY HandlesEffect DEF Accept
<1>3. PICK c \in Clients : c = con.peer /\ c = backlog[1]
  <2>1. Head(backlog) \in Clients /\ Head(backlog) = backlog[1]
    BY <1>1, HeadTailProperties DEF PlacesInv, TypeOK
  <2> QED
    BY <1>1, <2>1
<1>4. /\ Len(backlog) \in Nat \ {0} /\ Len(backlog') = Len(backlog) - 1
      /\ \A i \in 1..Len(backlog') : backlog'[i] = backlog[i + 1]
  BY <1>1, <1>2, EmptySeq, HeadTailProperties DEF PlacesInv, TypeOK
<1>5. log \in Seq(Entry) /\ ClientFds \in SUBSET Fds /\ <<>> \in Seq(Nat)
  BY EmptySeq DEF PlacesInv, TypeOK, Entry, ClientFds
<1>6. /\ log' \in Seq(Entry) /\ Len(log') = Len(log) + 1
      /\ \A i \in 1..Len(log) : log'[i] = log[i]
      /\ log'[Len(log) + 1].from = c
  BY <1>1, <1>2, <1>3, <1>5, TellsEffect DEF Whats
<1>7. \A d : d # c => About(d)' = About(d)
  BY <1>5, <1>6, AboutGrows
<1>8. ClientsPlaced
  BY DEF PlacesInv, Places
<1>9. far[c] # "absent" /\ \A g \in ClientFds : clients[g].peer # c
  BY <1>3, <1>4, <1>8 DEF ClientsPlaced
<1>10. /\ clients'[fd].peer = c
       /\ \A g \in ClientFds : g # fd /\ clients'[g] = clients[g]
  BY <1>1, <1>3 DEF PlacesInv, TypeOK, ClientFds, Watched
<1>11. ASSUME NEW i \in 1..Len(backlog')
       PROVE  /\ far[backlog'[i]] # "absent" /\ backlog'[i] # c
              /\ About(backlog'[i]) = {}
              /\ \A g \in ClientFds : clients[g].peer # backlog'[i]
              /\ \A j \in 1..Len(backlog') : backlog'[i] = backlog'[j] => i = j
  <2>1. i + 1 \in 1..Len(backlog) /\ 1 \in 1..Len(backlog) /\ i + 1 # 1
    BY <1>4
  <2>2. \A j \in 1..Len(backlog') : j + 1 \in 1..Len(backlog)
    BY <1>4
  <2>3. ASSUME NEW j \in 1..Len(backlog'), backlog'[i] = backlog'[j]
        PROVE  i = j
    <3>1. backlog[i + 1] = backlog[j + 1]
      BY <1>4, <2>3
    <3>2. i + 1 = j + 1
      BY <1>8, <2>1, <2>2, <3>1 DEF ClientsPlaced
    <3> QED
      BY <1>4, <3>2
  <2>4. PICK d : d = backlog[i + 1]
    OBVIOUS
  <2>5. /\ far[d] # "absent" /\ About(d) = {}
        /\ \A g \in ClientFds : clients[g].peer # d
    BY <1>8, <2>1, <2>4 DEF ClientsPlaced
  <2>6. d # c
    BY <1>3, <1>8, <2>1, <2>4 DEF ClientsPlaced
  <2> QED
    BY <1>4, <2>3, <2>4, <2>5, <2>6
<1>12. ASSUME NEW i \in 1..Len(backlog')
       PROVE  /\ About(backlog[i])' = {}
              /\ \A g \in ClientFds' : clients'[g].peer # backlog'[i]
  <2>1. PICK d : d = backlog'[i]
    OBVIOUS
  <2>2. d # c /\ About(d) = {} /\ \A g \in ClientFds : clients[g].peer # d
    BY <1>11, <2>1
  <2>3. About(d)' = {}
    BY <1>7, <2>2
  <2>4. About(backlog[i])' = {}
    BY <2>1, <2>3 DEF About
  <2> QED
    BY <1>1, <1>10, <2>1, <2>2, <2>4
<1>13. ASSUME NEW d \in Clients, About(d)' # {}
       PROVE  /\ far[d] # "absent"
              /\ far[d] = "open" => \E g \in ClientFds' : clients'[g].peer = d
  BY <1>1, <1>7, <1>8, <1>9, <1>10, <1>13 DEF ClientsPlaced
<1>14. \A f \in ClientFds' :
         /\ far[clients'[f].peer] # "absent"
         /\ \A g \in ClientFds' : clients'[f].peer = clients'[g].peer => f = g
  BY <1>1, <1>8, <1>9, <1>10 DEF ClientsPlaced
<1> QED
  BY <1>2, <1>11, <1>12, <1>13, <1>14 DEF ClientsPlaced


(* Telling of a client of the table changes nothing of that.               *)
LEMMA VisitPlaces ==
  ASSUME PlacesInv, NEW e, Income(e) \/ Hangup(e)
  PROVE  ClientsPlaced'
<1>1. /\ e \in Event /\ e.fd \in ClientFds
      /\ UNCHANGED <<far, backlog, clients>> /\ ClientFds' = ClientFds
  BY HandlesEffect DEF Income, Hangup, worldVars, serverVars, ClientFds
<1>2. PICK con \in Connection : con = clients[e.fd] /\ con.peer \in Clients
  BY <1>1, ClientFields DEF PlacesInv
<1>3. log \in Seq(Entry) /\ Others(e.fd) \in SUBSET Fds /\ <<>> \in Seq(Nat)
      /\ rx[con.peer] \in Seq(Nat)
  BY <1>2, EmptySeq DEF PlacesInv, TypeOK, Entry, Others
<1>4. PICK todo \in SUBSET Fds, lines \in Seq(Nat), what \in Whats :
        Tells(e, con, todo, what, lines)
  <2>1. CASE Income(e)
    BY <1>2, <1>3, <2>1 DEF Income, Whats
  <2>2. CASE Hangup(e)
    BY <1>2, <1>3, <2>2 DEF Hangup, Whats
  <2> QED
    BY <2>1, <2>2
<1>5. /\ log' \in Seq(Entry) /\ Len(log') = Len(log) + 1
      /\ \A i \in 1..Len(log) : log'[i] = log[i]
      /\ log'[Len(log) + 1].from = con.peer
  BY <1>1, <1>3, <1>4, TellsEffect
<1>6. \A d : d # con.peer => About(d)' = About(d)
  BY <1>3, <1>5, AboutGrows
<1>7. ClientsPlaced
  BY DEF PlacesInv, Places
<1>8. \A i \in 1..Len(backlog) : About(backlog[i])' = {}
  <2>1. SUFFICES ASSUME NEW i \in 1..Len(backlog)
                 PROVE  About(backlog[i])' = {}
    OBVIOUS
  <2>2. PICK d : d = backlog[i]
    OBVIOUS
  <2>3. d # con.peer /\ About(d) = {}
    BY <1>1, <1>2, <1>7, <2>2 DEF ClientsPlaced
  <2>4. About(d)' = {}
    BY <1>6, <2>3
  <2> QED
    BY <1>1, <2>2, <2>4 DEF About
<1>9. ASSUME NEW d \in Clients, About(d)' # {}
      PROVE  /\ far[d] # "absent"
             /\ far[d] = "open" => \E g \in ClientFds : clients[g].peer = d
  BY <1>1, <1>2, <1>6, <1>7, <1>9, ZenonT(60) DEF ClientsPlaced
<1>10. \A i \in 1..Len(backlog') :
         /\ far'[backlog'[i]] # "absent" /\ About(backlog[i])' = {}
         /\ \A fd \in ClientFds' : clients'[fd].peer # backlog'[i]
         /\ \A j \in 1..Len(backlog') : backlog'[i] = backlog'[j] => i = j
  BY <1>1, <1>7, <1>8 DEF ClientsPlaced
<1>11. \A f \in ClientFds' :
         /\ far'[clients'[f].peer] # "absent"
         /\ \A g \in ClientFds' : clients'[f].peer = clients'[g].peer => f = g
  BY <1>1, <1>7 DEF ClientsPlaced
<1>12. \A d \in Clients : About(d)' # {} =>
         /\ far'[d] # "absent"
         /\ far'[d] = "open" => \E g \in ClientFds' : clients'[g].peer = d
  BY <1>1, <1>9
<1> QED
  BY <1>10, <1>11, <1>12 DEF ClientsPlaced

(* Only a client that has closed loses its descriptor.                     *)
LEMMA ToldPlaces ==
  ASSUME PlacesInv, Told
  PROVE  ClientsPlaced'
<1>1. UNCHANGED <<far, backlog, log>> /\ \A d : About(d)' = About(d)
  BY DEF Told, worldVars, About
<1>2. ClientsPlaced
  BY DEF PlacesInv, Places
<1>3. CASE talk[1].event.kind # "rdhup"
  <2>1. UNCHANGED clients /\ ClientFds' = ClientFds
    BY <1>3, ToldData
  <2> QED
    BY <1>1, <1>2, <2>1 DEF ClientsPlaced, About
<1>4. CASE talk[1].event.kind = "rdhup"
  <2>1. PICK fd : fd = talk[1].event.fd
    OBVIOUS
  <2>2. /\ fd \in ClientFds /\ clients' = [clients EXCEPT ![fd] = None]
        /\ ClientFds' = ClientFds \ {fd}
    BY <1>4, <2>1, ToldHangup
  <2>3. far[clients[fd].peer] \in {"closed", "reset"}
    BY <1>4, <2>1, Talks DEF Told
  <2>4. \A g \in ClientFds' : g \in ClientFds /\ clients'[g] = clients[g]
    BY <2>2 DEF PlacesInv, TypeOK, ClientFds
  <2>5. \A d \in Clients :
          About(d) # {} /\ far[d] = "open" => \E g \in ClientFds' : clients'[g].peer = d
    <3>1. SUFFICES ASSUME NEW d \in Clients, About(d) # {}, far[d] = "open"
                   PROVE  \E g \in ClientFds' : clients'[g].peer = d
      OBVIOUS
    <3>2. PICK g \in ClientFds : clients[g].peer = d
      BY <1>2, <3>1 DEF ClientsPlaced
    <3>3. g # fd
      BY <2>3, <3>1, <3>2
    <3> QED
      BY <2>2, <2>4, <3>2, <3>3
  <2>6. \A i \in 1..Len(backlog') :
          /\ far'[backlog'[i]] # "absent" /\ About(backlog[i])' = {}
          /\ \A g \in ClientFds' : clients'[g].peer # backlog'[i]
          /\ \A j \in 1..Len(backlog') : backlog'[i] = backlog'[j] => i = j
    BY <1>1, <1>2, <2>4 DEF ClientsPlaced, About
  <2>7. \A f \in ClientFds' :
          /\ far'[clients'[f].peer] # "absent"
          /\ \A g \in ClientFds' : clients'[f].peer = clients'[g].peer => f = g
    BY <1>1, <1>2, <2>4 DEF ClientsPlaced
  <2>8. \A d \in Clients : About(d)' # {} =>
          /\ far'[d] # "absent"
          /\ far'[d] = "open" => \E g \in ClientFds' : clients'[g].peer = d
    BY <1>1, <1>2, <2>5 DEF ClientsPlaced
  <2> QED
    BY <2>6, <2>7, <2>8 DEF ClientsPlaced
<1> QED
  BY <1>3, <1>4

(* Otherwise a client only closes, or its RST comes.                       *)
LEMMA QuietPlaces ==
  ASSUME PlacesInv,
         \/ EpollWait
         \/ \E e \in batch : AcceptFails(e)
         \/ \E fd \in Fds : TellOpen(fd) \/ TellClosed(fd) \/ TellReset(fd)
  PROVE  ClientsPlaced'
<1>1. /\ UNCHANGED <<backlog, clients, log>> /\ ClientFds' = ClientFds
      /\ \A d : About(d)' = About(d)
  BY DEF EpollWait, AcceptFails, TellOpen, TellClosed, TellReset, worldVars,
         serverVars, ClientFds, About
<1>2. ClientsPlaced /\ far \in [Clients -> {"absent", "open", "closed", "reset"}]
  BY DEF PlacesInv, Places, TypeOK
<1>3. \A d \in Clients : /\ far'[d] = "open" => far[d] = "open"
                         /\ far[d] # "absent" => far'[d] # "absent"
  <2>1. CASE UNCHANGED far
    BY <2>1
  <2>2. CASE \E fd \in Fds : far' = [far EXCEPT ![clients[fd].peer] = "reset"]
    BY <1>2, <2>2
  <2> QED
    BY <2>1, <2>2 DEF EpollWait, AcceptFails, TellOpen, TellClosed, TellReset,
                      worldVars
<1>4. \A i \in 1..Len(backlog) : backlog[i] \in Clients
  BY ElementOfSeq DEF PlacesInv, TypeOK
<1>5. \A f \in ClientFds : clients[f].peer \in Clients
  BY ClientFields DEF PlacesInv
<1>6. \A i \in 1..Len(backlog) : far'[backlog[i]] # "absent"
  BY <1>2, <1>3, <1>4 DEF ClientsPlaced
<1>7. \A i \in 1..Len(backlog) : About(backlog[i])' = {}
  BY <1>1, <1>2 DEF ClientsPlaced, About
<1>8. \A d \in Clients : About(d)' # {} =>
        /\ far'[d] # "absent"
        /\ far'[d] = "open" => \E fd \in ClientFds' : clients'[fd].peer = d
  BY <1>1, <1>2, <1>3 DEF ClientsPlaced
<1>9. \A i \in 1..Len(backlog') :
        /\ far'[backlog'[i]] # "absent" /\ About(backlog[i])' = {}
        /\ \A fd \in ClientFds' : clients'[fd].peer # backlog'[i]
        /\ \A j \in 1..Len(backlog') : backlog'[i] = backlog'[j] => i = j
  BY <1>1, <1>2, <1>6, <1>7 DEF ClientsPlaced
<1>10. \A f \in ClientFds' :
         /\ far'[clients'[f].peer] # "absent"
         /\ \A g \in ClientFds' : clients'[f].peer = clients'[g].peer => f = g
  BY <1>1, <1>2, <1>3, <1>5 DEF ClientsPlaced
<1> QED
  BY <1>8, <1>9, <1>10 DEF ClientsPlaced

-----------------------------------------------------------------------------
(* main2 opens and watches nothing but the listening socket.               *)
LEMMA InitPlaces ==
  ASSUME Init
  PROVE  PlacesInv
<1>1. AcceptHandler \in Handler /\ AcceptHandler.kind = "accept"
  BY DEF AcceptHandler, Handler
<1>2. /\ epoll.fdt = [fd \in Fds |-> IF fd = ListenFd THEN Listener ELSE None]
      /\ epoll.handlers = [fd \in Fds |-> IF fd = ListenFd THEN AcceptHandler
                                          ELSE None]
      /\ Consistent(epoll, {ListenFd}, {ListenFd})
  <2>1. epoll = add_socket(open_fd(EmptyRegistry, ListenFd, Listener),
                           ListenFd, AcceptHandler)
    BY DEF Init
  <2> QED
    BY <1>1, <2>1, ListenAndAdd
<1>3. ClientFds = {} /\ Watched = {ListenFd}
  BY DEF Init, ClientFds, Watched
<1>4. TypeOK
  <2>1. epoll \in Registry
    BY <1>2 DEF Consistent
  <2>2. <<>> \in Seq(Clients) /\ <<>> \in Seq(Nat) /\ <<>> \in Seq(Notice)
        /\ <<>> \in Seq(Talk) /\ Len(<<>>) = 0
        /\ <<>> \in Seq([from : Clients, notice : Notice])
    BY EmptySeq
  <2>3. 0 \in 0..Buffer
    BY Buffer \in Nat
  <2> QED
    BY <2>1, <2>2, <2>3 DEF Init, TypeOK
<1>5. ClientsWatched
  BY <1>2, <1>3 DEF ClientsWatched, Consistent
<1>6. HandlersMatch
  BY <1>1, <1>2, <1>3 DEF HandlersMatch
<1>7. EventsCurrent /\ BroadcastCurrent
  BY DEF Init, EventsCurrent, BroadcastCurrent
<1>8. ClientsPlaced
  <2>1. \A c : About(c) = {}
    BY DEF Init, About
  <2> QED
    BY <1>3, <2>1 DEF Init, ClientsPlaced
<1> QED
  BY <1>4, <1>5, <1>6, <1>7, <1>8 DEF PlacesInv, Places

(* Every step keeps the invariant: one case for each action.               *)
LEMMA NextPlaces == PlacesInv /\ [Next]_vars => PlacesInv'
<1> SUFFICES ASSUME PlacesInv, [Next]_vars
             PROVE  TypeOK' /\ Tables' /\ EventsCurrent' /\ BroadcastCurrent'
                    /\ ClientsPlaced'
  BY DEF PlacesInv, Places, Tables
<1>1. TypeOK /\ Tables
  BY DEF PlacesInv, Places, Tables
<1>2. ASSUME NEW e \in batch, Accept(e)
      PROVE  TypeOK' /\ Tables' /\ EventsCurrent' /\ BroadcastCurrent'
             /\ ClientsPlaced'
  BY <1>2, AcceptTypes, AcceptTables, AcceptEvents, AcceptBroadcast, AcceptPlaces
<1>3. ASSUME NEW e \in batch, AcceptFails(e)
      PROVE  TypeOK' /\ Tables' /\ EventsCurrent' /\ BroadcastCurrent'
             /\ ClientsPlaced'
  <2>1. TypeOK'
    BY <1>1, <1>3 DEF AcceptFails, TypeOK, worldVars, serverVars, Halted
  <2>2. Tables'
    BY <1>1, <1>3, TablesKept DEF AcceptFails, serverVars
  <2>3. EventsCurrent'
    BY <1>3 DEF AcceptFails, worldVars, serverVars, PlacesInv, Places,
                EventsCurrent, Handling, ClientFds, Watched
  <2> QED
    BY <1>3, <2>1, <2>2, <2>3, QuietBroadcast, QuietPlaces
<1>4. ASSUME NEW e \in batch, Income(e) \/ Hangup(e)
      PROVE  TypeOK' /\ Tables' /\ EventsCurrent' /\ BroadcastCurrent'
             /\ ClientsPlaced'
  <2>1. Tables'
    BY <1>1, <1>4, TablesKept DEF Income, Hangup, serverVars
  <2> QED
    BY <1>4, <2>1, IncomeTypes, HangupTypes, IncomeEvents, HangupEvents,
       VisitBroadcast, VisitPlaces
<1>5. ASSUME NEW fd \in Fds, TellOpen(fd) \/ TellClosed(fd) \/ TellReset(fd)
      PROVE  TypeOK' /\ Tables' /\ EventsCurrent' /\ BroadcastCurrent'
             /\ ClientsPlaced'
  <2>1. Tables'
    BY <1>1, <1>5, TablesKept DEF TellOpen, TellClosed, TellReset, serverVars
  <2> QED
    BY <1>5, <2>1, TellTypes, TellEvents, TellBroadcast, QuietPlaces
<1>6. CASE Told
  BY <1>6, ToldTypes, ToldTables, ToldEvents, QuietBroadcast, ToldPlaces
<1>7. CASE EpollWait
  <2>1. Tables'
    BY <1>1, <1>7, TablesKept DEF EpollWait, serverVars
  <2> QED
    BY <1>7, <2>1, WaitTypes, WaitEvents, QuietBroadcast, QuietPlaces
<1>8. ASSUME NEW c \in Clients,
             ClientConnect(c) \/ ClientSays(c) \/ ClientReads(c) \/ ClientCloses(c)
      PROVE  TypeOK' /\ Tables' /\ EventsCurrent' /\ BroadcastCurrent'
             /\ ClientsPlaced'
  <2>1. Tables'
    BY <1>1, <1>8, TablesKept DEF ClientConnect, ClientSays, ClientReads,
                                  ClientCloses, serverVars
  <2> QED
    BY <1>1, <1>8, <2>1, ClientTypes, ClientEvents, QuietBroadcast, ClientPlaces
<1>9. CASE UNCHANGED vars
  <2>1. /\ UNCHANGED <<backlog, far, said, rx, heard, unread>>
        /\ UNCHANGED <<epoll, clients, id_counter, batch, talk, pc, log>>
        /\ ClientFds' = ClientFds /\ Watched' = Watched
    BY <1>9 DEF vars, worldVars, serverVars, ClientFds, Watched
  <2>2. TypeOK'
    BY <1>1, <2>1 DEF TypeOK
  <2>3. EventsCurrent' /\ BroadcastCurrent'
    BY <2>1 DEF PlacesInv, Places, EventsCurrent, BroadcastCurrent, Handling
  <2>4. ClientsPlaced'
    BY <2>1 DEF PlacesInv, Places, ClientsPlaced, About
  <2> QED
    BY <1>1, <2>1, <2>2, <2>3, <2>4, TablesKept
<1> QED
  BY <1>2, <1>3, <1>4, <1>5, <1>6, <1>7, <1>8, <1>9 DEF Next, Server, Visit, Tell

(* The invariant of the chat server that the rest follows from: its tables *)
(* agree, events and broadcasts are about the connections they were made   *)
(* for, and a client has one place.                                        *)
THEOREM PlacesInvHolds == Spec => []PlacesInv
<1>1. Init => PlacesInv
  BY InitPlaces
<1> QED
  BY <1>1, NextPlaces, PTL DEF Spec

(* Every variable keeps its type: what a handler takes from the tables is  *)
(* there.                                                                  *)
THEOREM ChatTypeCorrect == Spec => []TypeOK
<1>1. PlacesInv => TypeOK
  BY DEF PlacesInv
<1> QED
  BY <1>1, PlacesInvHolds, PTL

(* The listening socket and the clients are what is open and watched, also *)
(* while a broadcast is under way.                                         *)
THEOREM ClientsStayWatched == Spec => []ClientsWatched
<1>1. PlacesInv => ClientsWatched
  BY DEF PlacesInv
<1> QED
  BY <1>1, PlacesInvHolds, PTL

(* Only a client that has closed is disconnected.                          *)
THEOREM HangupIsRealHolds == Spec => HangupIsReal
<1> DEFINE Real == \A fd \in Fds :
                     clients[fd] # None /\ clients'[fd] = None
                       => far[clients[fd].peer] \in {"closed", "reset"}
<1>1. PlacesInv /\ [Next]_vars => [Real]_vars
  <2> SUFFICES ASSUME PlacesInv, Next PROVE Real
    OBVIOUS
  <2> SUFFICES ASSUME NEW fd \in Fds, clients[fd] # None, clients'[fd] = None
               PROVE  far[clients[fd].peer] \in {"closed", "reset"}
    OBVIOUS
  <2>1. ASSUME NEW e \in batch, Accept(e)
        PROVE  FALSE
    <3>1. PICK g \in Fds, con \in Connection :
            g \notin Watched /\ clients' = [clients EXCEPT ![g] = con]
      BY <2>1, AcceptEffect
    <3> QED
      BY <3>1, ConnectionAssumption DEF PlacesInv, TypeOK
  <2>2. CASE Told
    <3>1. talk[1].event.kind = "rdhup"
      BY <2>2, ToldData
    <3>2. clients' = [clients EXCEPT ![talk[1].event.fd] = None]
      BY <2>2, <3>1, ToldHangup
    <3>3. fd = talk[1].event.fd
      BY <3>2 DEF PlacesInv, TypeOK
    <3> QED
      BY <2>2, <3>1, <3>3, Talks DEF Told
  <2>3. CASE UNCHANGED clients
    BY <2>3
  <2> QED
    BY <2>1, <2>2, <2>3 DEF Next, Server, Visit, Tell, EpollWait, AcceptFails,
       Income, Hangup, TellOpen, TellClosed, TellReset, ClientConnect,
       ClientSays, ClientReads, ClientCloses, serverVars
<1> QED
  BY <1>1, PlacesInvHolds, PTL DEF Spec, HangupIsReal
=============================================================================
