--------------------------- MODULE ChatOrderProofs ---------------------------
(***************************************************************************)
(* What the chat server tells is true, and all clients hear it in the same *)
(* order, for all values of the constants.                                 *)
(***************************************************************************)
EXTENDS ChatProofs, FiniteSetTheorems

USE ChatAssumption, FdsAssumption, PeersAssumption, NoneAssumption

-----------------------------------------------------------------------------
(* The log as it is after a notice about client c.                         *)

Noted(c, id, what, lines) ==
  /\ log \in Seq(Entry) /\ log' \in Seq(Entry) /\ Len(log') = Len(log) + 1
  /\ \A i \in 1..Len(log) : log'[i] = log[i]
  /\ LET entry == log'[Len(log) + 1]
     IN  /\ entry.from = c /\ entry.notice.id = id
         /\ entry.notice.what = what /\ entry.notice.lines = lines

(* Such a notice is one more about c, and none about others.               *)
LEMMA NotedAbout ==
  ASSUME NEW c, NEW id, NEW what, NEW lines, Noted(c, id, what, lines)
  PROVE  /\ Len(log) \in Nat
         /\ \A d : About(d) \subseteq 1..Len(log)
         /\ \A d : About(d)' = IF d = c THEN About(d) \cup {Len(log) + 1}
                               ELSE About(d)
<1>1. Len(log) \in Nat
  BY LenProperties DEF Noted
<1>2. \A d : About(d)' = IF d = c THEN About(d) \cup {Len(log) + 1} ELSE About(d)
  BY AboutGrows DEF Noted
<1> QED
  BY <1>1, <1>2 DEF About

(* Accept announces a client that has not been heard of.                   *)
LEMMA AcceptNotes ==
  ASSUME PlacesInv, NEW e, Accept(e)
  PROVE  \E fd \in Fds, c \in Clients :
           /\ Noted(c, id_counter, "connected", <<>>)
           /\ About(c) = {} /\ fd \notin ClientFds
           /\ ClientFds' = ClientFds \cup {fd}
           /\ clients'[fd].peer = c /\ clients'[fd].id = id_counter
           /\ \A g \in ClientFds : clients'[g] = clients[g] /\ clients[g].peer # c
           /\ talk = <<>> /\ talk' # <<>> /\ talk'[1].event.kind = "in"
           /\ talk'[1].todo = ClientFds
           /\ UNCHANGED <<far, said, rx, heard>>
<1>1. PICK fd \in Fds, con \in Connection :
        /\ con = [peer |-> Head(backlog), id |-> id_counter]
        /\ backlog # <<>> /\ fd \notin Watched
        /\ Tells(e, con, ClientFds, "connected", <<>>)
        /\ clients' = [clients EXCEPT ![fd] = con]
        /\ ClientFds' = ClientFds \cup {fd}
  BY AcceptEffect
<1>2. e \in Event /\ e.kind = "in" /\ talk = <<>>
  BY HandlesEffect DEF Accept
<1>3. log \in Seq(Entry) /\ ClientFds \in SUBSET Fds /\ <<>> \in Seq(Nat)
  BY EmptySeq DEF PlacesInv, TypeOK, Entry, ClientFds
<1>4. con.peer \in Clients /\ con.id = id_counter
  BY <1>1 DEF Connection
<1>5. /\ Noted(con.peer, id_counter, "connected", <<>>)
      /\ talk' # <<>> /\ talk'[1].event = e /\ talk'[1].todo = ClientFds
  BY <1>1, <1>2, <1>3, <1>4, TellsEffect DEF Whats, Noted
<1>6. About(con.peer) = {} /\ \A g \in ClientFds : clients[g].peer # con.peer
  <2>1. con.peer = backlog[1] /\ 1 \in 1..Len(backlog)
    BY <1>1, EmptySeq DEF PlacesInv, TypeOK
  <2> QED
    BY <2>1 DEF PlacesInv, Places, ClientsPlaced
<1>7. /\ fd \notin ClientFds /\ clients'[fd] = con
      /\ \A g \in ClientFds : clients'[g] = clients[g]
  BY <1>1 DEF PlacesInv, TypeOK, ClientFds, Watched
<1>8. UNCHANGED <<far, said, rx, heard>>
  BY DEF Accept
<1> QED
  BY <1>1, <1>2, <1>4, <1>5, <1>6, <1>7, <1>8, ZenonT(60)

(* Income and Hangup tell everybody else about a client of the table.      *)
LEMMA VisitNotes ==
  ASSUME PlacesInv, NEW e, Income(e) \/ Hangup(e)
  PROVE  \E c \in Clients, what \in Whats, lines \in Seq(Nat) :
           /\ Noted(c, clients[e.fd].id, what, lines)
           /\ Income(e) => what = "says" /\ lines = rx[c] /\ e.kind = "in"
                           /\ rx' = [rx EXCEPT ![c] = <<>>]
           /\ Hangup(e) => what = "disconnected" /\ lines = <<>>
                           /\ e.kind = "rdhup" /\ rx' = rx
           /\ e.fd \in ClientFds /\ c = clients[e.fd].peer
           /\ \A g \in ClientFds \ {e.fd} : clients[g].peer # c
           /\ talk = <<>> /\ talk' # <<>> /\ talk'[1].event = e
           /\ talk'[1].todo = ClientFds \ {e.fd}
           /\ UNCHANGED <<far, said, heard, clients, id_counter>>
           /\ ClientFds' = ClientFds
<1>1. /\ e \in Event /\ e \in batch /\ e.fd \in ClientFds /\ talk = <<>>
      /\ UNCHANGED <<far, said, heard, clients, id_counter>>
      /\ ClientFds' = ClientFds
  BY HandlesEffect DEF Income, Hangup, worldVars, serverVars, ClientFds
<1>2. PICK con \in Connection : con = clients[e.fd] /\ con.peer \in Clients
  BY <1>1, ClientFields DEF PlacesInv
<1>3. Others(e.fd) = ClientFds \ {e.fd}
  BY DEF Others, ClientFds
<1>4. \A g \in ClientFds \ {e.fd} : clients[g].peer # con.peer
  BY <1>1, <1>2 DEF PlacesInv, Places, ClientsPlaced
<1>5. log \in Seq(Entry) /\ Others(e.fd) \in SUBSET Fds /\ <<>> \in Seq(Nat)
      /\ rx[con.peer] \in Seq(Nat)
  BY <1>2, EmptySeq DEF PlacesInv, TypeOK, Entry, Others
<1>6. CASE Income(e)
  <2>1. e.kind = "in" /\ e.fd # ListenFd
    BY <1>1, <1>6 DEF Income, PlacesInv, ClientsWatched
  <2>2. rx[con.peer] # <<>>
    BY <1>1, <1>2, <2>1 DEF PlacesInv, Places, EventsCurrent, Handling
  <2>3. PICK todo \in SUBSET Fds, lines \in Seq(Nat) :
          /\ todo = Others(e.fd) /\ lines = rx[con.peer]
          /\ Tells(e, con, todo, "says", lines)
    BY <1>2, <1>5, <1>6, <2>2 DEF Income
  <2>4. /\ Noted(con.peer, con.id, "says", lines)
        /\ talk' # <<>> /\ talk'[1].event = e /\ talk'[1].todo = todo
    <3>1. PICK what \in Whats : what = "says"
      BY DEF Whats
    <3> QED
      <4>1. Tells(e, con, todo, what, lines)
        BY <2>3, <3>1
      <4>2. /\ Noted(con.peer, con.id, what, lines)
            /\ talk' # <<>> /\ talk'[1].event = e /\ talk'[1].todo = todo
        BY <1>1, <1>5, <4>1, TellsEffect DEF Noted
      <4> QED
        BY <3>1, <4>2
  <2>5. rx' = [rx EXCEPT ![con.peer] = <<>>] /\ ~Hangup(e)
    BY <1>2, <1>6, <2>1 DEF Income, Hangup
  <2> QED
    BY <1>1, <1>2, <1>3, <1>4, <2>1, <2>3, <2>4, <2>5 DEF Whats
<1>7. CASE Hangup(e)
  <2>1. e.kind = "rdhup" /\ rx' = rx /\ ~Income(e)
    BY <1>7 DEF Income, Hangup
  <2>2. PICK todo \in SUBSET Fds, lines \in Seq(Nat) :
          /\ todo = Others(e.fd) /\ lines = <<>>
          /\ Tells(e, con, todo, "disconnected", lines)
    BY <1>2, <1>5, <1>7 DEF Hangup
  <2>3. /\ Noted(con.peer, con.id, "disconnected", lines)
        /\ talk' # <<>> /\ talk'[1].event = e /\ talk'[1].todo = todo
    BY <1>1, <1>5, <2>2, TellsEffect DEF Whats, Noted
  <2> QED
    BY <1>1, <1>2, <1>3, <1>4, <2>1, <2>2, <2>3 DEF Whats
<1> QED
  BY <1>6, <1>7


-----------------------------------------------------------------------------
(* Ids.                                                                    *)

Ids == IdsDistinct /\ IdsCounted /\ ClientsAnnounced

(* The clients that were heard of are finitely many.                       *)
LEMMA KnownCount ==
  ASSUME TypeOK
  PROVE  /\ Known \subseteq Clients /\ IsFiniteSet(Known)
         /\ Cardinality(Known) \in 0..(IdRange - 1)
         /\ \A c \in Clients : About(c) = {} =>
              c \notin Known /\ Cardinality(Known) + 1 < IdRange
<1>1. \A i \in 1..Len(log) : log[i].from \in Clients
  <2>1. log \in Seq(Entry)
    BY DEF TypeOK, Entry
  <2>2. \A i \in 1..Len(log) : log[i] \in Entry
    BY <2>1, ElementOfSeq
  <2> QED
    BY <2>2 DEF Entry
<1>2. Known \subseteq Clients
  BY <1>1 DEF Known
<1>3. /\ IsFiniteSet(Known) /\ Cardinality(Known) <= Cardinality(Clients)
      /\ Cardinality(Known) = Cardinality(Clients) => Known = Clients
  BY <1>2, FS_Subset
<1>4. Cardinality(Known) \in Nat /\ Cardinality(Clients) \in Nat
  BY <1>3, FS_CardinalityType
<1>5. ASSUME NEW c \in Clients, About(c) = {}
      PROVE  c \notin Known
  BY <1>5 DEF About, Known
<1> QED
  BY <1>2, <1>3, <1>4, <1>5

(* The counter goes through the ids in the order of IdOf.                  *)
LEMMA IdOfNext ==
  ASSUME NEW n \in Nat, n + 1 < IdRange
  PROVE  /\ IdOf(n) \in 0..(IdRange - 1)
         /\ (IdOf(n) + 1) % IdRange = IdOf(n + 1)
         /\ \A m \in 0..(n - 1) : IdOf(m) # IdOf(n)
<1>1. IdRange \in Nat /\ FirstId \in 0..(IdRange - 1)
  OBVIOUS
<1>2. IdOf(n) \in 0..(IdRange - 1)
  BY <1>1 DEF IdOf
<1>3. (IdOf(n) + 1) % IdRange = IF IdOf(n) + 1 < IdRange THEN IdOf(n) + 1 ELSE 0
  BY <1>2, NextId
<1>4. IdOf(n + 1) = IF IdOf(n) + 1 < IdRange THEN IdOf(n) + 1 ELSE 0
  BY <1>1 DEF IdOf
<1>5. \A m \in 0..(n - 1) : IdOf(m) # IdOf(n)
  BY <1>1 DEF IdOf
<1> QED
  BY <1>2, <1>3, <1>4, <1>5

(* A notice keeps ids apart if it has the id of those about its client.    *)
LEMMA NotedIds ==
  ASSUME NEW c, NEW id, NEW what, NEW lines, Noted(c, id, what, lines),
         IdsDistinct,
         \A j \in 1..Len(log) : log[j].notice.id = id <=> log[j].from = c
  PROVE  IdsDistinct'
<1>1. Len(log) \in Nat
  BY NotedAbout
<1>2. \A i \in 1..Len(log') : i \in 1..Len(log) \/ i = Len(log) + 1
  BY <1>1 DEF Noted
<1>3. ASSUME NEW i \in 1..Len(log'), NEW j \in 1..Len(log')
      PROVE  log'[i].notice.id = log'[j].notice.id <=> log'[i].from = log'[j].from
  <2>1. CASE i \in 1..Len(log) /\ j \in 1..Len(log)
    BY <2>1 DEF Noted, IdsDistinct
  <2>2. CASE i \in 1..Len(log) /\ j = Len(log) + 1
    BY <2>2 DEF Noted
  <2>3. CASE i = Len(log) + 1 /\ j \in 1..Len(log)
    BY <2>3 DEF Noted
  <2>4. CASE i = Len(log) + 1 /\ j = Len(log) + 1
    BY <2>4
  <2> QED
    BY <1>2, <2>1, <2>2, <2>3, <2>4
<1> QED
  BY <1>3 DEF IdsDistinct

(* Accept announces an id that no client before has had.                   *)
LEMMA AcceptIds ==
  ASSUME PlacesInv, Ids, NEW e, Accept(e)
  PROVE  Ids'
<1>1. PICK fd \in Fds, c \in Clients :
        /\ Noted(c, id_counter, "connected", <<>>)
        /\ About(c) = {} /\ fd \notin ClientFds
        /\ ClientFds' = ClientFds \cup {fd}
        /\ clients'[fd].peer = c /\ clients'[fd].id = id_counter
        /\ \A g \in ClientFds : clients'[g] = clients[g] /\ clients[g].peer # c
        /\ talk = <<>>
  BY AcceptNotes
<1>2. /\ Len(log) \in Nat /\ \A d : About(d) \subseteq 1..Len(log)
      /\ \A d : About(d)' = IF d = c THEN About(d) \cup {Len(log) + 1} ELSE About(d)
  BY <1>1, NotedAbout
<1>3. PICK n \in Nat : n = Cardinality(Known) /\ n + 1 < IdRange
  BY <1>1, KnownCount DEF PlacesInv
<1>4. id_counter = IdOf(n) /\ \A j \in 1..Len(log) : log[j].notice.id # id_counter
  BY <1>3, IdOfNext DEF Ids, IdsCounted
<1>5. \A j \in 1..Len(log) : log[j].from # c
  BY <1>1 DEF About
<1>6. IdsDistinct'
  <2>1. PICK id : id = id_counter
    OBVIOUS
  <2> QED
    BY <1>1, <1>4, <1>5, <2>1, NotedIds DEF Ids
<1>7. Cardinality(Known)' = n + 1
  <2>1. Known' = Known \cup {c}
    BY <1>1, <1>2 DEF Known, Noted
  <2>2. IsFiniteSet(Known) /\ c \notin Known
    BY <1>1, KnownCount DEF PlacesInv
  <2> QED
    BY <1>3, <2>1, <2>2, FS_AddElement
<1>8. IdsCounted'
  <2>1. id_counter' = IdOf(n + 1)
    BY <1>3, <1>4, IdOfNext DEF Accept
  <2>2. ASSUME NEW i \in 1..Len(log')
        PROVE  \E m \in 0..n : log'[i].notice.id = IdOf(m)
    <3>1. CASE i \in 1..Len(log)
      <4>1. \E m \in 0..(n - 1) : log[i].notice.id = IdOf(m)
        BY <1>3, <3>1 DEF Ids, IdsCounted
      <4> QED
        BY <1>1, <1>3, <3>1, <4>1 DEF Noted
    <3>2. CASE i = Len(log) + 1
      BY <1>1, <1>3, <1>4, <3>2 DEF Noted
    <3> QED
      BY <1>1, <1>2, <3>1, <3>2, SMTT(30) DEF Noted
  <2> QED
    BY <1>3, <1>7, <2>1, <2>2 DEF IdsCounted, IdOf
<1>9. ClientsAnnounced'
  <2>1. ASSUME NEW g \in ClientFds'
        PROVE  /\ \E i \in About(clients[g].peer)' :
                    log'[i].notice.id = clients'[g].id
               /\ \A i \in About(clients[g].peer)' :
                    log'[i].notice.what # "disconnected"
    <3>1. CASE g = fd
      <4>1. About(c)' = {Len(log) + 1}
        BY <1>1, <1>2
      <4>2. About(clients[fd].peer)' = {Len(log) + 1}
        BY <1>1, <4>1 DEF About
      <4> QED
        BY <1>1, <3>1, <4>2 DEF Noted
    <3>2. CASE g \in ClientFds
      <4>1. PICK d : d = clients[g].peer /\ d = clients'[g].peer /\ d # c
        BY <1>1, <3>2
      <4>2. /\ \E i \in About(d) : log[i].notice.id = clients[g].id
            /\ \A i \in About(d) : log[i].notice.what # "disconnected"
        BY <1>1, <3>2, <4>1 DEF Ids, ClientsAnnounced
      <4>3. About(d)' = About(d) /\ \A i \in About(d) : log'[i] = log[i]
        BY <1>1, <1>2, <4>1 DEF Noted
      <4>4. About(clients[g].peer)' = About(d)'
        BY <4>1 DEF About
      <4> QED
        BY <1>1, <3>2, <4>2, <4>3, <4>4
    <3> QED
      BY <1>1, <3>1, <3>2
  <2> QED
    BY <2>1 DEF ClientsAnnounced
<1> QED
  BY <1>6, <1>8, <1>9 DEF Ids

(* A visit gives its notice the id that the client was announced under.    *)
LEMMA VisitIds ==
  ASSUME PlacesInv, Ids, NEW e, Income(e) \/ Hangup(e)
  PROVE  Ids'
<1>1. PICK c \in Clients, what \in Whats, lines \in Seq(Nat) :
        /\ Noted(c, clients[e.fd].id, what, lines)
        /\ Income(e) => what = "says"
        /\ Hangup(e) => e.kind = "rdhup"
        /\ e.fd \in ClientFds /\ c = clients[e.fd].peer
        /\ \A g \in ClientFds \ {e.fd} : clients[g].peer # c
        /\ talk = <<>> /\ talk' # <<>> /\ talk'[1].event = e
        /\ UNCHANGED <<clients, id_counter>> /\ ClientFds' = ClientFds
  BY VisitNotes
<1>2. /\ Len(log) \in Nat /\ \A d : About(d) \subseteq 1..Len(log)
      /\ \A d : About(d)' = IF d = c THEN About(d) \cup {Len(log) + 1} ELSE About(d)
  BY <1>1, NotedAbout
<1>3. PICK id : id = clients[e.fd].id
  OBVIOUS
<1>4. \E i \in About(c) : log[i].notice.id = id
  BY <1>1, <1>3 DEF Ids, ClientsAnnounced
<1>5. \A j \in 1..Len(log) : log[j].notice.id = id <=> log[j].from = c
  BY <1>4 DEF Ids, IdsDistinct, About
<1>6. IdsDistinct'
  BY <1>1, <1>3, <1>5, NotedIds DEF Ids
<1>7. IdsCounted'
  <2>1. Known' = Known
    <3>1. \A i \in 1..Len(log') : i \in 1..Len(log) \/ i = Len(log) + 1
      BY <1>1, <1>2 DEF Noted
    <3>2. \A i \in 1..Len(log) : i \in 1..Len(log') /\ log'[i] = log[i]
      BY <1>1, <1>2 DEF Noted
    <3>3. log'[Len(log) + 1].from = c /\ \E i \in 1..Len(log) : log[i].from = c
      BY <1>1, <1>4 DEF Noted, About
    <3> QED
      BY <3>1, <3>2, <3>3 DEF Known
  <2>2. PICK n : n = Cardinality(Known)
    OBVIOUS
  <2>3. id_counter' = IdOf(n) /\ Cardinality(Known)' = n
    BY <1>1, <2>1, <2>2 DEF Ids, IdsCounted
  <2>4. ASSUME NEW i \in 1..Len(log')
        PROVE  \E m \in 0..(n - 1) : log'[i].notice.id = IdOf(m)
    <3>1. PICK k \in 1..Len(log) : log[k].notice.id = log'[i].notice.id
      <4>1. CASE i \in 1..Len(log)
        BY <1>1, <4>1 DEF Noted
      <4>2. CASE i = Len(log) + 1
        BY <1>1, <1>3, <1>4, <4>2 DEF Noted, About
      <4> QED
        BY <1>1, <1>2, <4>1, <4>2 DEF Noted
    <3> QED
      BY <2>2, <3>1 DEF Ids, IdsCounted
  <2> QED
    BY <2>3, <2>4 DEF IdsCounted, IdOf
<1>8. ClientsAnnounced'
  <2>1. ASSUME NEW g \in ClientFds
        PROVE  /\ \E i \in About(clients[g].peer)' :
                    log'[i].notice.id = clients[g].id
               /\ \A i \in About(clients[g].peer)' :
                    log'[i].notice.what = "disconnected" =>
                      e.fd = g /\ e.kind = "rdhup"
    <3>1. PICK d : d = clients[g].peer
      OBVIOUS
    <3>2. /\ \E i \in About(d) : log[i].notice.id = clients[g].id
          /\ \A i \in About(d) : log[i].notice.what # "disconnected"
      BY <1>1, <3>1 DEF Ids, ClientsAnnounced
    <3>3. About(d) \subseteq About(d)' /\ \A i \in About(d) : log'[i] = log[i]
      BY <1>1, <1>2 DEF Noted
    <3>4. \A i \in About(d)' : i \in About(d) \/ (i = Len(log) + 1 /\ d = c)
      BY <1>2
    <3>5. d = c => g = e.fd
      BY <1>1, <3>1
    <3>6. log'[Len(log) + 1].notice.what = what
      BY <1>1 DEF Noted
    <3>7. About(clients[g].peer)' = About(d)'
      BY <1>1, <3>1 DEF About
    <3>8. what = "disconnected" => e.kind = "rdhup"
      BY <1>1
    <3> QED
      BY <3>2, <3>3, <3>4, <3>5, <3>6, <3>7, <3>8
  <2> QED
    BY <1>1, <2>1 DEF ClientsAnnounced
<1> QED
  BY <1>6, <1>7, <1>8 DEF Ids

(* A handler that returns erases the only client that was given up.        *)
LEMMA ToldIds ==
  ASSUME PlacesInv, Ids, Told
  PROVE  Ids'
<1>1. UNCHANGED <<log, id_counter>> /\ talk' = <<>>
  BY DEF Told, Proceed
<1>2. IdsDistinct' /\ IdsCounted'
  <2>1. Known' = Known
    BY <1>1 DEF Known
  <2> QED
    BY <1>1, <2>1 DEF Ids, IdsDistinct, IdsCounted, IdOf
<1>3. PICK fd : fd = talk[1].event.fd
  OBVIOUS
<1>4. /\ ClientFds' = IF talk[1].event.kind = "rdhup" THEN ClientFds \ {fd}
                      ELSE ClientFds
      /\ \A g \in ClientFds' : clients'[g] = clients[g]
  <2>1. CASE talk[1].event.kind = "rdhup"
    <3>1. clients' = [clients EXCEPT ![fd] = None] /\ ClientFds' = ClientFds \ {fd}
      BY <1>3, <2>1, ToldHangup
    <3>2. \A g \in Fds \ {fd} : clients'[g] = clients[g]
      BY <3>1 DEF PlacesInv, TypeOK
    <3> QED
      BY <2>1, <3>1, <3>2 DEF ClientFds
  <2>2. CASE talk[1].event.kind # "rdhup"
    BY <2>2, ToldData
  <2> QED
    BY <2>1, <2>2
<1>5. ASSUME NEW g \in ClientFds'
      PROVE  /\ \E i \in About(clients[g].peer)' : log'[i].notice.id = clients'[g].id
             /\ \A i \in About(clients[g].peer)' :
                  log'[i].notice.what # "disconnected"
  <2>1. g \in ClientFds /\ clients'[g] = clients[g]
    BY <1>4
  <2>2. About(clients[g].peer)' = About(clients[g].peer)
    BY <1>1, <2>1 DEF About
  <2>3. ~(talk[1].event.fd = g /\ talk[1].event.kind = "rdhup")
    BY <1>3, <1>4
  <2> QED
    BY <1>1, <2>1, <2>2, <2>3 DEF Ids, ClientsAnnounced
<1>6. ClientsAnnounced'
  BY <1>5 DEF ClientsAnnounced
<1> QED
  BY <1>2, <1>6 DEF Ids

(* Any other step keeps the log, the client table and the handler's event. *)
Quiet ==
  /\ UNCHANGED <<log, clients, id_counter>>
  /\ talk' = talk \/ (talk # <<>> /\ talk' # <<>> /\ talk'[1].event = talk[1].event)

(* Those steps: all but Accept, Income, Hangup and Told.                   *)
LEMMA QuietSteps ==
  ASSUME PlacesInv,
         \/ EpollWait
         \/ \E e \in batch : AcceptFails(e)
         \/ \E fd \in Fds : TellOpen(fd) \/ TellClosed(fd) \/ TellReset(fd)
         \/ \E c \in Clients : ClientConnect(c) \/ ClientSays(c)
                               \/ ClientReads(c) \/ ClientCloses(c)
         \/ UNCHANGED vars
  PROVE  Quiet
<1>1. ASSUME NEW fd \in Fds, Telling(fd)
      PROVE  talk # <<>> /\ talk' # <<>> /\ talk'[1].event = talk[1].event
  BY <1>1, TellingEffect, Talks
<1> QED
  BY <1>1 DEF Quiet, EpollWait, AcceptFails, TellOpen, TellClosed, TellReset,
              ClientConnect, ClientSays, ClientReads, ClientCloses, vars, serverVars

(* They keep what is known of ids.                                         *)
LEMMA QuietIds ==
  ASSUME Ids, Quiet
  PROVE  Ids'
<1>1. ClientFds' = ClientFds /\ Known' = Known /\ \A d : About(d)' = About(d)
  BY DEF Quiet, ClientFds, Known, About
<1>2. IdsDistinct' /\ IdsCounted'
  BY <1>1 DEF Quiet, Ids, IdsDistinct, IdsCounted, IdOf
<1>3. \A fd \in ClientFds :
        talk # <<>> /\ talk[1].event.fd = fd /\ talk[1].event.kind = "rdhup" =>
          talk' # <<>> /\ talk'[1].event.fd = fd /\ talk'[1].event.kind = "rdhup"
  BY DEF Quiet
<1>4. ClientsAnnounced'
  BY <1>1, <1>3 DEF Quiet, Ids, ClientsAnnounced, About
<1> QED
  BY <1>2, <1>4 DEF Ids

-----------------------------------------------------------------------------
(* Lives.                                                                  *)

(* A life begins with the notice of Accept.                                *)
LEMMA AcceptLives ==
  ASSUME PlacesInv, LivesInOrder, NEW e, Accept(e)
  PROVE  LivesInOrder'
<1>1. PICK fd \in Fds, c \in Clients :
        /\ Noted(c, id_counter, "connected", <<>>)
        /\ About(c) = {} /\ fd \notin ClientFds
        /\ ClientFds' = ClientFds \cup {fd}
        /\ clients'[fd].peer = c
        /\ \A g \in ClientFds : clients'[g] = clients[g]
  BY AcceptNotes
<1>2. /\ Len(log) \in Nat /\ \A d : About(d) \subseteq 1..Len(log)
      /\ \A d : About(d)' = IF d = c THEN About(d) \cup {Len(log) + 1} ELSE About(d)
  BY <1>1, NotedAbout
<1>3. ASSUME NEW d \in Clients, NEW i \in About(d)'
      PROVE  LET what == log'[i].notice.what
             IN  /\ what = "connected" <=> \A j \in About(d)' : i <= j
                 /\ what = "disconnected" => \A j \in About(d)' : j <= i
                 /\ /\ \A j \in About(d)' : j <= i
                    /\ \A g \in ClientFds' : clients'[g].peer # d
                    => what = "disconnected"
  <2>1. CASE d = c
    <3>1. About(d)' = {Len(log) + 1} /\ i = Len(log) + 1
      BY <1>1, <1>2, <2>1
    <3>2. log'[i].notice.what = "connected"
      BY <1>1, <3>1 DEF Noted
    <3> QED
      BY <1>1, <1>2, <2>1, <3>1, <3>2
  <2>2. CASE d # c
    <3>1. About(d)' = About(d) /\ log'[i] = log[i]
      BY <1>1, <1>2, <2>2 DEF Noted
    <3>2. (\A g \in ClientFds' : clients'[g].peer # d)
            => \A g \in ClientFds : clients[g].peer # d
      BY <1>1
    <3> QED
      BY <3>1, <3>2 DEF LivesInOrder
  <2> QED
    BY <2>1, <2>2
<1> QED
  BY <1>3 DEF LivesInOrder

(* It goes on with those of Income and Hangup until one says that it ends. *)
LEMMA VisitLives ==
  ASSUME PlacesInv, LivesInOrder, ClientsAnnounced, NEW e, Income(e) \/ Hangup(e)
  PROVE  LivesInOrder'
<1>1. PICK c \in Clients, what \in Whats, lines \in Seq(Nat) :
        /\ Noted(c, clients[e.fd].id, what, lines)
        /\ what # "connected"
        /\ e.fd \in ClientFds /\ c = clients[e.fd].peer
        /\ talk = <<>>
        /\ UNCHANGED clients /\ ClientFds' = ClientFds
  BY VisitNotes
<1>2. /\ Len(log) \in Nat /\ \A d : About(d) \subseteq 1..Len(log)
      /\ \A d : About(d)' = IF d = c THEN About(d) \cup {Len(log) + 1} ELSE About(d)
  BY <1>1, NotedAbout
<1>3. About(c) # {} /\ \A i \in About(c) : log[i].notice.what # "disconnected"
  BY <1>1 DEF ClientsAnnounced
<1>4. ASSUME NEW d \in Clients, NEW i \in About(d)'
      PROVE  LET kind == log'[i].notice.what
             IN  /\ kind = "connected" <=> \A j \in About(d)' : i <= j
                 /\ kind = "disconnected" => \A j \in About(d)' : j <= i
                 /\ /\ \A j \in About(d)' : j <= i
                    /\ \A g \in ClientFds' : clients'[g].peer # d
                    => kind = "disconnected"
  <2>1. CASE d # c
    <3>1. About(d)' = About(d) /\ log'[i] = log[i]
      BY <1>1, <1>2, <2>1 DEF Noted
    <3> QED
      BY <1>1, <3>1 DEF LivesInOrder
  <2>2. CASE d = c /\ i \in About(c)
    <3>1. log'[i] = log[i] /\ About(d)' = About(c) \cup {Len(log) + 1}
          /\ \A j \in About(d)' : j \in About(c) \/ j = Len(log) + 1
      BY <1>1, <1>2, <2>2 DEF Noted
    <3>2. log[i].notice.what = "connected" <=> \A j \in About(c) : i <= j
      BY <2>2 DEF LivesInOrder
    <3>3. i <= Len(log) + 1
      BY <1>2, <2>2
    <3> QED
      BY <1>1, <1>3, <2>2, <3>1, <3>2, <3>3
  <2>3. CASE d = c /\ i = Len(log) + 1
    <3>1. log'[i].notice.what # "connected"
      BY <1>1, <2>3 DEF Noted
    <3>2. \E j \in About(d)' : ~(i <= j)
      BY <1>2, <1>3, <2>3
    <3>3. \A j \in About(d)' : j <= i
      BY <1>2, <2>3
    <3>4. \E g \in ClientFds' : clients'[g].peer = d
      BY <1>1, <2>3
    <3> QED
      BY <3>1, <3>2, <3>3, <3>4
  <2> QED
    BY <1>2, <2>1, <2>2, <2>3
<1> QED
  BY <1>4 DEF LivesInOrder

(* Then the client is erased.                                              *)
LEMMA ToldLives ==
  ASSUME PlacesInv, LivesInOrder, Told
  PROVE  LivesInOrder'
<1>1. log' = log /\ \A d : About(d)' = About(d)
  BY DEF Told, About
<1>2. ASSUME NEW d \in Clients, NEW i \in About(d),
             \A j \in About(d) : j <= i,
             \A g \in ClientFds' : clients'[g].peer # d,
             \E g \in ClientFds : clients[g].peer = d
      PROVE  log[i].notice.what = "disconnected"
  <2>1. talk[1].event.kind = "rdhup"
    BY <1>2, ToldData
  <2>2. PICK fd : fd = talk[1].event.fd
    OBVIOUS
  <2>3. clients' = [clients EXCEPT ![fd] = None] /\ ClientFds' = ClientFds \ {fd}
    BY <2>1, <2>2, ToldHangup
  <2>4. clients[fd].peer = d
    BY <1>2, <2>3 DEF PlacesInv, TypeOK, ClientFds
  <2>5. log # <<>> /\ log[Len(log)].from = d
        /\ log[Len(log)].notice.what = "disconnected"
    BY <2>1, <2>2, <2>4, Talks DEF Told, PlacesInv, Places, BroadcastCurrent
  <2>6. Len(log) \in Nat \ {0}
    BY <2>5, EmptySeq DEF PlacesInv, TypeOK
  <2>7. Len(log) \in About(d) /\ i \in 1..Len(log)
    BY <2>5, <2>6 DEF About
  <2>8. i = Len(log)
    BY <1>2, <2>6, <2>7
  <2> QED
    BY <2>5, <2>8
<1>3. ASSUME NEW d \in Clients, NEW i \in About(d)
      PROVE  LET what == log'[i].notice.what
             IN  /\ what = "connected" <=> \A j \in About(d)' : i <= j
                 /\ what = "disconnected" => \A j \in About(d)' : j <= i
                 /\ /\ \A j \in About(d)' : j <= i
                    /\ \A g \in ClientFds' : clients'[g].peer # d
                    => what = "disconnected"
  BY <1>1, <1>2 DEF LivesInOrder
<1> QED
  BY <1>1, <1>3 DEF LivesInOrder

(* They keep what is known of lives.                                       *)
LEMMA QuietLives ==
  ASSUME LivesInOrder, Quiet
  PROVE  LivesInOrder'
BY DEF Quiet, LivesInOrder, About, ClientFds

-----------------------------------------------------------------------------
(* Lines.                                                                  *)

(* The lines of c up to number n are in its notices, in order.             *)
Relayed(c, n) ==
  /\ \A m \in 1..n : \E i \in About(c) :
       \E k \in 1..Len(log[i].notice.lines) : log[i].notice.lines[k] = m
  /\ \A i, j \in About(c) : \A k \in 1..Len(log[i].notice.lines),
                               m \in 1..Len(log[j].notice.lines) :
       /\ log[i].notice.lines[k] <= n
       /\ i < j \/ (i = j /\ k < m) =>
            log[i].notice.lines[k] < log[j].notice.lines[m]

(* The lines of c that were not read are those from number n on.           *)
Unread(c, n) ==
  /\ said[c] = n + Len(rx[c])
  /\ \A m \in 1..Len(rx[c]) : rx[c][m] = n + m

LinesRelayed == \A c \in Clients : \E n \in Nat : Relayed(c, n) /\ Unread(c, n)

(* LinesIntact in these terms.                                             *)
LEMMA LinesMeaning == TypeOK => (LinesIntact <=> LinesRelayed)
<1> SUFFICES ASSUME TypeOK PROVE LinesIntact <=> LinesRelayed
  OBVIOUS
<1>1. \A c \in Clients : said[c] \in Nat /\ Len(rx[c]) \in Nat
  BY LenProperties DEF TypeOK
<1>2. ASSUME NEW c \in Clients, NEW n \in Nat, Unread(c, n)
      PROVE  n = said[c] - Len(rx[c])
  BY <1>1, <1>2 DEF Unread
<1>3. ASSUME LinesIntact, NEW c \in Clients
      PROVE  \E n \in Nat : Relayed(c, n) /\ Unread(c, n)
  <2>1. PICK n : n = said[c] - Len(rx[c])
    OBVIOUS
  <2>2. n \in Nat /\ said[c] = n + Len(rx[c])
    <3>1. Len(rx[c]) <= said[c]
      BY <1>3 DEF LinesIntact
    <3> QED
      BY <1>1, <2>1, <3>1
  <2>3. Unread(c, n)
    BY <1>3, <2>1, <2>2 DEF LinesIntact, Unread
  <2>4. Relayed(c, n)
    BY <1>3, <2>1 DEF LinesIntact, Relayed
  <2> QED
    BY <2>2, <2>3, <2>4
<1>4. ASSUME \A c \in Clients : \E n \in Nat : Relayed(c, n) /\ Unread(c, n)
      PROVE  LinesIntact
  <2>1. \A c \in Clients : /\ Relayed(c, said[c] - Len(rx[c]))
                           /\ Unread(c, said[c] - Len(rx[c]))
                           /\ Len(rx[c]) <= said[c]
    BY <1>1, <1>2, <1>4
  <2> QED
    BY <2>1 DEF LinesIntact, Relayed, Unread
<1> QED
  BY <1>3, <1>4 DEF LinesRelayed

(* Notices about others leave what was relayed.                            *)
LEMMA RelayedKept ==
  ASSUME NEW c, NEW n, Relayed(c, n), About(c)' = About(c),
         \A i \in About(c) : log'[i] = log[i]
  PROVE  Relayed(c, n)'
<1>1. \A i \in About(c) : log'[i].notice.lines = log[i].notice.lines
  OBVIOUS
<1>2. ASSUME NEW m \in 1..n
      PROVE  \E i \in About(c)' : \E k \in 1..Len(log'[i].notice.lines) :
               log'[i].notice.lines[k] = m
  BY <1>1 DEF Relayed
<1>3. ASSUME NEW i \in About(c)', NEW j \in About(c)',
             NEW k \in 1..Len(log'[i].notice.lines),
             NEW m \in 1..Len(log'[j].notice.lines)
      PROVE  /\ log'[i].notice.lines[k] <= n
             /\ i < j \/ (i = j /\ k < m) =>
                  log'[i].notice.lines[k] < log'[j].notice.lines[m]
  <2>1. i \in About(c) /\ j \in About(c)
    OBVIOUS
  <2>2. log'[i] = log[i] /\ log'[j] = log[j]
    BY <2>1
  <2>3. k \in 1..Len(log[i].notice.lines) /\ m \in 1..Len(log[j].notice.lines)
    BY <2>2
  <2> QED
    BY <2>1, <2>2, <2>3 DEF Relayed
<1> QED
  BY <1>2, <1>3 DEF Relayed

(* A notice with the next lines of c adds them, and no others.             *)
LEMMA NotedLines ==
  ASSUME TypeOK, NEW c, NEW id, NEW what, NEW lines \in Seq(Nat),
         Noted(c, id, what, lines), NEW n \in Nat,
         \A k \in 1..Len(lines) : lines[k] = n + k
  PROVE  /\ Relayed(c, n) => Relayed(c, n + Len(lines))'
         /\ \A d : d # c /\ Relayed(d, n) => Relayed(d, n)'
<1>1. /\ Len(log) \in Nat /\ \A d : About(d) \subseteq 1..Len(log)
      /\ \A d : About(d)' = IF d = c THEN About(d) \cup {Len(log) + 1} ELSE About(d)
  BY NotedAbout
<1>2. \A i \in 1..Len(log) : log'[i] = log[i]
  BY DEF Noted
<1>3. ASSUME NEW d, d # c, Relayed(d, n)
      PROVE  Relayed(d, n)'
  <2>1. About(d)' = About(d) /\ \A i \in About(d) : log'[i] = log[i]
    BY <1>1, <1>2, <1>3
  <2> QED
    BY <1>3, <2>1, RelayedKept
<1>4. ASSUME Relayed(c, n)
      PROVE  Relayed(c, n + Len(lines))'
  <2> DEFINE L(i) == log[i].notice.lines
             LL(i) == log'[i].notice.lines
             new == Len(log) + 1
  <2>1. Len(lines) \in Nat /\ LL(new) = lines
    BY LenProperties DEF Noted
  <2>2. \A i \in About(c) : L(i) \in Seq(Nat) /\ LL(i) = L(i) /\ i < new
    <3>1. log \in Seq(Entry)
      BY DEF Noted
    <3>2. \A i \in 1..Len(log) : log[i] \in Entry
      BY <3>1, ElementOfSeq
    <3>3. \A i \in 1..Len(log) : L(i) \in Seq(Nat)
      BY <3>2 DEF Entry, Notice
    <3> QED
      BY <1>1, <1>2, <3>3
  <2>3. \A i \in About(c) : Len(L(i)) \in Nat
                            /\ \A k \in 1..Len(L(i)) : L(i)[k] \in Nat
    BY <2>2, LenProperties, ElementOfSeq
  <2>4. About(c)' = About(c) \cup {new}
    BY <1>1
  <2>5. /\ \A m \in 1..n : \E i \in About(c) : \E k \in 1..Len(L(i)) : L(i)[k] = m
        /\ \A i, j \in About(c) : \A k \in 1..Len(L(i)), m \in 1..Len(L(j)) :
             /\ L(i)[k] <= n
             /\ i < j \/ (i = j /\ k < m) => L(i)[k] < L(j)[m]
    BY <1>4 DEF Relayed
  <2> HIDE DEF L, LL, new
  <2>6. ASSUME NEW m \in 1..(n + Len(lines))
        PROVE  \E i \in About(c)' : \E k \in 1..Len(LL(i)) : LL(i)[k] = m
    <3>1. CASE m \in 1..n
      BY <2>2, <2>4, <2>5, <3>1
    <3>2. CASE m \notin 1..n
      <4>1. m - n \in 1..Len(lines) /\ n + (m - n) = m
        BY <2>1, <3>2
      <4>2. LL(new)[m - n] = m
        BY <2>1, <4>1
      <4> QED
        BY <2>1, <2>4, <4>1, <4>2
    <3> QED
      BY <3>1, <3>2
  <2>7. ASSUME NEW i \in About(c)', NEW j \in About(c)',
               NEW k \in 1..Len(LL(i)), NEW m \in 1..Len(LL(j))
        PROVE  /\ LL(i)[k] <= n + Len(lines)
               /\ i < j \/ (i = j /\ k < m) => LL(i)[k] < LL(j)[m]
    <3>1. CASE i \in About(c) /\ j \in About(c)
      <4>1. /\ L(i)[k] <= n /\ L(i)[k] \in Nat
            /\ i < j \/ (i = j /\ k < m) => L(i)[k] < L(j)[m]
        BY <2>2, <2>3, <2>5, <3>1
      <4> QED
        BY <2>1, <2>2, <3>1, <4>1, SMTT(30)
    <3>2. CASE i \in About(c) /\ j = new
      <4>1. L(i)[k] <= n /\ L(i)[k] \in Nat /\ LL(i)[k] = L(i)[k]
        BY <2>2, <2>3, <2>5, <3>2
      <4>2. LL(j)[m] = n + m /\ m \in Nat \ {0}
        BY <2>1, <3>2
      <4> QED
        BY <2>1, <4>1, <4>2
    <3>3. CASE i = new /\ j \in About(c)
      <4>1. LL(i)[k] = n + k /\ k \in 1..Len(lines) /\ ~(i < j) /\ i # j
        <5>1. j \in Nat /\ j < new /\ new \in Nat
          BY <1>1, <2>2, <3>3 DEF new
        <5> QED
          BY <2>1, <3>3, <5>1
      <4> QED
        BY <2>1, <4>1
    <3>4. CASE i = new /\ j = new
      <4>1. LL(i)[k] = n + k /\ k \in 1..Len(lines)
            /\ LL(j)[m] = n + m /\ m \in 1..Len(lines)
        BY <2>1, <3>4
      <4>2. ~(i < j)
        BY <1>1, <3>4 DEF new
      <4> QED
        BY <2>1, <4>1, <4>2
    <3> QED
      BY <2>4, <3>1, <3>2, <3>3, <3>4
  <2> QED
    BY <2>6, <2>7 DEF Relayed, LL
<1> QED
  BY <1>3, <1>4

(* What the steps do to a client's lines.                                  *)
LEMMA LinesKept ==
  ASSUME TypeOK, NEW c \in Clients, NEW n \in Nat, Relayed(c, n), Unread(c, n),
         UNCHANGED <<said[c], rx[c]>>, UNCHANGED log
  PROVE  Relayed(c, n)' /\ Unread(c, n)'
BY DEF Relayed, Unread, About

(* LinesIntact: lines are numbered as sent, read and repeated.             *)
LEMMA NextLines ==
  ASSUME PlacesInv, LinesIntact, [Next]_vars
  PROVE  LinesIntact'
<1>1. TypeOK /\ TypeOK'
  BY NextPlaces DEF PlacesInv
<1>2. SUFFICES ASSUME NEW d \in Clients
               PROVE  \E n \in Nat : Relayed(d, n)' /\ Unread(d, n)'
  <2>1. TypeOK' => (LinesIntact' <=> LinesRelayed')
    BY LinesMeaning, PTL
  <2> QED
    BY <1>1, <2>1 DEF LinesRelayed
<1>3. PICK n \in Nat : Relayed(d, n) /\ Unread(d, n)
  BY <1>1, LinesMeaning DEF LinesRelayed
<1>4. CASE \E e \in batch : Accept(e) \/ Hangup(e)
  <2>1. PICK e \in batch : Accept(e) \/ Hangup(e)
    BY <1>4
  <2>2. <<>> \in Seq(Nat) /\ Len(<<>>) = 0 /\ n + 0 = n
    BY EmptySeq
  <2>3. PICK c, id, what, lines :
          lines \in Seq(Nat) /\ lines = <<>> /\ Noted(c, id, what, lines)
    <3>1. PICK lines \in Seq(Nat) : lines = <<>>
      BY <2>2
    <3>2. CASE Accept(e)
      <4>1. PICK id, what : id = id_counter /\ what = "connected"
        OBVIOUS
      <4>2. \E c \in Clients : Noted(c, id, what, lines)
        BY <3>1, <3>2, <4>1, AcceptNotes
      <4> QED
        BY <3>1, <4>2
    <3>3. CASE Hangup(e)
      <4>1. PICK id : id = clients[e.fd].id
        OBVIOUS
      <4>2. \E c \in Clients, what \in Whats : Noted(c, id, what, lines)
        <5>1. PICK c \in Clients, what \in Whats, ls \in Seq(Nat) :
                ls = <<>> /\ Noted(c, clients[e.fd].id, what, ls)
          BY <3>3, VisitNotes
        <5> QED
          BY <3>1, <4>1, <5>1
      <4> QED
        BY <3>1, <4>2
    <3> QED
      BY <2>1, <3>2, <3>3
  <2>4. UNCHANGED <<said, rx>>
    BY <2>1 DEF Accept, Hangup, worldVars
  <2>5. Relayed(d, n)'
    <3>1. \A k \in 1..Len(lines) : lines[k] = n + k
      BY <2>2, <2>3
    <3>2. /\ Relayed(c, n) => Relayed(c, n + Len(lines))'
          /\ \A b : b # c /\ Relayed(b, n) => Relayed(b, n)'
      BY <1>1, <2>3, <3>1, NotedLines
    <3>3. n + Len(lines) = n
      BY <2>2, <2>3
    <3> QED
      BY <1>3, <3>2, <3>3
  <2>6. Unread(d, n)'
    BY <1>3, <2>4 DEF Unread
  <2> QED
    BY <2>5, <2>6
<1>5. CASE \E e \in batch : Income(e)
  <2>1. PICK e \in batch : Income(e)
    BY <1>5
  <2>2. PICK c \in Clients, what \in Whats, lines \in Seq(Nat) :
          /\ Noted(c, clients[e.fd].id, what, lines) /\ lines = rx[c]
          /\ rx' = [rx EXCEPT ![c] = <<>>] /\ UNCHANGED said
    BY <2>1, VisitNotes
  <2>3. PICK id : id = clients[e.fd].id
    OBVIOUS
  <2>4. CASE d = c
    <3>1. (\A k \in 1..Len(lines) : lines[k] = n + k) /\ said[d] = n + Len(lines)
      BY <1>3, <2>2, <2>4 DEF Unread
    <3>2. Relayed(d, n + Len(lines))'
      BY <1>1, <1>3, <2>2, <2>3, <2>4, <3>1, NotedLines
    <3>3. rx'[d] = <<>> /\ said'[d] = n + Len(lines)
      BY <1>1, <2>2, <2>4, <3>1 DEF TypeOK
    <3>4. n + Len(lines) \in Nat
      BY <2>2, LenProperties
    <3>5. Unread(d, n + Len(lines))'
      BY <3>3, <3>4 DEF Unread
    <3> QED
      BY <3>2, <3>4, <3>5
  <2>5. CASE d # c
    <3>1. rx'[d] = rx[d]
      BY <1>1, <2>2, <2>5 DEF TypeOK
    <3>2. Relayed(d, n)'
      <4>1. /\ About(d)' = About(d) /\ About(d) \subseteq 1..Len(log)
            /\ \A i \in 1..Len(log) : log'[i] = log[i]
        BY <2>2, <2>5, NotedAbout DEF Noted
      <4>2. \A i \in About(d) : log'[i] = log[i]
        BY <4>1
      <4> QED
        BY <1>3, <4>1, <4>2, RelayedKept
    <3> QED
      BY <1>3, <2>2, <3>1, <3>2 DEF Unread
  <2> QED
    BY <2>4, <2>5
<1>6. CASE \E c \in Clients : ClientSays(c)
  <2>1. PICK c \in Clients : ClientSays(c)
    BY <1>6
  <2>2. log' = log /\ Relayed(d, n)'
    <3>1. log' = log /\ About(d)' = About(d)
      BY <2>1 DEF ClientSays, About
    <3> QED
      BY <1>3, <3>1, RelayedKept
  <2>3. CASE d = c
    <3>1. /\ said[d] \in Nat /\ rx[d] \in Seq(Nat) /\ Len(rx[d]) \in Nat
          /\ said'[d] = said[d] + 1 /\ rx'[d] = Append(rx[d], said[d] + 1)
      BY <1>1, <2>1, <2>3, LenProperties DEF ClientSays, TypeOK
    <3>2. /\ Len(rx'[d]) = Len(rx[d]) + 1
          /\ \A k \in 1..Len(rx[d]) : rx'[d][k] = rx[d][k]
          /\ rx'[d][Len(rx[d]) + 1] = said[d] + 1
      BY <3>1, AppendProperties
    <3>3. said'[d] = n + Len(rx'[d])
      BY <1>3, <3>1, <3>2 DEF Unread
    <3>4. \A k \in 1..Len(rx'[d]) : rx'[d][k] = n + k
      <4>1. ASSUME NEW k \in 1..Len(rx'[d])
            PROVE  rx'[d][k] = n + k
        <5>1. CASE k \in 1..Len(rx[d])
          BY <1>3, <3>2, <5>1 DEF Unread
        <5>2. CASE k = Len(rx[d]) + 1
          <6>1. said[d] = n + Len(rx[d]) /\ rx'[d][k] = said[d] + 1
            BY <1>3, <3>2, <5>2 DEF Unread
          <6> QED
            BY <3>1, <5>2, <6>1
        <5> QED
          BY <3>1, <3>2, <5>1, <5>2
      <4> QED
        BY <4>1
    <3> QED
      BY <2>2, <3>3, <3>4 DEF Unread
  <2>4. CASE d # c
    <3>1. said'[d] = said[d] /\ rx'[d] = rx[d]
      BY <1>1, <2>1, <2>4 DEF ClientSays, TypeOK
    <3> QED
      BY <1>3, <2>2, <3>1 DEF Unread
  <2> QED
    BY <2>3, <2>4
<1>7. CASE UNCHANGED <<log, said, rx>>
  BY <1>1, <1>3, <1>7, LinesKept
<1> QED
  BY <1>4, <1>5, <1>6, <1>7 DEF Next, Server, Visit, Tell, EpollWait, AcceptFails,
     TellOpen, TellClosed, TellReset, Told, ClientConnect, ClientReads,
     ClientCloses, worldVars, vars

-----------------------------------------------------------------------------
(* What clients hear.                                                      *)

(* FeedIsLog, of client c.                                                 *)
Given(c) == Len(heard[c]) + (IF Owed(c) THEN 1 ELSE 0)

Hears(c) ==
  LET all == Feed(c, Len(log))
  IN  /\ Given(c) <= Cardinality(all)
      /\ far[c] = "open" => Given(c) = Cardinality(all)
      /\ \A i \in all : LET n == Cardinality(Feed(c, i))
                        IN  n <= Len(heard[c]) => heard[c][n] = log[i].notice

AllHear == \A c \in Clients : Hears(c)

(* FeedIsLog in these terms.                                               *)
LEMMA HearsMeaning == FeedIsLog <=> AllHear
BY DEF FeedIsLog, AllHear, Hears, Given

(* What a client has to hear is finite, and can be counted.                *)
LEMMA FeedCount ==
  ASSUME NEW c, NEW i \in Nat
  PROVE  /\ Feed(c, i) \subseteq 1..i /\ IsFiniteSet(Feed(c, i))
         /\ Cardinality(Feed(c, i)) \in Nat
<1>1. Feed(c, i) \subseteq 1..i
  BY DEF Feed
<1>2. IsFiniteSet(1..i)
  BY FS_Interval
<1> QED
  BY <1>1, <1>2, FS_Subset, FS_CardinalityType

(* The place of a notice in what c hears is its own.                       *)
LEMMA FeedStrict ==
  ASSUME NEW c, NEW n \in Nat, n \in Feed(c, n), NEW i \in Feed(c, n),
         Cardinality(Feed(c, i)) = Cardinality(Feed(c, n))
  PROVE  i = n
<1>1. i \in 1..n
  BY DEF Feed
<1>2. Feed(c, i) \subseteq Feed(c, n)
  BY <1>1 DEF Feed
<1>3. Feed(c, i) = Feed(c, n)
  BY <1>2, FeedCount, FS_Subset
<1> QED
  BY <1>1, <1>3 DEF Feed

(* A notice about c is for those who are there, and moves no other.        *)
LEMMA NotedFeed ==
  ASSUME NEW c, NEW id, NEW what, NEW lines, Noted(c, id, what, lines), NEW d,
         NEW n, n = Len(log)
  PROVE  /\ n \in Nat
         /\ \A i \in 0..n : Feed(d, i)' = Feed(d, i)
         /\ Feed(d, n + 1)' = IF d # c /\ About(d) # {} THEN Feed(d, n) \cup {n + 1}
                              ELSE Feed(d, n)
<1>1. n \in Nat
  BY NotedAbout
<1>2. \A i \in 1..n : log'[i] = log[i]
  BY DEF Noted
<1>3. ASSUME NEW i \in 0..n
      PROVE  Feed(d, i)' = Feed(d, i)
  <2>1. \A k \in 1..i : k \in 1..n /\ \A j \in 1..(k - 1) : j \in 1..n
    BY <1>1
  <2> QED
    BY <1>2, <2>1 DEF Feed
<1>4. n + 1 \in Feed(d, n + 1)' <=> d # c /\ About(d) # {}
  <2>1. log'[n + 1].from = c
    BY DEF Noted
  <2>2. (\E j \in 1..(n + 1 - 1) : log'[j].from = d) <=> About(d) # {}
    BY <1>1, <1>2 DEF About
  <2>3. n + 1 \in 1..(n + 1)
    BY <1>1
  <2> QED
    BY <2>1, <2>2, <2>3 DEF Feed
<1>5. \A k \in 1..n : k \in Feed(d, n + 1)' <=> k \in Feed(d, n)
  <2>1. \A k \in 1..n : k \in 1..(n + 1) /\ \A j \in 1..(k - 1) : j \in 1..n
    BY <1>1
  <2> QED
    BY <1>2, <2>1 DEF Feed
<1>6. /\ \A k \in Feed(d, n + 1)' : k \in 1..n \/ k = n + 1
      /\ Feed(d, n) \subseteq 1..n
  BY <1>1 DEF Feed
<1>7. PICK A, B : A = Feed(d, n + 1)' /\ B = Feed(d, n)
  OBVIOUS
<1>8. A = IF d # c /\ About(d) # {} THEN B \cup {n + 1} ELSE B
  <2>1. n + 1 \notin B /\ \A k \in A : k \in B \/ k = n + 1
    BY <1>1, <1>5, <1>6, <1>7
  <2>2. B \subseteq A
    BY <1>5, <1>6, <1>7
  <2>3. n + 1 \in A <=> d # c /\ About(d) # {}
    BY <1>4, <1>7
  <2>4. CASE n + 1 \in A
    <3>1. A = B \cup {n + 1}
      BY <2>1, <2>2, <2>4
    <3> QED
      BY <2>3, <2>4, <3>1
  <2>5. CASE n + 1 \notin A
    <3>1. A = B
      BY <2>1, <2>2, <2>5
    <3> QED
      BY <2>3, <2>5, <3>1
  <2> QED
    BY <2>4, <2>5
<1> QED
  BY <1>1, <1>3, <1>7, <1>8

(* Whoever is told of, or is to be told, has been heard of before.         *)
LEMMA OwedAnnounced ==
  ASSUME PlacesInv, ClientsAnnounced, NEW fd \in ClientFds
  PROVE  About(clients[fd].peer) # {}
BY DEF ClientsAnnounced

(* A handler that begins owes its notice to all that have to hear it.      *)
LEMMA NotedHears ==
  ASSUME TypeOK, NEW c, NEW id, NEW what, NEW lines,
         Noted(c, id, what, lines),
         talk = <<>>, UNCHANGED <<far, heard>>, NEW d \in Clients, Hears(d),
         Owed(d)' => d # c /\ About(d) # {},
         d # c /\ About(d) # {} /\ far[d] = "open" => Owed(d)'
  PROVE  Hears(d)'
<1> DEFINE new == d # c /\ About(d) # {}
<1>0. PICK N : N = Len(log)
  OBVIOUS
<1>1. /\ N \in Nat /\ \A i \in 0..N : Feed(d, i)' = Feed(d, i)
      /\ Feed(d, N + 1)' = IF new THEN Feed(d, N) \cup {N + 1} ELSE Feed(d, N)
      /\ Len(log') = N + 1 /\ \A i \in 1..N : log'[i] = log[i]
  BY <1>0, NotedFeed DEF Noted
<1>2. Feed(d, N) \subseteq 1..N /\ IsFiniteSet(Feed(d, N))
      /\ Cardinality(Feed(d, N)) \in Nat
  BY <1>1, FeedCount
<1>3. PICK h \in Seq(Notice) : h = heard[d] /\ Len(h) \in Nat /\ heard'[d] = h
  BY LenProperties DEF TypeOK
<1>4. Feed(d, Len(log))' = Feed(d, N + 1)'
  BY <1>1 DEF Feed
<1> HIDE DEF new
<1>5. Cardinality(Feed(d, Len(log))') = Cardinality(Feed(d, N)) + (IF new THEN 1 ELSE 0)
  <2>1. N + 1 \notin Feed(d, N)
    BY <1>1, <1>2
  <2>2. Cardinality(Feed(d, N) \cup {N + 1}) = Cardinality(Feed(d, N)) + 1
    BY <1>2, <2>1, FS_AddElement
  <2> QED
    BY <1>1, <1>2, <1>4, <2>2
<1>6. ~Owed(d) /\ Given(d) = Len(h)
  BY <1>3 DEF Owed, Given
<1>7. /\ Len(h) <= Cardinality(Feed(d, N))
      /\ far[d] = "open" => Len(h) = Cardinality(Feed(d, N))
      /\ \A i \in Feed(d, N) : Cardinality(Feed(d, i)) <= Len(h) =>
           h[Cardinality(Feed(d, i))] = log[i].notice
  BY <1>0, <1>3, <1>6 DEF Hears
<1>8. Given(d)' = Len(h) + (IF Owed(d)' THEN 1 ELSE 0)
  BY <1>3 DEF Given
<1>9. (Owed(d)' => new) /\ (new /\ far[d] = "open" => Owed(d)')
  BY DEF new
<1>10. /\ Given(d)' <= Cardinality(Feed(d, Len(log))')
       /\ far'[d] = "open" => Given(d)' = Cardinality(Feed(d, Len(log))')
  <2>1. PICK l \in Nat, a \in Nat : l = Len(h) /\ a = Cardinality(Feed(d, N))
    BY <1>2, <1>3
  <2>2. CASE new
    <3>1. Cardinality(Feed(d, Len(log))') = a + 1
      BY <1>5, <2>1, <2>2
    <3>2. Given(d)' \in {l, l + 1} /\ (far[d] = "open" => Given(d)' = l + 1)
      BY <1>8, <1>9, <2>1, <2>2
    <3>3. l <= a /\ (far[d] = "open" => l = a) /\ far' = far
      BY <1>7, <2>1
    <3> QED
      BY <2>1, <3>1, <3>2, <3>3
  <2>3. CASE ~new
    <3>1. Cardinality(Feed(d, Len(log))') = a /\ Given(d)' = l
      BY <1>5, <1>8, <1>9, <2>1, <2>3
    <3> QED
      BY <1>7, <2>1, <3>1
  <2> QED
    BY <2>2, <2>3
<1>11. ASSUME NEW i \in Feed(d, Len(log))', Cardinality(Feed(d, i)') <= Len(h)
       PROVE  h[Cardinality(Feed(d, i)')] = log'[i].notice
  <2>1. CASE i \in Feed(d, N)
    <3>1. Feed(d, i)' = Feed(d, i) /\ log'[i] = log[i]
      BY <1>1, <1>2, <2>1
    <3> QED
      BY <1>7, <1>11, <2>1, <3>1
  <2>2. CASE i = N + 1 /\ new
    <3>1. Cardinality(Feed(d, i)') = Cardinality(Feed(d, N)) + 1
      <4>1. Feed(d, i)' = Feed(d, N + 1)'
        BY <1>1, <2>2
      <4>2. Feed(d, i)' = Feed(d, Len(log))'
        BY <1>4, <4>1
      <4> QED
        BY <1>5, <2>2, <4>2
    <3> QED
      BY <1>2, <1>3, <1>7, <1>11, <3>1
  <2> QED
    BY <1>1, <1>4, <2>1, <2>2
<1> QED
  BY <1>3, <1>10, <1>11 DEF Hears

(* Accept, Income and Hangup begin to tell everybody else who is there.    *)
LEMMA VisitHears ==
  ASSUME PlacesInv, Ids, NEW e, Accept(e) \/ Income(e) \/ Hangup(e),
         NEW d \in Clients, Hears(d)
  PROVE  Hears(d)'
<1>1. PICK c, id, what, lines :
        /\ Noted(c, id, what, lines)
        /\ talk = <<>> /\ talk' # <<>> /\ talk'[1].todo \subseteq ClientFds
        /\ UNCHANGED <<far, heard>>
        /\ \A g \in ClientFds : clients[g].peer # c => g \in talk'[1].todo
        /\ \A g \in talk'[1].todo : clients'[g] = clients[g] /\ clients[g].peer # c
  <2>1. CASE Accept(e)
    <3>1. PICK id, what, lines : id = id_counter /\ what = "connected" /\ lines = <<>>
      OBVIOUS
    <3>2. \E c \in Clients :
            /\ Noted(c, id, what, lines)
            /\ \A g \in ClientFds : clients'[g] = clients[g] /\ clients[g].peer # c
            /\ talk = <<>> /\ talk' # <<>> /\ talk'[1].todo = ClientFds
            /\ UNCHANGED <<far, heard>>
      BY <2>1, <3>1, AcceptNotes
    <3> QED
      BY <3>2
  <2>2. CASE Income(e) \/ Hangup(e)
    <3>1. PICK id : id = clients[e.fd].id
      OBVIOUS
    <3>2. \E c \in Clients, what \in Whats, lines \in Seq(Nat) :
            /\ Noted(c, id, what, lines)
            /\ c = clients[e.fd].peer
            /\ \A g \in ClientFds \ {e.fd} : clients[g].peer # c
            /\ talk = <<>> /\ talk' # <<>> /\ talk'[1].todo = ClientFds \ {e.fd}
            /\ UNCHANGED <<far, heard, clients>>
      BY <2>2, <3>1, VisitNotes
    <3> QED
      BY <3>2
  <2> QED
    BY <2>1, <2>2
<1>2. Owed(d)' => d # c /\ About(d) # {}
  BY <1>1, OwedAnnounced DEF Owed, Ids
<1>3. ASSUME d # c, About(d) # {}, far[d] = "open"
      PROVE  Owed(d)'
  <2>1. PICK g \in ClientFds : clients[g].peer = d
    BY <1>3 DEF PlacesInv, Places, ClientsPlaced
  <2> QED
    BY <1>1, <1>3, <2>1 DEF Owed
<1> QED
  BY <1>1, <1>2, <1>3, NotedHears DEF PlacesInv

(* What changes nothing of this.                                           *)
LEMMA HearsKept ==
  ASSUME NEW d \in Clients, Hears(d), log' = log, heard'[d] = heard[d],
         Owed(d)' <=> Owed(d), far'[d] = "open" => far[d] = "open"
  PROVE  Hears(d)'
<1>1. \A i : Feed(d, i)' = Feed(d, i)
  BY DEF Feed
<1>2. Given(d)' = Given(d) /\ Feed(d, Len(log))' = Feed(d, Len(log))
  BY <1>1 DEF Given, Feed
<1> QED
  BY <1>1, <1>2 DEF Hears

(* A client that connects has nothing to hear.                             *)
LEMMA ConnectHears ==
  ASSUME PlacesInv, NEW c \in Clients, ClientConnect(c), NEW d \in Clients, Hears(d)
  PROVE  Hears(d)'
<1>1. log' = log /\ heard' = heard /\ clients' = clients /\ talk' = talk
  BY DEF ClientConnect, serverVars
<1>2. Owed(d)' <=> Owed(d)
  BY <1>1 DEF Owed
<1>3. CASE d # c
  <2>1. far'[d] = far[d]
    BY <1>3 DEF ClientConnect, PlacesInv, TypeOK
  <2> QED
    BY <1>1, <1>2, <2>1, HearsKept
<1>4. CASE d = c
  <2>1. About(c) = {}
    BY DEF ClientConnect, PlacesInv, Places, ClientsPlaced
  <2>2. PICK n \in Nat : n = Len(log)
    BY LenProperties DEF PlacesInv, TypeOK
  <2>3. Feed(d, n) = {}
    BY <1>4, <2>1, <2>2 DEF About, Feed
  <2>4. Feed(d, Len(log))' = {} /\ Cardinality({}) = 0
    BY <1>1, <2>2, <2>3, FS_EmptySet DEF Feed
  <2>5. Given(d) \in Nat /\ Given(d)' = Given(d)
    <3>1. Len(heard[d]) \in Nat
      BY LenProperties DEF PlacesInv, TypeOK
    <3>2. CASE Owed(d)
      BY <1>1, <1>2, <3>1, <3>2 DEF Given
    <3>3. CASE ~Owed(d)
      <4>1. Given(d) = Len(heard[d]) + 0 /\ Given(d)' = Len(heard'[d]) + 0
        BY <1>2, <3>3, Zenon DEF Given
      <4> QED
        BY <1>1, <3>1, <4>1
    <3> QED
      BY <3>2, <3>3
  <2>6. Given(d) = 0
    BY <2>2, <2>3, <2>4, <2>5 DEF Hears
  <2> QED
    BY <2>4, <2>5, <2>6 DEF Hears
<1> QED
  BY <1>3, <1>4

(* A write to a client takes the notice from what it is owed.              *)
LEMMA TellingOwed ==
  ASSUME PlacesInv, NEW fd, Telling(fd), clients' = clients
  PROVE  /\ Owed(clients[fd].peer) /\ ~Owed(clients[fd].peer)'
         /\ \A d : d # clients[fd].peer => (Owed(d)' <=> Owed(d))
<1>1. /\ fd \in ClientFds /\ fd \in talk[1].todo /\ talk # <<>> /\ talk' # <<>>
      /\ talk'[1].todo = talk[1].todo \ {fd} /\ talk[1].todo \subseteq ClientFds
  BY TellingEffect, Talks
<1>2. \A g \in ClientFds : clients[g].peer = clients[fd].peer => g = fd
  BY <1>1 DEF PlacesInv, Places, ClientsPlaced
<1>3. PICK c : c = clients[fd].peer
  OBVIOUS
<1>4. Owed(c) /\ ~Owed(c)' /\ \A d : d # c => (Owed(d)' <=> Owed(d))
  BY <1>1, <1>2, <1>3 DEF Owed
<1>5. ~Owed(clients[fd].peer)'
  BY <1>3, <1>4 DEF Owed
<1> QED
  BY <1>3, <1>4, <1>5

(* A write to a client that is there makes its notice the next it hears:   *)
(* the socket blocks until there is room for it.                           *)
LEMMA OpenHears ==
  ASSUME PlacesInv, Ids, NEW fd, TellOpen(fd), NEW d \in Clients, Hears(d)
  PROVE  Hears(d)'
<1>1. Telling(fd) /\ UNCHANGED <<far, clients, log>>
  BY DEF TellOpen, serverVars
<1>2. PICK c \in Clients : c = clients[fd].peer
  BY <1>1, TellingEffect
<1>3. Owed(c) /\ ~Owed(c)' /\ \A b : b # c => (Owed(b)' <=> Owed(b))
  <2>1. /\ Owed(clients[fd].peer) /\ ~Owed(clients[fd].peer)'
        /\ \A b : b # clients[fd].peer => (Owed(b)' <=> Owed(b))
    BY <1>1, TellingOwed
  <2> QED
    BY <1>1, <1>2, <2>1 DEF Owed
<1>4. /\ far[c] = "open"
      /\ heard' = [heard EXCEPT ![c] = Append(heard[c], talk[1].notice)]
  <2>1. ~revert_flag(add_flag(blocking)).nonblock
    BY DEF revert_flag, add_flag, blocking
  <2>2. far[c] = "open" /\ unread[c] < Buffer
    BY <1>2, <2>1 DEF TellOpen
  <2> QED
    BY <1>2, <2>2 DEF TellOpen
<1>5. CASE d # c
  <2>1. heard'[d] = heard[d]
    BY <1>4, <1>5 DEF PlacesInv, TypeOK
  <2> QED
    BY <1>1, <1>3, <1>5, <2>1, HearsKept
<1>6. CASE d = c
  <2>1. PICK N \in Nat, l \in Nat, a \in Nat :
          N = Len(log) /\ l = Len(heard[c]) /\ a = Cardinality(Feed(c, N))
    BY LenProperties, FeedCount DEF PlacesInv, TypeOK
  <2>2. PICK h \in Seq(Notice), notice \in Notice :
          h = heard[c] /\ notice = talk[1].notice
    BY <1>1, Talks, TalkFields DEF Telling, PlacesInv, TypeOK
  <2>3. PICK t : t = Append(h, notice)
    OBVIOUS
  <2>4. heard'[c] = t /\ Len(t) = l + 1 /\ t[l + 1] = notice
        /\ \A m \in 1..l : t[m] = h[m]
    BY <1>4, <2>1, <2>2, <2>3, AppendProperties DEF PlacesInv, TypeOK
  <2>5. l + 1 = a
    BY <1>3, <1>4, <1>6, <2>1 DEF Hears, Given
  <2>6. \A i : Feed(c, i)' = Feed(c, i)
    BY <1>1 DEF Feed
  <2>7. N \in Feed(c, N) /\ log[N].notice = notice
    <3>1. /\ talk # <<>> /\ log # <<>> /\ notice = log[N].notice
          /\ c # log[N].from /\ fd \in ClientFds
      BY <1>1, <1>2, <2>1, <2>2, TellingEffect, Talks
         DEF PlacesInv, Places, BroadcastCurrent
    <3>2. PICK j \in 1..N : log[j].from = c
      BY <1>2, <2>1, <3>1, OwedAnnounced DEF Ids, About
    <3>3. j \in 1..(N - 1) /\ N \in 1..N
      BY <2>1, <3>1, <3>2
    <3> QED
      BY <3>1, <3>2, <3>3 DEF Feed
  <2>8. ASSUME NEW i \in Feed(c, N), Cardinality(Feed(c, i)) <= l + 1
        PROVE  t[Cardinality(Feed(c, i))] = log[i].notice
    <3>1. i \in 1..N /\ i \in Feed(c, i)
      BY <2>1, <2>8 DEF Feed
    <3>2. PICK n \in Nat : n = Cardinality(Feed(c, i)) /\ n # 0
      BY <3>1, FeedCount, FS_EmptySet
    <3>3. CASE n = l + 1
      <4>1. i = N
        BY <2>1, <2>5, <2>7, <2>8, <3>2, <3>3, FeedStrict
      <4> QED
        BY <2>4, <2>7, <3>2, <3>3, <4>1
    <3>4. CASE n <= l
      <4>1. h[n] = log[i].notice
        BY <1>6, <2>1, <2>2, <2>8, <3>2, <3>4 DEF Hears
      <4>2. n \in 1..l
        BY <2>1, <3>2, <3>4
      <4> QED
        BY <2>4, <3>2, <4>1, <4>2
    <3> QED
      BY <2>1, <2>8, <3>2, <3>3, <3>4, SMTT(30)
  <2>9. Given(c)' = l + 1
    BY <1>3, <2>1, <2>4 DEF Given
  <2>10. Feed(c, Len(log))' = Feed(c, N)
    BY <1>1, <2>1 DEF Feed
  <2> QED
    BY <1>1, <1>6, <2>1, <2>4, <2>5, <2>6, <2>8, <2>9, <2>10 DEF Hears
<1> QED
  BY <1>5, <1>6

(* A write to one that has closed is lost.                                 *)
LEMMA ClosedHears ==
  ASSUME PlacesInv, NEW fd, TellClosed(fd), NEW d \in Clients, Hears(d)
  PROVE  Hears(d)'
<1>1. Telling(fd) /\ UNCHANGED <<heard, clients, log>>
  BY DEF TellClosed, serverVars
<1>2. PICK c \in Clients : c = clients[fd].peer
  BY <1>1, TellingEffect
<1>3. Owed(c) /\ ~Owed(c)' /\ \A b : b # c => (Owed(b)' <=> Owed(b))
  <2>1. /\ Owed(clients[fd].peer) /\ ~Owed(clients[fd].peer)'
        /\ \A b : b # clients[fd].peer => (Owed(b)' <=> Owed(b))
    BY <1>1, TellingOwed
  <2> QED
    BY <1>1, <1>2, <2>1 DEF Owed
<1>4. far'[c] # "open" /\ \A b \in Clients : b # c => far'[b] = far[b]
  BY <1>2 DEF TellClosed, PlacesInv, TypeOK
<1>5. CASE d # c
  BY <1>1, <1>3, <1>4, <1>5, HearsKept
<1>6. CASE d = c
  <2>1. PICK l \in Nat, a \in Nat :
          l = Len(heard[c]) /\ a = Cardinality(Feed(c, Len(log)))
    BY LenProperties, FeedCount DEF PlacesInv, TypeOK
  <2>2. l + 1 <= a
    BY <1>3, <1>6, <2>1 DEF Hears, Given
  <2>3. Given(c)' = l
    BY <1>1, <1>3, <2>1 DEF Given
  <2>4. Feed(c, Len(log))' = Feed(c, Len(log)) /\ \A i : Feed(c, i)' = Feed(c, i)
    BY <1>1 DEF Feed
  <2> QED
    BY <1>1, <1>4, <1>6, <2>1, <2>2, <2>3, <2>4 DEF Hears
<1> QED
  BY <1>5, <1>6

(* FeedIsLog is kept: each notice is owed, then heard or lost.             *)
LEMMA NextHears ==
  ASSUME PlacesInv, Ids, FeedIsLog, [Next]_vars
  PROVE  FeedIsLog'
<1>1. SUFFICES ASSUME NEW d \in Clients, Hears(d)
               PROVE  Hears(d)'
  <2>1. FeedIsLog' <=> AllHear'
    BY HearsMeaning, PTL
  <2> QED
    BY <2>1, HearsMeaning DEF AllHear
<1>2. CASE UNCHANGED <<log, heard, talk, clients, far>>
  BY <1>1, <1>2, HearsKept DEF Owed
<1>3. ASSUME NEW c \in Clients, ClientCloses(c)
      PROVE  Hears(d)'
  <2>1. /\ UNCHANGED <<log, heard, talk, clients>>
        /\ far'[d] = "open" => far[d] = "open"
    BY <1>3 DEF ClientCloses, serverVars, PlacesInv, TypeOK
  <2> QED
    BY <1>1, <2>1, HearsKept DEF Owed
<1>4. CASE Told
  <2>1. UNCHANGED <<log, heard, far>> /\ talk' = <<>> /\ talk[1].todo = {}
    BY <1>4 DEF Told, Proceed, worldVars
  <2> QED
    BY <1>1, <2>1, HearsKept DEF Owed
<1> QED
  BY <1>1, <1>2, <1>3, <1>4, VisitHears, ConnectHears, OpenHears, ClosedHears
     DEF Next, Server, Visit, Tell, EpollWait, AcceptFails, TellReset,
         ClientSays, ClientReads, worldVars, serverVars, vars

-----------------------------------------------------------------------------
(* Ids are kept apart by every step.                                       *)
LEMMA NextIds ==
  ASSUME PlacesInv, Ids, [Next]_vars
  PROVE  Ids'
<1>1. CASE Quiet
  BY <1>1, QuietIds
<1> QED
  BY <1>1, AcceptIds, VisitIds, ToldIds, QuietSteps
     DEF Next, Server, Visit, Tell

(* LivesInOrder is kept by every step.                                     *)
LEMMA NextLives ==
  ASSUME PlacesInv, Ids, LivesInOrder, [Next]_vars
  PROVE  LivesInOrder'
<1>1. CASE Quiet
  BY <1>1, QuietLives
<1> QED
  BY <1>1, AcceptLives, VisitLives, ToldLives, QuietSteps
     DEF Next, Server, Visit, Tell, Ids

(* In the beginning nothing has been told.                                 *)
LEMMA InitChat ==
  ASSUME Init
  PROVE  ChatInv
<1>1. log = <<>> /\ Len(log) = 0 /\ Known = {} /\ ClientFds = {} /\ talk = <<>>
      /\ \A c : About(c) = {} /\ Feed(c, 0) = {}
  <2>1. log = <<>> /\ talk = <<>> /\ ClientFds = {}
    BY DEF Init, ClientFds
  <2>2. Len(log) = 0
    BY <2>1
  <2> QED
    BY <2>1, <2>2 DEF Known, About, Feed
<1>2. IdsDistinct /\ ClientsAnnounced /\ LivesInOrder
  BY <1>1 DEF IdsDistinct, ClientsAnnounced, LivesInOrder
<1>3. IdsCounted
  <2>1. Cardinality(Known) = 0
    BY <1>1, FS_EmptySet
  <2>2. id_counter = IdOf(0)
    BY DEF Init, IdOf
  <2> QED
    BY <1>1, <2>1, <2>2 DEF IdsCounted
<1>4. LinesIntact
  <2>1. \A c \in Clients : said[c] = 0 /\ rx[c] = <<>> /\ Len(rx[c]) = 0
    BY DEF Init
  <2> QED
    BY <1>1, <2>1 DEF LinesIntact
<1>5. FeedIsLog
  <2>1. \A c \in Clients : ~Owed(c) /\ Len(heard[c]) = 0
    BY <1>1 DEF Init, Owed
  <2>2. \A c \in Clients : Feed(c, Len(log)) = {} /\ Cardinality({}) = 0
    BY <1>1, FS_EmptySet
  <2>3. \A c \in Clients : Given(c) = 0
    <3>1. \A c \in Clients : Given(c) = Len(heard[c]) + 0
      BY <2>1, Zenon DEF Given
    <3> QED
      BY <2>1, <3>1
  <2>4. ASSUME NEW c \in Clients
        PROVE  Hears(c)
    <3>1. Given(c) = 0 /\ Cardinality(Feed(c, Len(log))) = 0
          /\ \A i \in Feed(c, Len(log)) : FALSE
      BY <2>2, <2>3
    <3> QED
      BY <3>1 DEF Hears
  <2> QED
    BY <2>4, HearsMeaning DEF AllHear
<1> QED
  BY <1>2, <1>3, <1>4, <1>5, InitPlaces DEF ChatInv, LogIsTruth

(* ChatInv is inductive.                                                   *)
LEMMA NextChat == ChatInv /\ [Next]_vars => ChatInv'
<1> SUFFICES ASSUME ChatInv, [Next]_vars PROVE ChatInv'
  OBVIOUS
<1>1. PlacesInv /\ Ids /\ LivesInOrder /\ LinesIntact /\ FeedIsLog
  BY DEF ChatInv, Ids, LogIsTruth
<1>2. PlacesInv' /\ Ids' /\ LivesInOrder' /\ LinesIntact' /\ FeedIsLog'
  BY <1>1, NextPlaces, NextIds, NextLives, NextLines, NextHears
<1> QED
  BY <1>2 DEF ChatInv, Ids, LogIsTruth

(* The whole invariant of the chat server: besides its tables, what it has *)
(* told, to whom, and under which ids.                                     *)
THEOREM ChatInvHolds == Spec => []ChatInv
<1>1. Init => ChatInv
  BY InitChat
<1> QED
  BY <1>1, NextChat, PTL DEF Spec

(* What it tells is true: an id is one client, a client connects, speaks   *)
(* and leaves in this order, and its lines are repeated as it sent them.   *)
THEOREM LogIsTruthHolds == Spec => []LogIsTruth
<1>1. ChatInv => LogIsTruth
  BY DEF ChatInv
<1> QED
  BY <1>1, ChatInvHolds, PTL

(* All clients hear the same notices in the same order.                    *)
THEOREM FeedIsLogHolds == Spec => []FeedIsLog
<1>1. ChatInv => FeedIsLog
  BY DEF ChatInv
<1> QED
  BY <1>1, ChatInvHolds, PTL
=============================================================================
