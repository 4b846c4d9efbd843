------------------------------ MODULE TcpSocket ------------------------------
(***************************************************************************)
(* The O_NONBLOCK flag of a tcp_socket (src/tcp_socket.cpp) and what a     *)
(* write() does under it.  A socket is the value of its flag, and its      *)
(* operations are operators on it.                                         *)
(***************************************************************************)
EXTENDS Naturals, Sequences

(* socket() and accept() make a blocking socket; tcp_server adds the flag  *)
(* to those it accepts, and nobody adds it to those that connect.          *)
blocking == [nonblock |-> FALSE]
add_flag(s) == [s EXCEPT !.nonblock = TRUE]

(* Mutant of revert_flag: the flag is set, not toggled.                    *)
set_flag(s) == [s EXCEPT !.nonblock = TRUE]

(* flags ^= flag.                                                          *)
revert_flag(s) == [s EXCEPT !.nonblock = ~@]

(* How much of data one write() takes when at least `room` of it fits into *)
(* the buffer: a blocking one waits until all of it does.  One that takes  *)
(* nothing has returned -1, for send() does no more about that.            *)
write(s, data, room) ==
  IF s.nonblock
  THEN {SubSeq(data, 1, n) : n \in {k \in 0..Len(data) : k >= room \/ k = Len(data)}}
  ELSE {data}

(* send(): the flag is toggled, write() called once, its result logged and *)
(* the flag toggled back.  What was written, and the socket after it.      *)
send(s, data, room) == write(revert_flag(s), data, room)
sent(s) == revert_flag(revert_flag(s))
=============================================================================
