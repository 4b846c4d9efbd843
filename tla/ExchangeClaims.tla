--------------------------- MODULE ExchangeClaims ----------------------------
(***************************************************************************)
(* What comments and the README say of chunked responses, and runs refute. *)
(***************************************************************************)
EXTENDS Exchange

(* http_response.cpp:105 and :120, "chunk hasn't arrived yet" and "chunk   *)
(* is not here yet": what has arrived of a chunk is kept until the rest of *)
(* it comes.                                                               *)
ChunkAwaited ==
  [][response.headers_parsed /\ response' = NewMessage => got' # got]_vars

(* README.md:10, "Proxy supports chunked, HTTP/1.1, keep-alive": a response *)
(* in chunks leaves the client at the beginning of the next one.           *)
ChunkedSupported == \A i \in 1..Len(got) : Clean(Received(got[i]))
=============================================================================
