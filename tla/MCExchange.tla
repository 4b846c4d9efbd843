----------------------------- MODULE MCExchange ------------------------------
(***************************************************************************)
(* Small instances of the exchange.                                        *)
(***************************************************************************)
EXTENDS ExchangeClaims

MCVersion == <<Byte(8), Byte(9)>>

Asking(headers, body) ==
  [title |-> <<<<Byte(1)>>, <<Byte(2)>>, MCVersion>>,
   headers |-> headers, body |-> body]

(* As commit() writes them they are 15, 20 and 24 symbols long, of which   *)
(* 13, 16 and 19 are the head.                                             *)
MCRequests ==
  {Asking(<<<<Host(1)>>>>, <<>>),
   Asking(<<<<Host(1)>>, <<ContentLength(2)>>>>, <<Byte(1), CR>>),
   Asking(<<<<ContentLength(3)>>, <<Host(2)>>, <<Byte(7)>>>>, <<CR, LF, Byte(1)>>)}

Answering(headers, parts) ==
  [title |-> <<200, <<Byte(3), Byte(4)>>>>, headers |-> headers, parts |-> parts]

LengthAnswers ==
  {Answering(<<<<ContentLength(0)>>>>, <<>>),
   Answering(<<<<ContentLength(3)>>>>, <<<<Byte(1), CR, LF>>>>),
   Answering(<<>>, <<>>)}

ChunkedAnswers(parts) == {Answering(<<<<Chunked>>>>, p) : p \in parts}

(* Bodies that are, and are not, a multiple of ChunkSize = 2 long.         *)
OddParts == {<<<<Byte(1)>>>>,
             <<<<CR, LF>>, <<Byte(1)>>>>,
             <<<<Byte(1)>>, <<Byte(2), CR, LF, Byte(3)>>>>}
EvenParts == {<<>>, <<<<Byte(1), Byte(2)>>>>}

OddAnswers == ChunkedAnswers(OddParts)
EvenAnswers == ChunkedAnswers(EvenParts \ {<<>>})
MCResponses == LengthAnswers \cup ChunkedAnswers(OddParts \cup EvenParts)
=============================================================================
