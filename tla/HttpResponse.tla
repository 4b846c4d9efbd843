---------------------------- MODULE HttpResponse -----------------------------
(***************************************************************************)
(* http_response (src/http_response.cpp): parse() and commit(), with the   *)
(* decoder and the encoder of chunked bodies.                              *)
(***************************************************************************)
EXTENDS HttpMessage

CONSTANT ChunkSize \* chunk_size of commit()

ASSUME ChunkSizeAssumption == ChunkSize \in Nat \ {0}

(* What stands before the first space is dropped, the code ends at the     *)
(* next space and the reason at the line end.                              *)
ResponseTitle[m \in Message] ==
  LET rest   == From(m.unparsed, Find(m.unparsed, <<SP>>) + 1)
      code   == Find(rest, <<SP>>)
      last   == From(rest, code + 1)
      reason == Find(last, CRLF)
  IN  IF m.title_parsed THEN m
      ELSE IF ~Numeric(Upto(rest, code)) \/ reason + 2 > Len(last) THEN Threw(m)
      ELSE [m EXCEPT !.title = <<Value(Upto(rest, code)), Upto(last, reason)>>,
                     !.unparsed = From(last, reason + 2),
                     !.title_parsed = TRUE]

(* One turn of the loop over chunks: one that is not here yet waits, the   *)
(* one of size 0 is the last, and is taken to be here with its line ends.  *)
ChunkStep(m) ==
  LET line == Find(m.unparsed, CRLF)
      size == Value(Upto(m.unparsed, line))
      temp == From(m.unparsed, line + 2)
  IN  IF m.threw \/ m.body_parsed \/ m.unparsed = <<>> THEN m
      ELSE IF ~Numeric(Upto(m.unparsed, line)) THEN Threw(m)
      ELSE IF size = 0
      THEN IF line + 4 > Len(m.unparsed) THEN Threw(m)
           ELSE [m EXCEPT !.unparsed = From(@, line + 4), !.body_parsed = TRUE]
      ELSE IF Len(temp) < size + 2 THEN m
      ELSE [m EXCEPT !.body = @ \o Upto(temp, size),
                     !.unparsed = From(temp, size + 2)]

Chunks[m \in Message] == IF ChunkStep(m) = m THEN m ELSE Chunks[ChunkStep(m)]

(* Without Content-Length and without chunks the response has no body.     *)
ResponseBody[m \in Message] ==
  IF ~m.headers_parsed \/ m.body_parsed THEN m
  ELSE IF Has(m, "Content-Length") THEN LengthBody(m)
  ELSE IF Has(m, "Transfer-Encoding") THEN Chunks[m]
  ELSE [m EXCEPT !.body_parsed = TRUE]

AppendResponse(m, data) ==
  ResponseBody[Headers[ResponseTitle[[m EXCEPT !.unparsed = @ \o data]]]]

-----------------------------------------------------------------------------
HTTP_VERSION == <<Byte(11)>> \* "HTTP/1.1", whose letters nobody tells apart

(* int_to_hex writes "0x" and leading zeros; whoever reads the size is     *)
(* taken to read it as the parser above does, with stoul.                  *)
Chunk(data) == <<Num(Len(data))>> \o CRLF \o data \o CRLF
LastChunk == <<Num(0)>> \o CRLF \o CRLF

(* Mutant of EncodeChunks: the loop does one chunk too few.                *)
EncodeFewerChunks(body) ==
  LET full == Len(body) \div ChunkSize
  IN  FlattenSeq([i \in 1..(full - 1) |->
                    Chunk(SubSeq(body, ChunkSize * (i - 1) + 1, ChunkSize * i))])
      \o Chunk(SubSeq(body, ChunkSize * full + 1, Len(body))) \o LastChunk

(* Chunks of ChunkSize, then one of what is left, which may be nothing,    *)
(* then the last one.                                                      *)
EncodeChunks(body) ==
  LET full == Len(body) \div ChunkSize
  IN  FlattenSeq([i \in 1..full |->
                    Chunk(SubSeq(body, ChunkSize * (i - 1) + 1, ChunkSize * i))])
      \o Chunk(SubSeq(body, ChunkSize * full + 1, Len(body))) \o LastChunk

(* Mutant of OwnLine: the code is appended as a character of that number.  *)
OwnLineChar(m) == HTTP_VERSION \o <<SP, <<"char", m.title[1]>>, SP>> \o m.title[2]

(* The status line has the version of the proxy, whatever the origin's is. *)
OwnLine(m) == HTTP_VERSION \o <<SP, Num(m.title[1]), SP>> \o m.title[2]

(* commit(): like a request's, but the body is put into chunks again.      *)
CommitResponse(m) ==
  MapText(OwnLine(m), m.headers) \o
  IF Has(m, "Transfer-Encoding") THEN EncodeChunks(m.body) ELSE m.body \o CRLF
=============================================================================
