------------------------------ MODULE Exchange -------------------------------
(***************************************************************************)
(* A client, the proxy and an origin server, with the text of what they    *)
(* say: http_server's on_data_income and the data handler of query, with   *)
(* the parsers, commit() and tcp_socket::send they call.  TCP delivers the *)
(* text in pieces of any size.  The client sends one request after the     *)
(* other over one connection and one bridge; which bridge, and how         *)
(* connections come and go, is the subject of Proxy.                       *)
(***************************************************************************)
EXTENDS HttpRequest, HttpResponse, TcpSocket

CONSTANTS Requests,  \* what the client may ask: [title, headers, body]
          Responses, \* what the origin may answer: [title, headers, parts]
          Version,   \* the version that the origin writes into status lines
          Cuts,      \* where a read may end that the parsers do not bear
          Room       \* so much of a text fits into a socket's buffer

(* A read that ends in the status line is in no instance: stoi throws, or  *)
(* the rest is parsed as another response, of which nothing can be said.   *)
AllCuts == {"request title", "last chunk"}

ASSUME ExchangeAssumption == Room \in Nat /\ Cuts \subseteq AllCuts

(* Header lines as the parsers take them apart: no two of the same name,   *)
(* and the length, if there is one, that of the body.                      *)
Headings(headers, length) ==
  /\ headers \in Seq(Line)
  /\ \A i, j \in 1..Len(headers) : headers[i][1][1] = headers[j][1][1] => i = j
  /\ \A i \in 1..Len(headers) :
       headers[i][1][1] = "Content-Length" => headers[i][1][2] = length

Names(headers) == {headers[i][1][1] : i \in 1..Len(headers)}

(* A request has a body only with a Content-Length, as the HTTP methods of *)
(* browsers do, and a version of more than one letter.                     *)
ASSUME RequestsAssumption ==
  \A q \in Requests :
    /\ q \in [title : Word \X Word \X Word, headers : Seq(Line), body : Text]
    /\ Len(q.title[3]) > 1
    /\ Headings(q.headers, Len(q.body))
    /\ "Transfer-Encoding" \notin Names(q.headers)
    /\ "Content-Length" \in Names(q.headers) \/ q.body = <<>>

(* A response has its body in chunks, or with a Content-Length, or none.   *)
ASSUME ResponsesAssumption ==
  /\ Version \in Word
  /\ \A a \in Responses :
       /\ a \in [title : Nat \X (Line \cup {<<>>}),
                headers : Seq(Line), parts : Seq(Text)]
       /\ \A i \in 1..Len(a.parts) : a.parts[i] # <<>>
       /\ Headings(a.headers, Len(FlattenSeq(a.parts)))
       /\ "Transfer-Encoding" \in Names(a.headers)
            => /\ <<Chunked>> \in ToSet(a.headers)
               /\ "Content-Length" \notin Names(a.headers)
       /\ \/ Names(a.headers) \cap {"Transfer-Encoding", "Content-Length"} # {}
          \/ a.parts = <<>>

VARIABLES upstream,   \* text of the client that the proxy has not read yet
          request,    \* http_server::request_map[fd]
          client,     \* the proxy's socket of the client's connection
          bridge,     \* the proxy's socket of the bridge
          downstream, \* text of the origin that the proxy has not read yet
          response,   \* query's *response
          pc,         \* is the process running, or how did it end
          \* The exchange under way: sequences that are empty or, if all is
          \* well, have one element.
          asked,      \* the request of the client
          torn,       \* where, of AllCuts, reads of it have ended
          served,     \* of what was to be written to the origin, what was
                      \* (wire), which it receives, and what was not (lost)
          answered,   \* the response of the origin
          got         \* the text that the client has received

proxyVars == <<request, client, bridge, response, pc>>
vars == <<upstream, downstream, proxyVars, asked, torn, served, answered, got>>

-----------------------------------------------------------------------------
(* The text of a message.                                                  *)

RequestText(q) == HeadText(RequestLine(q), q.headers) \o q.body

StatusLine(a) == Version \o <<SP, Num(a.title[1]), SP>> \o a.title[2]
InChunks(a) == <<Chunked>> \in ToSet(a.headers)

ResponseText(a) ==
  HeadText(StatusLine(a), a.headers) \o
  IF InChunks(a)
  THEN FlattenSeq([i \in 1..Len(a.parts) |-> Chunk(a.parts[i])]) \o LastChunk
  ELSE FlattenSeq(a.parts)

(* What its receiver makes of a text: the first line, the header lines, as *)
(* the parsers above take them, whether the head has come to its end, and  *)
(* what follows.                                                           *)
Received(text) ==
  LET end == Find(text, CRLF)
      m   == Headers[[NewMessage EXCEPT !.title_parsed = TRUE,
                                        !.unparsed = From(text, end + 2)]]
  IN  [line |-> Upto(text, end), headers |-> m.headers,
       head |-> end # -1 /\ m.headers_parsed, payload |-> m.unparsed]

Reading == [body : Text, rest : Text, whole : BOOLEAN]

(* What that means: the body, what follows it, and whether all of it has   *)
(* come.  Chunks are read up to the first of size 0 and the empty line     *)
(* after it.                                                               *)
DechunkStep(r) ==
  LET size == r.rest[1][2]
  IN  IF r.whole \/ Find(r.rest, CRLF) # 1 \/ Len(r.rest) < size + 5 THEN r
      ELSE [body |-> r.body \o SubSeq(r.rest, 4, size + 3),
            rest |-> From(r.rest, size + 5), whole |-> size = 0]

Dechunk[r \in Reading] ==
  IF DechunkStep(r) = r THEN r ELSE Dechunk[DechunkStep(r)]

Meaning(m) ==
  LET n == IF Has(m, "Content-Length") THEN Header(m, "Content-Length") ELSE 0
  IN  IF m.head /\ <<Chunked>> \in m.headers
      THEN Dechunk[[body |-> <<>>, rest |-> m.payload, whole |-> FALSE]]
      ELSE IF m.head /\ n <= Len(m.payload)
      THEN [body |-> SubSeq(m.payload, 1, n), rest |-> From(m.payload, n), whole |-> TRUE]
      ELSE [body |-> <<>>, rest |-> m.payload, whole |-> FALSE]

(* Clients and servers overlook an empty line before a message.            *)
Clean(m) == Meaning(m).whole /\ Meaning(m).rest \in {<<>>, CRLF}

-----------------------------------------------------------------------------
Init ==
  /\ upstream = <<>> /\ downstream = <<>>
  /\ request = NewMessage /\ response = NewMessage
  /\ client = add_flag(blocking) /\ bridge = blocking
  /\ pc = "running"
  /\ asked = <<>> /\ torn = {}
  /\ served = <<>> /\ answered = <<>> /\ got = <<>>

(* The client asks when it has understood the answer to its last request:  *)
(* a new exchange begins.                                                  *)
ClientAsk(q) ==
  /\ asked = <<>> \/ got # <<>>
  /\ \A i \in 1..Len(got) : Clean(Received(got[i]))
  /\ asked' = <<q>> /\ torn' = {}
  /\ served' = <<>> /\ answered' = <<>> /\ got' = <<>>
  /\ upstream' = RequestText(q)
  /\ UNCHANGED <<downstream, proxyVars>>

(* An origin answers a request when all of it has come.                    *)
OriginAnswers(a) ==
  /\ served # <<>> /\ answered = <<>>
  /\ Meaning(Received(served[1].wire)).whole
  /\ answered' = <<a>>
  /\ downstream' = ResponseText(a)
  /\ UNCHANGED <<upstream, proxyVars, asked, torn, served, got>>

-----------------------------------------------------------------------------
(* http_server's on_data_income: recieve() gives the first n symbols that  *)
(* have not been read, and m is the request with them appended.            *)

(* With `left` symbols unread the reading has stopped in the request line. *)
RequestTears(left) ==
  IF Len(RequestText(asked[1])) - left < Len(RequestLine(asked[1])) + 2
  THEN {"request title"} ELSE {}

ReadRequest(n) ==
  /\ pc = "running"
  /\ upstream' = From(upstream, n)
  /\ RequestTears(Len(upstream) - n) \subseteq Cuts
  /\ torn' = torn \cup RequestTears(Len(upstream) - n)
  /\ UNCHANGED <<downstream, client, response, asked, answered, got>>

(* Nobody catches what parse() throws.                                     *)
RequestThrows(m) ==
  /\ m.threw
  /\ pc' = "parse_threw"
  /\ UNCHANGED <<request, bridge, served>>

RequestPart(m) ==
  /\ ~m.threw /\ ~is_complete(m)
  /\ request' = m
  /\ UNCHANGED <<bridge, pc, served>>

(* Mutant of RequestDone: request_map keeps the request.                   *)
RequestKept(m) ==
  /\ ~m.threw /\ is_complete(m)
  /\ request' = m
  /\ bridge' = sent(bridge)
  /\ \E wire \in send(bridge, CommitRequest(m), Room) :
       served' = Append(served, [wire |-> wire, lost |-> From(CommitRequest(m), Len(wire))])
  /\ UNCHANGED pc

(* on_request, query and send_request: what one write() takes of the text, *)
(* head or body, reaches the origin, and request_map forgets the request.  *)
RequestDone(m) ==
  /\ ~m.threw /\ is_complete(m)
  /\ request' = NewMessage
  /\ bridge' = sent(bridge)
  /\ \E wire \in send(bridge, CommitRequest(m), Room) :
       served' = Append(served, [wire |-> wire, lost |-> From(CommitRequest(m), Len(wire))])
  /\ UNCHANGED pc

ReadsClient ==
  \E n \in 1..Len(upstream) :
    /\ ReadRequest(n)
    /\ \E m \in {AppendRequest(request, Upto(upstream, n))} :
         RequestThrows(m) \/ RequestPart(m) \/ RequestDone(m)

-----------------------------------------------------------------------------
(* The data handler that query registers for the bridge.                   *)

ResponseTears(left) ==
  (IF Len(ResponseText(answered[1])) - left < Len(StatusLine(answered[1])) + 2
   THEN {"status line"} ELSE {})
  \cup (IF InChunks(answered[1]) /\ left \in 1..(Len(LastChunk) - 1)
        THEN {"last chunk"} ELSE {})

ReadResponse(n) ==
  /\ pc = "running"
  /\ downstream' = From(downstream, n)
  /\ ResponseTears(Len(downstream) - n) \subseteq Cuts
  /\ torn' = torn \cup ResponseTears(Len(downstream) - n)
  /\ UNCHANGED <<upstream, request, bridge, pc, asked, served, answered>>

(* The handler catches the exception and begins a new response.            *)
ResponseThrows(m) ==
  /\ m.threw
  /\ response' = NewMessage
  /\ UNCHANGED <<client, got>>

ResponsePart(m) ==
  /\ ~m.threw /\ ~is_complete(m)
  /\ response' = m
  /\ UNCHANGED <<client, got>>

(* send_response: what is written of it reaches the client.                *)
ResponseDone(m) ==
  /\ ~m.threw /\ is_complete(m)
  /\ response' = NewMessage
  /\ client' = sent(client)
  /\ \E text \in send(client, CommitResponse(m), Room) : got' = Append(got, text)

ReadsOrigin ==
  \E n \in 1..Len(downstream) :
    /\ ReadResponse(n)
    /\ \E m \in {AppendResponse(response, Upto(downstream, n))} :
         ResponseThrows(m) \/ ResponsePart(m) \/ ResponseDone(m)

-----------------------------------------------------------------------------
Ask == \E q \in Requests : ClientAsk(q)
Answer == \E a \in Responses : OriginAnswers(a)

Next == Ask \/ Answer \/ ReadsClient \/ ReadsOrigin

Spec == Init /\ [][Next]_vars

(* The process is scheduled and the network delivers; the origin answers.  *)
(* The client need not ask, but it reads: the write of a response waits    *)
(* until it has.                                                           *)
FairSpec == Spec /\ WF_vars(ReadsClient \/ ReadsOrigin) /\ WF_vars(Answer)

-----------------------------------------------------------------------------
TypeOK ==
  /\ upstream \in Text    /\ downstream \in Text
  /\ request  \in Message /\ response \in Message
  /\ client   \in [nonblock : BOOLEAN]
  /\ bridge   \in [nonblock : BOOLEAN]
  /\ pc       \in {"running", "parse_threw"}
  /\ asked    \in Seq(Requests) /\ answered \in Seq(Responses)
  /\ torn     \subseteq Cuts
  /\ served   \in Seq([wire : Text, lost : Text])
  /\ got      \in Seq(Text)

(* A text has all the headers of a request, its body and nothing else.     *)
Conveys(text, q) ==
  /\ ToSet(q.headers) \subseteq Received(text).headers
  /\ Clean(Received(text)) /\ Meaning(Received(text)).body = q.body

(* However TCP cuts the requests up, each is written to the origin once,   *)
(* with all its headers and its body, and the origin receives it, but for  *)
(* the end of one that is longer than the buffer of the bridge, which      *)
(* send() has made non-blocking.  A read that ends in the request line can *)
(* spoil that line and make another header of its rest, but the request is *)
(* still routed by its Host; and only such a read makes the parser throw.  *)
RequestIntact ==
  /\ Len(served) <= Len(asked)
  /\ \A i \in 1..Len(served) :
       LET text == served[i].wire \o served[i].lost
       IN  /\ Conveys(text, asked[i])
           /\ served[i].lost # <<>> => Len(served[i].wire) >= Room
           /\ "request title" \notin torn
                => /\ Received(text).line = RequestLine(asked[i])
                   /\ Received(text).headers = ToSet(asked[i].headers)
  /\ pc = "parse_threw" => "request title" \in torn

(* However TCP cuts the responses up, except in the status line, and       *)
(* however the origin divides a body into chunks, what the client receives *)
(* is a response it has been sent, once, with its code, its reason, its    *)
(* headers and its whole body: the proxy waits until all of it is written. *)
ResponseIntact ==
  /\ Len(got) <= Len(answered)
  /\ \A i \in 1..Len(got) :
       LET r == Received(got[i])
       IN  /\ r.line = OwnLine(answered[i])
           /\ r.headers = ToSet(answered[i].headers)
           /\ Meaning(r).whole
           /\ Meaning(r).body = FlattenSeq(answered[i].parts)

(* Nothing is left of the text of a message that has been handed on, in    *)
(* the socket or in the parser, so that the bytes of one exchange never    *)
(* count for the next.                                                     *)
NothingCarriedOver ==
  /\ served # <<>> => upstream = <<>> /\ request = NewMessage
  /\ got # <<>> => downstream = <<>> /\ response = NewMessage

(* The client gets an answer to its request, unless the parser threw at a  *)
(* torn request line, which ends the process, or at a torn last chunk, or  *)
(* the end of the request was lost in the write to the bridge.             *)
Answered ==
  asked # <<>> /\ got = <<>>
    ~> \/ got # <<>>
       \/ pc = "parse_threw" \/ "last chunk" \in torn
       \/ \E i \in 1..Len(served) : served[i].lost # <<>>
=============================================================================
