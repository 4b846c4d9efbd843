----------------------------- MODULE HttpMessage -----------------------------
(***************************************************************************)
(* What http_request and http_response (src/http.h) have in common: the    *)
(* state of a parser, and the loop over the header lines.  A parser is a   *)
(* record:                                                                 *)
(*   unparsed        what was appended and not consumed yet                *)
(*   title           the parts of the first line                           *)
(*   headers         the map, as the set of its lines (no two of the same  *)
(*                   name: of such lines a request would keep the last and *)
(*                   a response the first)                                 *)
(*   body                                                                  *)
(*   title_parsed, headers_parsed, body_parsed                             *)
(*   threw           parse() ended in an exception                         *)
(***************************************************************************)
EXTENDS HttpText

(* method, url and version of a request; code and reason of a response.    *)
RequestTitles  == {<<>>} \cup (Text \X Text \X Text)
ResponseTitles == {<<>>} \cup (Nat \X Text)

Message == [unparsed : Text, title : RequestTitles \cup ResponseTitles,
            headers : SUBSET Text, body : Text, title_parsed : BOOLEAN,
            headers_parsed : BOOLEAN, body_parsed : BOOLEAN, threw : BOOLEAN]

NewMessage == [unparsed |-> <<>>, title |-> <<>>, headers |-> {}, body |-> <<>>,
               title_parsed |-> FALSE, headers_parsed |-> FALSE,
               body_parsed |-> FALSE, threw |-> FALSE]

Threw(m) == [m EXCEPT !.threw = TRUE]

is_complete(m) == m.title_parsed /\ m.headers_parsed /\ m.body_parsed

(* headers.find(name) and the number in it.                                *)
Has(m, name) == \E line \in m.headers : line # <<>> /\ line[1][1] = name
Header(m, name) ==
  (CHOOSE line \in m.headers : line # <<>> /\ line[1][1] = name)[1][2]

(* Mutant of HeaderStep: when there is no whole line, what there is of one *)
(* is forgotten.                                                           *)
HeaderStepForgets(m) ==
  LET next == Find(m.unparsed, CRLF)
  IN  IF m.headers_parsed THEN m
      ELSE IF next = -1 THEN [m EXCEPT !.unparsed = <<>>]
      ELSE IF next = 0
      THEN [m EXCEPT !.headers_parsed = TRUE, !.unparsed = From(@, 2)]
      ELSE [m EXCEPT !.headers = @ \cup {Upto(m.unparsed, next)},
                     !.unparsed = From(@, next + 2)]

(* One turn of the loop: an empty line ends the headers, a line that is    *)
(* not whole waits for more, any other is a header.                        *)
HeaderStep(m) ==
  LET next == Find(m.unparsed, CRLF)
  IN  IF m.headers_parsed \/ next = -1 THEN m
      ELSE IF next = 0
      THEN [m EXCEPT !.headers_parsed = TRUE, !.unparsed = From(@, 2)]
      ELSE [m EXCEPT !.headers = @ \cup {Upto(m.unparsed, next)},
                     !.unparsed = From(@, next + 2)]

(* The loop, until a turn changes nothing.                                 *)
Headers[m \in Message] ==
  IF m.threw \/ HeaderStep(m) = m THEN m ELSE Headers[HeaderStep(m)]

(* Mutant of LengthBody: only the text that came last is counted.          *)
LengthBodyLast(m) ==
  LET body == m.body \o m.unparsed
  IN  [m EXCEPT !.body = body, !.unparsed = <<>>,
                !.body_parsed = Len(m.unparsed) = Header(m, "Content-Length")]

(* The body is whatever has arrived; it is whole when its length is the    *)
(* number in Content-Length, neither less nor more.                        *)
LengthBody(m) ==
  LET body == m.body \o m.unparsed
  IN  [m EXCEPT !.body = body, !.unparsed = <<>>,
                !.body_parsed = Len(body) = Header(m, "Content-Length")]

-----------------------------------------------------------------------------
(* The head of a message: its first line, its headers, an empty line.      *)
HeadText(line, headers) ==
  line \o CRLF \o FlattenSeq([i \in 1..Len(headers) |-> headers[i] \o CRLF]) \o CRLF

(* The map of the headers is written in an order of its own, by name: one  *)
(* order of a set is as good as another here.                              *)
MapText(line, headers) == HeadText(line, SetToSeq(headers))
=============================================================================
