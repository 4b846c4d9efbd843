----------------------------- MODULE HttpRequest -----------------------------
(***************************************************************************)
(* http_request (src/http_request.cpp): parse() and commit().              *)
(***************************************************************************)
EXTENDS HttpMessage

(* method, url and version are what stands before a space, the next space  *)
(* and the line end.  Where one of these is missing find() is npos, and    *)
(* the text is cut somewhere else or, at the end, substr throws.           *)
RequestTitle[m \in Message] ==
  LET method  == Find(m.unparsed, <<SP>>)
      rest    == From(m.unparsed, method + 1)
      url     == Find(rest, <<SP>>)
      last    == From(rest, url + 1)
      version == Find(last, CRLF)
  IN  IF m.title_parsed THEN m
      ELSE IF version + 2 > Len(last) THEN Threw(m)
      ELSE [m EXCEPT !.title = <<Upto(m.unparsed, method), Upto(rest, url),
                                 Upto(last, version)>>,
                     !.unparsed = From(last, version + 2),
                     !.title_parsed = TRUE]

(* Without Content-Length the request has no body.                         *)
RequestBody[m \in Message] ==
  IF ~m.headers_parsed \/ m.body_parsed THEN m
  ELSE IF Has(m, "Content-Length") THEN LengthBody(m)
  ELSE [m EXCEPT !.body_parsed = TRUE]

AppendRequest(m, data) ==
  RequestBody[Headers[RequestTitle[[m EXCEPT !.unparsed = @ \o data]]]]

RequestLine(m) == m.title[1] \o <<SP>> \o m.title[2] \o <<SP>> \o m.title[3]

(* commit(): title and headers as they were parsed, in lines of their own, *)
(* then the body and one more line end.                                    *)
CommitRequest(m) == MapText(RequestLine(m), m.headers) \o (m.body \o CRLF)
=============================================================================
