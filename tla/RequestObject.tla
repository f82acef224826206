---------------------------- MODULE RequestObject ----------------------------
(***************************************************************************)
(* One HTTPRequest object over the life of a connection: httpParse is      *)
(* called with one buffer after another, and the object is never reset.    *)
(*                                                                         *)
(* HTTPRequest gives the result of httpParse in one step.  parseLines here *)
(* is the loop of the code, one httpParseLine per line, and the runs check *)
(* that the two agree.                                                     *)
(***************************************************************************)
EXTENDS HTTPResponse, SequencesExt

CONSTANT Buffers    \* what the read buffer may hold when httpParse is called

ASSUME BuffersAssumption == Buffers \subseteq Seq(Lines)

VARIABLE req

-----------------------------------------------------------------------------
(* httpParseLine and the loop around it                                    *)

contentLine(r) ==
  LET length == Atoi[r.headers["Content-Length"]]
  IN IF length - r.contentLength <= 1
     THEN [r EXCEPT !.contentLength = length, !.parseStatus = "requestDone"]
     ELSE [r EXCEPT !.contentLength = @ + 1]

httpParseLine(r, line) ==
  CASE r.parseStatus = "requestLine" -> parseRequestLine(r, line)
    [] r.parseStatus = "headerLine"  ->
         (CASE line = Blank         -> endOfHeaders(r)
            [] line.kind = "header" -> addHeaders(r, <<line>>)
            [] OTHER                -> setRequestError(r, 400))
    [] r.parseStatus = "contentLine" -> contentLine(r)
    [] OTHER -> r     \* requestDone, requestError: the loop has ended

parseLines(r, block) == FoldLeft(httpParseLine, r, block)

-----------------------------------------------------------------------------
\* A buffer that holds no whole request is looked at again, or dropped if full.
Parse(b, isFull) ==
  /\ ~parseEnds(req, b)    \* and otherwise the process is gone
  /\ req' = httpParse(req, b, isFull).req

Init == req = NewRequest

Next == \E b \in Buffers, isFull \in BOOLEAN : Parse(b, isFull)

Spec == Init /\ [][Next]_req

-----------------------------------------------------------------------------
(* Properties.  Those that speak of a call speak of every buffer that may  *)
(* come next, in every state the object can be in.                         *)

\* The object stays well formed, and rests in one of two parser states between
\* calls: httpParse leaves no other behind.
TypeOK ==
  /\ req \in Requests
  /\ req.parseStatus \in {"requestLine", "contentLine"}

\* The result of httpParse is that of its loop over the lines of the block.
LoopAgrees ==
  \A b \in Buffers : \A e \in requestEnd(b) :
    httpParse(req, b, FALSE).req = setRequestState(parseLines(req, SubSeq(b, 1, e)))

\* An object that has parsed any sequence of requests before takes a header
\* block that a new one accepts as a new one takes it: with the method, the
\* target, the kind of response and the parser state it asks for.  Of GET and
\* HEAD that is all.  The body of a POST is measured with the first
\* Content-Length of the connection and with what was taken of earlier bodies:
\* these are a new object's as long as no request before has brought one.
ReusedAsNew ==
  \A b \in Buffers :
    LET fresh  == httpParse(NewRequest, b, FALSE).req
        reused == httpParse(req, b, FALSE).req
        k      == "Content-Length"
    IN req.parseStatus = "requestLine" /\ fresh.state # "ParsedError" /\ requestEnd(b) # {} =>
         /\ \A m \in {"state", "parseStatus", "method", "uri", "isCGI"} : reused[m] = fresh[m]
         /\ req.headers[k] = "" =>
              /\ reused.headers[k] = fresh.headers[k]
              /\ reused.contentLength = fresh.contentLength

\* A request without an error, or whose body is still to come, has a target that
\* no clean-up has deleted, and is a CGI request exactly if this one says so.
\* A malformed request has no such luck: see ErrorIsServed.
TargetIsLive ==
  req.state = "ParsedCorrect" \/ req.parseStatus = "contentLine" => HasTarget(req)

\* The content copied so far is within the length the content is allocated
\* for, whatever Content-Length headers the connection has carried: the
\* memcpy of length - curLength bytes only gets a negative size when a header
\* itself is negative.
ContentWithinLength ==
  LET length == Atoi[req.headers["Content-Length"]]
  IN length >= 0 => req.contentLength <= length

\* HTTPRequest.cpp:83 of a full buffer without the end of a request: "Parsing
\* result: Error - Abort request longer than buffer size", and the state is set
\* to ParsedError.  The end of the function sets it to Parsing.
OverlongIsError ==
  \A b \in Buffers :
    requestEnd(b) = {} => httpParse(req, b, TRUE).req.state = "ParsedError"

\* HTTPResponse.cpp:81, "Serve Error request": a request that was parsed with an
\* error gets a response with a status line that says so, here one whose uri the
\* clean-up of the parser has deleted.  buildResponse asks isCGI first, which is
\* still that of an earlier request, and runs a program by the deleted uri.
ErrorIsServed ==
  req.state = "ParsedError" /\ req.uri = Freed =>
    \A o \in Outcomes : buildResponse(req, o).status = req.statusCode

=============================================================================
