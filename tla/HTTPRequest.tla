---------------------------- MODULE HTTPRequest ----------------------------
(***************************************************************************)
(* The request object of a connection and its parser                       *)
(* (src/src/HTTPRequest.cpp, src/include/HTTPRequest.h).                   *)
(*                                                                         *)
(* A connection owns ONE HTTPRequest object for its whole life: httpParse  *)
(* overwrites some members per request and never resets the others, so     *)
(* what a request means depends on the requests parsed before it.          *)
(*                                                                         *)
(* The byte stream is a sequence of lines.  A line stands for its bytes up *)
(* to and including CRLF and takes one unit of a buffer; the "blank" line  *)
(* is the bare CRLF that, after another line, forms the CRLFCRLF strnstr   *)
(* looks for.  Header lists are kept as the answer of getHeaderValueByKey, *)
(* which returns the FIRST entry of a key ("" when there is none).         *)
(***************************************************************************)
EXTENDS Integers, Sequences

CONSTANTS
  URIs,          \* the request targets clients use
  CGIURIs,       \* those that start with "/cgi-bin"
  HeaderValues,  \* the header values clients send, as non-empty strings
  Atoi,          \* the C library's atoi on header values and on ""
  NULL,          \* the null pointer
  Freed          \* a pointer whose object has been deleted

ASSUME RequestAssumption ==
  /\ CGIURIs \subseteq URIs
  /\ NULL \notin URIs /\ Freed \notin URIs /\ NULL # Freed
  /\ "" \notin HeaderValues
  /\ Atoi \in [HeaderValues \cup {""} -> Int] /\ Atoi[""] = 0

-----------------------------------------------------------------------------
(* Lines                                                                   *)

KnownMethods == {"GET", "HEAD", "POST"}
HeaderKeys   == {"Host", "Connection", "Content-length", "Content-Length"}

\* "OTHER" is any method name the method table does not hold.
\*
\* own: all that sscanf matched is in the line.  The copy it scans ends without
\* a zero, and white space in a format skips CRLF: behind a request line with
\* words missing, and behind a header without a value, it reads on in the heap.
\* What it finds there counts as sent, or does not match and the line is Junk.
RequestLines == [kind : {"request"}, method : KnownMethods \cup {"OTHER"},
                 uri : URIs, http11 : BOOLEAN, own : BOOLEAN]
HeaderLines  == [kind : {"header"}, key : HeaderKeys, value : HeaderValues,
                 own : BOOLEAN]
Blank        == [kind |-> "blank"]
Junk         == [kind |-> "junk"]    \* matches neither sscanf format
Lines        == RequestLines \cup HeaderLines \cup {Blank, Junk}

-----------------------------------------------------------------------------
(* The object                                                              *)

Methods     == KnownMethods \cup {"UNIMPLEMENTED"}
Targets     == URIs \cup {NULL, Freed}
HeaderLists == [HeaderKeys -> HeaderValues \cup {""}]
StatusCodes == {0, 400, 411, 501, 505}
States      == {"Init", "Parsing", "ParsedCorrect", "ParsedError"}
ParseStates == {"requestLine", "headerLine", "contentLine",
                "requestError", "requestDone"}

Requests ==
  [method : Methods, uri : Targets, headers : HeaderLists, contentLength : Nat,
   statusCode : StatusCodes, state : States, parseStatus : ParseStates,
   isCGI : BOOLEAN]

NewRequest ==
  [method |-> "UNIMPLEMENTED", uri |-> NULL,
   headers |-> [k \in HeaderKeys |-> ""],
   contentLength |-> 0, statusCode |-> 0, state |-> "Init",
   parseStatus |-> "requestLine", isCGI |-> FALSE]

Parsed(r) == r.state \in {"ParsedCorrect", "ParsedError"}

setRequestError(r, code) ==
  [r EXCEPT !.parseStatus = "requestError", !.statusCode = code]

\* "delete[] uri" of the clean-up: the member is left dangling.
deleteURI(r) == [r EXCEPT !.uri = IF @ = NULL THEN NULL ELSE Freed]

-----------------------------------------------------------------------------
(* The request line                                                        *)

\* What a good request line leaves in isCGI.  Mutant: an earlier CGI request
\* of the connection is remembered.
isCGI_Sticky(r, line) == r.isCGI \/ line.uri \in CGIURIs
isCGI(r, line) == line.uri \in CGIURIs

\* What it leaves in uri.  Mutant: allocated only while the pointer is null.
newURI_KeepOld(r, line) == IF r.uri = NULL THEN line.uri ELSE r.uri
newURI(r, line) == line.uri

\* A method missing from the table leaves the member as it was, which is
\* UNIMPLEMENTED only as long as no request line of the connection matched.
parseRequestLine(r, line) ==
  LET known  == line.kind = "request" /\ line.method \in KnownMethods
      m      == IF known THEN line.method ELSE r.method
      fail(code) == deleteURI(setRequestError([r EXCEPT !.method = m], code))
  IN CASE line.kind # "request"                          -> fail(400)
       [] line.kind = "request" /\ m = "UNIMPLEMENTED"   -> fail(501)
       [] line.kind = "request" /\ m # "UNIMPLEMENTED" /\ ~line.http11 -> fail(505)
       [] OTHER -> [r EXCEPT !.method = m, !.uri = newURI(r, line),
                             !.isCGI = isCGI(r, line),
                             !.parseStatus = "headerLine"]

\* Undefined behaviour of the clean-up at its end: _method is deleted twice
\* when sscanf did not match, and uri again when it already dangles.
DoubleDelete(r, line) ==
  \/ line.kind # "request"
  \/ r.uri = Freed /\ parseRequestLine(r, line).parseStatus = "requestError"

-----------------------------------------------------------------------------
(* The header lines                                                        *)

\* The positions in lines of the first and of the last entry of key k.
FirstOf(lines, k) ==
  {i \in DOMAIN lines : lines[i].key = k /\ \A j \in 1..(i - 1) : lines[j].key # k}
LastOf(lines, k) ==
  {i \in DOMAIN lines :
     lines[i].key = k /\ \A j \in (i + 1)..Len(lines) : lines[j].key # k}

\* headers.push_back for each line, seen through getHeaderValueByKey: entries
\* of earlier requests of the connection stay in front.  Mutant: a later
\* entry replaces an earlier one.
addHeaders_LastWins(r, lines) ==
  [r EXCEPT !.headers = [k \in HeaderKeys |->
     IF LastOf(lines, k) = {} THEN @[k]
     ELSE lines[CHOOSE i \in LastOf(lines, k) : TRUE].value]]
addHeaders(r, lines) ==
  [r EXCEPT !.headers = [k \in HeaderKeys |->
     IF @[k] # "" \/ FirstOf(lines, k) = {} THEN @[k]
     ELSE lines[CHOOSE i \in FirstOf(lines, k) : TRUE].value]]

\* POST with a "Content-length" is valid, and otherwise falls through to the
\* Host test of HEAD and GET.
isValidRequest(r) ==
  \/ r.method = "POST" /\ r.headers["Content-length"] # ""
  \/ r.method \in KnownMethods /\ r.headers["Host"] # ""

endOfHeaders(r) ==
  IF isValidRequest(r)
  THEN [r EXCEPT !.parseStatus =
          IF r.method = "POST" THEN "contentLine" ELSE "requestDone"]
  ELSE setRequestError(r, 411)

\* The headers of one request, up to the first line that is not one.
parseHeaders(r, lines) ==
  LET bad == {i \in DOMAIN lines : lines[i].kind # "header"}
  IN IF bad = {} THEN endOfHeaders(addHeaders(r, lines))
     ELSE LET b == CHOOSE i \in bad : \A j \in bad : i <= j
          IN setRequestError(addHeaders(r, SubSeq(lines, 1, b - 1)), 400)

-----------------------------------------------------------------------------
(* The body                                                                *)

\* Lines of content until "Content-Length" of them have been taken (the test
\* of validity reads "Content-length").  Mutant: one line short.
parseContent_Short(r, block) ==
  LET length == Atoi[r.headers["Content-Length"]]
  IN IF length - r.contentLength <= Len(block) + 1
     THEN [r EXCEPT !.contentLength = length, !.parseStatus = "requestDone"]
     ELSE [r EXCEPT !.contentLength = @ + Len(block)]
parseContent(r, block) ==
  LET length == Atoi[r.headers["Content-Length"]]
  IN IF length - r.contentLength <= Len(block)
     THEN [r EXCEPT !.contentLength = length, !.parseStatus = "requestDone"]
     ELSE [r EXCEPT !.contentLength = @ + Len(block)]

-----------------------------------------------------------------------------
(* httpParse                                                               *)

\* Where the first CRLFCRLF of the buffer ends ({} when there is none).
requestEnd(buf) ==
  {j \in 2..Len(buf) : buf[j] = Blank /\ \A i \in 2..(j - 1) : buf[i] # Blank}

\* The loop over the lines of one CRLFCRLF block.  Its only blank lines are
\* the last and, in a malformed request, the first.
parseBlock(r, block) ==
  IF r.parseStatus = "contentLine" THEN parseContent(r, block)
  ELSE LET q == parseRequestLine(r, block[1])
       IN IF q.parseStatus = "requestError" THEN q
          ELSE parseHeaders(q, SubSeq(block, 2, Len(block) - 1))

\* "Set request state" at the end: a finished request leaves the parser ready
\* for the next one.  Mutant: only a correct one does.
setRequestState_NoReset(r) ==
  CASE r.parseStatus = "requestError" -> [r EXCEPT !.state = "ParsedError"]
    [] r.parseStatus = "requestDone" ->
         [r EXCEPT !.state = "ParsedCorrect", !.parseStatus = "requestLine"]
    [] OTHER -> [r EXCEPT !.state = "Parsing"]
setRequestState(r) ==
  CASE r.parseStatus = "requestError" ->
         [r EXCEPT !.state = "ParsedError", !.parseStatus = "requestLine"]
    [] r.parseStatus = "requestDone" ->
         [r EXCEPT !.state = "ParsedCorrect", !.parseStatus = "requestLine"]
    [] OTHER -> [r EXCEPT !.state = "Parsing"]

\* The object after the call, and how much of the buffer it says it parsed.
\* Without a CRLFCRLF a full buffer is parsed as nothing and dropped.
httpParse(r, buf, full) ==
  IF requestEnd(buf) # {}
  THEN LET e == CHOOSE j \in requestEnd(buf) : TRUE
       IN [req |-> setRequestState(parseBlock(r, SubSeq(buf, 1, e))), size |-> e]
  ELSE [req  |-> setRequestState(IF full THEN [r EXCEPT !.parseStatus = "requestLine"]
                                         ELSE r),
        size |-> IF full THEN Len(buf) ELSE 0]

\* The call runs into undefined behaviour it may survive.
parseFaults(r, buf) ==
  requestEnd(buf) # {} /\ r.parseStatus = "requestLine" /\ DoubleDelete(r, buf[1])

\* A line of the block that is scanned takes more from the heap than its arrays,
\* which have the length of the line, may hold.
scanned(r, block) ==
  {i \in DOMAIN block :
     \/ i = 1
     \/ /\ parseRequestLine(r, block[1]).parseStatus = "headerLine"
        /\ \A j \in 2..(i - 1) : block[j].kind = "header"}
overruns(r, buf) ==
  /\ r.parseStatus = "requestLine"
  /\ \E e \in requestEnd(buf) : \E i \in scanned(r, SubSeq(buf, 1, e)) :
       buf[i].kind \in {"request", "header"} /\ ~buf[i].own

\* What is left of the body is negative: memcpy takes it for a size, and does
\* not return.
negativeBody(r) ==
  r.parseStatus = "contentLine" /\ Atoi[r.headers["Content-Length"]] < r.contentLength
parseEnds(r, buf) == requestEnd(buf) # {} /\ negativeBody(r)

\* The object has a uri, and its kind is that of the uri.
HasTarget(r) == r.uri \in URIs /\ (r.isCGI <=> r.uri \in CGIURIs)

\* Between calls the parser waits for a request line, or for content and then
\* the object has a target.
Resting(r) ==
  \/ r.parseStatus = "requestLine"
  \/ r.parseStatus = "contentLine" /\ HasTarget(r)

=============================================================================
